---------------------------- MODULE ConfigReload ----------------------------
(***************************************************************************)
(* The configuration file and the log level that follows it:               *)
(* configuration::init and do_realtime (lib/common/configuration.cpp),     *)
(* loglevel_checker::start (lib/common/loglevel_checker.cpp), and init()   *)
(* of the programs that run them (program/coroutine/init.cpp and alike).   *)
(*                                                                         *)
(* Of the file only the text of log_level matters, and whether it parses.  *)
(* A write may leave any modification time behind: a later one, the same   *)
(* one (two writes within a clock tick), or an older one (a backup put     *)
(* back with its time).                                                    *)
(***************************************************************************)
EXTENDS Naturals

CONSTANTS Texts,        \* values of log_level, NoText among them
          Lower,        \* a text in lower case
          Times,        \* modification times
          MaxWrites     \* bound: writes to the file

NoText == ""            \* no such key, or an empty string
Broken == "broken"      \* the file does not parse
Missing == "missing"    \* there is no file

SpdlogLevels == {"off", "critical", "error", "warn", "debug", "trace", "info"}

\* Lower is idempotent, and the names of the levels are in lower case.
ASSUME ConfigAssumption ==
  /\ Lower \in [Texts -> Texts]
  /\ \A t \in Texts : Lower[Lower[t]] = Lower[t]
  /\ \A t \in (SpdlogLevels \cup {NoText}) \cap Texts : Lower[t] = t
  /\ Texts \cap {Broken, Missing} = {}
  /\ {NoText, "info"} \subseteq Texts
  /\ Times \subseteq Nat \ {0}
  /\ Times # {}
  /\ MaxWrites \in Nat

VARIABLES file,           \* [mt, text]
          writes,         \* writes so far
          config,         \* log_level in g_config
          g_last_mtime,
          g_mtime_inited,
          mt,             \* the local of do_realtime
          log_level,      \* log_level_ of the checker
          level,          \* spdlog's level
          pcI,            \* where init() is
          pcC,            \* where the checker is
          stop            \* stop requested of g_thr_llc

vars == <<file, writes, config, g_last_mtime, g_mtime_inited, mt, log_level,
          level, pcI, pcC, stop>>

Files == [mt : Times, text : Texts \cup {Broken, Missing}]
Parses(f) == f.text \in Texts

\* get_string(progname_, "log_level", "info"): absent and empty give "info".
get_string(t) == IF t = NoText THEN "info" ELSE t

\* boost::iequals
iequals(s, t) == Lower[s] = Lower[t]

to_spdlog_level(t) == IF Lower[t] \in SpdlogLevels THEN Lower[t] ELSE "info"

Init ==
  /\ file \in Files
  /\ writes = 0
  /\ config = NoText
  /\ g_last_mtime = 0
  /\ g_mtime_inited = FALSE
  /\ mt = 0
  /\ log_level = NoText
  /\ level = "info"
  /\ pcI = "load"
  /\ pcC = "off"
  /\ stop = FALSE

----------------------------------------------------------------------------
(* Slips: mistaken forms of actions below, which no specification uses and *)
(* the properties reject.                                                  *)

\* a failed reload is recorded like a successful one
ParseSlip ==
  /\ pcC = "parse"
  /\ config' = IF Parses(file) THEN file.text ELSE config
  /\ g_last_mtime' = mt
  /\ mt' = 0
  /\ pcC' = "get"
  /\ UNCHANGED <<file, writes, g_mtime_inited, log_level, level, pcI, stop>>

\* the initial level is left to the first change
StartSlip ==
  /\ pcC = "start"
  /\ pcC' = "sleep"
  /\ UNCHANGED <<file, writes, config, g_last_mtime, g_mtime_inited, mt,
                 log_level, level, pcI, stop>>

\* the table is moved into place before the parse is known to have worked
LoadSlip ==
  /\ pcI = "load"
  /\ g_mtime_inited' = FALSE
  /\ config' = file.text
  /\ pcI' = IF Parses(file) THEN "start" ELSE "failed"
  /\ UNCHANGED <<file, writes, g_last_mtime, mt, log_level, level, pcC, stop>>

\* naps without a look at the stop token
WakeSlip ==
  /\ pcC = "sleep"
  /\ pcC' = "stat"
  /\ UNCHANGED <<file, writes, config, g_last_mtime, g_mtime_inited, mt,
                 log_level, level, pcI, stop>>

\* only a later modification time counts as a change
ChangedSlip == file.mt > g_last_mtime

----------------------------------------------------------------------------
(* The file (external) *)

\* Somebody writes, replaces or removes the file.
Write ==
  /\ writes < MaxWrites
  /\ writes' = writes + 1
  /\ file' \in Files
  /\ UNCHANGED <<config, g_last_mtime, g_mtime_inited, mt, log_level, level,
                 pcI, pcC, stop>>

----------------------------------------------------------------------------
(* init() *)

\* configuration::init.  When it fails, init() returns before it has started
\* a checker, and main goes on all the same.
Load ==
  /\ pcI = "load"
  /\ g_mtime_inited' = FALSE
  /\ IF Parses(file)
     THEN config' = file.text /\ pcI' = "start"
     ELSE config' = config /\ pcI' = "failed"
  /\ UNCHANGED <<file, writes, g_last_mtime, mt, log_level, level, pcC, stop>>

\* spdlog::set_level(info), and the checker is made and started.
StartChecker ==
  /\ pcI = "start"
  /\ level' = "info"
  /\ log_level' = get_string(config)
  /\ pcI' = "done"
  /\ pcC' = "start"
  /\ UNCHANGED <<file, writes, config, g_last_mtime, g_mtime_inited, mt, stop>>

\* The static jthread g_thr_llc is destroyed.
RequestStop ==
  /\ pcI = "done"
  /\ ~stop
  /\ stop' = TRUE
  /\ UNCHANGED <<file, writes, config, g_last_mtime, g_mtime_inited, mt,
                 log_level, level, pcI, pcC>>

----------------------------------------------------------------------------
(* loglevel_checker::start *)

\* The initial level
Start ==
  /\ pcC = "start"
  /\ level' = to_spdlog_level(log_level)
  /\ pcC' = "sleep"
  /\ UNCHANGED <<file, writes, config, g_last_mtime, g_mtime_inited, mt,
                 log_level, pcI, stop>>

\* The loop condition and fifty naps, with a look at the stop token before
\* each and after the last
Wake ==
  /\ pcC = "sleep"
  /\ pcC' = IF stop THEN "exit" ELSE "stat"
  /\ UNCHANGED <<file, writes, config, g_last_mtime, g_mtime_inited, mt,
                 log_level, level, pcI, stop>>

\* The comparison of do_realtime
Changed == file.mt # g_last_mtime

\* do_realtime, up to the comparison: no file, or the time is as recorded
StatUnchanged ==
  /\ pcC = "stat"
  /\ file.text = Missing \/ (g_mtime_inited /\ ~Changed)
  /\ pcC' = "get"
  /\ UNCHANGED <<file, writes, config, g_last_mtime, g_mtime_inited, mt,
                 log_level, level, pcI, stop>>

\* The first call only records the time.
StatFirst ==
  /\ pcC = "stat"
  /\ file.text # Missing
  /\ ~g_mtime_inited
  /\ g_last_mtime' = file.mt
  /\ g_mtime_inited' = TRUE
  /\ pcC' = "get"
  /\ UNCHANGED <<file, writes, config, mt, log_level, level, pcI, stop>>

StatChanged ==
  /\ pcC = "stat"
  /\ file.text # Missing
  /\ g_mtime_inited
  /\ Changed
  /\ mt' = file.mt
  /\ pcC' = "parse"
  /\ UNCHANGED <<file, writes, config, g_last_mtime, g_mtime_inited, log_level,
                 level, pcI, stop>>

\* Configuration::init reads the file as it is by now; the time recorded is
\* the one from before.  A file that does not parse is tried again.
Parse ==
  /\ pcC = "parse"
  /\ IF Parses(file)
     THEN config' = file.text /\ g_last_mtime' = mt
     ELSE UNCHANGED <<config, g_last_mtime>>
  /\ mt' = 0
  /\ pcC' = "get"
  /\ UNCHANGED <<file, writes, g_mtime_inited, log_level, level, pcI, stop>>

\* get_string, and the new level if it is spelled otherwise
Apply ==
  /\ pcC = "get"
  /\ IF iequals(get_string(config), log_level)
     THEN UNCHANGED <<log_level, level>>
     ELSE /\ log_level' = get_string(config)
          /\ level' = to_spdlog_level(get_string(config))
  /\ pcC' = "sleep"
  /\ UNCHANGED <<file, writes, config, g_last_mtime, g_mtime_inited, mt, pcI,
                 stop>>

Checker ==
  \/ Start \/ Wake
  \/ StatUnchanged \/ StatFirst \/ StatChanged \/ Parse
  \/ Apply

Next == Write \/ Load \/ StartChecker \/ RequestStop \/ Checker

Spec == Init /\ [][Next]_vars

\* The scheduler runs the checker, which waits for nothing but the clock.
FairSpec == Spec /\ WF_vars(Checker)

----------------------------------------------------------------------------
(* Properties *)

\* Every variable keeps to its domain.
TypeOK ==
  /\ file \in Files
  /\ writes \in 0 .. MaxWrites
  /\ config \in Texts
  /\ g_last_mtime \in Times \cup {0}
  /\ g_mtime_inited \in BOOLEAN
  /\ mt \in Times \cup {0}
  /\ log_level \in Texts
  /\ level \in SpdlogLevels
  /\ pcI \in {"load", "start", "done", "failed"}
  /\ pcC \in {"off", "start", "sleep", "stat", "parse", "get", "exit"}
  /\ stop \in BOOLEAN

\* From its first step on the checker's idea of the level is spdlog's, in all
\* spellings: since a level that compares equal is not set again, a level
\* that once disagreed would stay wrong for as long as the file stays.
LevelAgrees ==
  pcC \notin {"off", "start"} => level = to_spdlog_level(log_level)

\* The file counts as seen, and what is loaded is something else.
Overlooked ==
  /\ g_mtime_inited
  /\ file.text # Missing
  /\ file.mt = g_last_mtime
  /\ config # file.text

\* do_realtime never marks as seen what it has not loaded, although the file
\* changes between its stat and its parse, and parses may fail.  A version is
\* overlooked only if it was there before the first call, or if its write
\* left the recorded modification time behind.
SeenIsLoaded ==
  [][~Overlooked /\ Overlooked' => StatFirst \/ Write]_vars

\* A version of the file that parses, and whose time is not the recorded one,
\* gets its log level into force, unless the file changes again or the
\* checker is stopped.
LevelFollowsFile ==
  \A f \in {g \in Files : Parses(g)} :
    (file = f /\ g_mtime_inited /\ f.mt # g_last_mtime)
      ~> (level = to_spdlog_level(get_string(f.text)) \/ file # f \/ stop)

\* The destruction of g_thr_llc does not wait for ever.
StopEndsChecker == stop ~> pcC = "exit"
=============================================================================
