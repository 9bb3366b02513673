------------------------- MODULE ConfigReloadProofs -------------------------
(***************************************************************************)
(* What ConfigReload keeps for every set of texts and times and any number *)
(* of writes.                                                              *)
(***************************************************************************)
EXTENDS ConfigReload, TLAPS

\* The text of a level is one of Texts whatever is loaded.
LEMMA GetStringType ==
  ASSUME NEW t \in Texts
  PROVE  get_string(t) \in Texts
BY ConfigAssumption DEF get_string, NoText

\* Every text gives one of spdlog's levels.
LEMMA LevelType ==
  ASSUME NEW t
  PROVE  to_spdlog_level(t) \in SpdlogLevels
BY DEF to_spdlog_level, SpdlogLevels

\* The state before init() is well typed.
LEMMA InitTypeOK == Init => TypeOK
<1> SUFFICES ASSUME Init PROVE TypeOK
  OBVIOUS
<1>1. writes \in 0 .. MaxWrites
  BY ConfigAssumption DEF Init
<1>2. config \in Texts /\ log_level \in Texts
  BY ConfigAssumption DEF Init
<1>3. level \in SpdlogLevels
  BY DEF Init, SpdlogLevels
<1>4. QED BY <1>1, <1>2, <1>3 DEF Init, TypeOK

\* Every step keeps the domains: a write, a load, a reload, a change of level.
LEMMA NextTypeOK ==
  ASSUME TypeOK, [Next]_vars
  PROVE  TypeOK'
<1> USE DEF TypeOK
<1>1. CASE Write
  <2>1. writes' \in 0 .. MaxWrites
    BY <1>1, ConfigAssumption DEF Write
  <2>2. QED BY <1>1, <2>1 DEF Write
<1>2. CASE Load
  BY <1>2 DEF Load, Parses
<1>3. CASE StartChecker
  BY <1>3, GetStringType DEF StartChecker, SpdlogLevels
<1>4. CASE RequestStop
  BY <1>4 DEF RequestStop
<1>5. CASE Start
  BY <1>5, LevelType DEF Start
<1>6. CASE Wake
  BY <1>6 DEF Wake
<1>7. CASE StatUnchanged
  BY <1>7 DEF StatUnchanged
<1>8. CASE StatFirst
  BY <1>8 DEF StatFirst, Files
<1>9. CASE StatChanged
  BY <1>9 DEF StatChanged, Files
<1>10. CASE Parse
  BY <1>10 DEF Parse, Parses
<1>11. CASE Apply
  <2>1. /\ log_level' \in Texts
        /\ level' \in SpdlogLevels
    BY <1>11, GetStringType, LevelType DEF Apply
  <2>2. QED BY <1>11, <2>1 DEF Apply
<1>12. CASE UNCHANGED vars
  BY <1>12 DEF vars
<1>13. QED
  BY <1>1, <1>2, <1>3, <1>4, <1>5, <1>6, <1>7, <1>8, <1>9, <1>10, <1>11,
     <1>12 DEF Next, Checker

\* init(), do_realtime and the checker keep every variable in its domain; in
\* particular nothing that did not parse is ever in g_config.
THEOREM TypeCorrect == Spec => []TypeOK
<1>1. Init => TypeOK
  BY InitTypeOK
<1>2. TypeOK /\ [Next]_vars => TypeOK'
  BY NextTypeOK
<1>3. QED BY <1>1, <1>2, PTL DEF Spec

----------------------------------------------------------------------------
\* Each step keeps log_level_ and spdlog's level together.
LEMMA NextLevelAgrees ==
  ASSUME LevelAgrees, [Next]_vars
  PROVE  LevelAgrees'
<1> USE DEF LevelAgrees
<1>1. CASE Write
  BY <1>1 DEF Write
<1>2. CASE Load
  BY <1>2 DEF Load
<1>3. CASE StartChecker
  BY <1>3 DEF StartChecker
<1>4. CASE RequestStop
  BY <1>4 DEF RequestStop
<1>5. CASE Start
  BY <1>5 DEF Start
<1>6. CASE Wake
  BY <1>6 DEF Wake
<1>7. CASE StatUnchanged \/ StatFirst \/ StatChanged \/ Parse
  BY <1>7 DEF StatUnchanged, StatFirst, StatChanged, Parse
<1>8. CASE Apply
  BY <1>8 DEF Apply
<1>9. CASE UNCHANGED vars
  BY <1>9 DEF vars
<1>10. QED
  BY <1>1, <1>2, <1>3, <1>4, <1>5, <1>6, <1>7, <1>8, <1>9 DEF Next, Checker

\* Once the checker has started, spdlog's level is the one that log_level_
\* names, whoever wrote the file and when.
THEOREM LevelInForce == Spec => []LevelAgrees
<1>1. Init => LevelAgrees
  BY DEF Init, LevelAgrees
<1>2. LevelAgrees /\ [Next]_vars => LevelAgrees'
  BY NextLevelAgrees
<1>3. QED BY <1>1, <1>2, PTL DEF Spec

----------------------------------------------------------------------------
\* Only the first call of do_realtime and a write can make a version count as
\* seen that is not the one loaded.
LEMMA NextOverlooks ==
  ASSUME [Next]_vars, ~Overlooked, Overlooked'
  PROVE  StatFirst \/ Write
<1> USE DEF Overlooked
<1>1. CASE Load
  BY <1>1 DEF Load
<1>2. CASE StartChecker \/ RequestStop \/ Start \/ Wake
  BY <1>2 DEF StartChecker, RequestStop, Start, Wake
<1>3. CASE StatUnchanged \/ StatChanged
  BY <1>3 DEF StatUnchanged, StatChanged
<1>4. CASE Parse
  BY <1>4 DEF Parse
<1>5. CASE Apply
  BY <1>5 DEF Apply
<1>6. CASE UNCHANGED vars
  BY <1>6 DEF vars
<1>7. QED BY <1>1, <1>2, <1>3, <1>4, <1>5, <1>6 DEF Next, Checker

\* do_realtime marks nothing as seen that it has not loaded: its first call
\* and writes that keep the recorded time are the only ways to overlook one.
THEOREM NothingOverlooked == Spec => SeenIsLoaded
<1>1. [Next]_vars => [~Overlooked /\ Overlooked' => StatFirst \/ Write]_vars
  BY NextOverlooks
<1>2. QED BY <1>1, PTL DEF Spec, SeenIsLoaded
=============================================================================
