---------------------- MODULE ProcessGroupStarterProofs ----------------------
(***************************************************************************)
(* Theorems about ProcessGroupStarter, for every number of processes, every *)
(* task and every set of limits.                                            *)
(***************************************************************************)
EXTENDS ProcessGroupStarterInvariant, TLAPS

\* The status operators return statuses.
LEMMA FinalStatusType ==
  ASSUME NEW s \in CompletionStatus, NEW e \in WaitStatus, NEW o \in SUBSET LimitKind
  PROVE  /\ CollectResourceInfo(s, o) \in CompletionStatus
         /\ FinalStatus(s, e, o) \in CompletionStatus
  <1>1. \A t \in CompletionStatus : CollectResourceInfo(t, o) \in CompletionStatus
    BY DEF CollectResourceInfo, CompletionStatus
  <1>2. AssignStatus(s, e) \in CompletionStatus
    BY DEF AssignStatus, CompletionStatus
  <1> QED BY <1>1, <1>2 DEF FinalStatus

\* What an id is over is a set of limits.
LEMMA OverrunType ==
  ASSUME TypeOK, NEW id \in Ids
  PROVE  Overrun(id) \in SUBSET LimitKind
  <1>1. exceeded[id] \subseteq LimitKind
    BY LimitsAssumption DEF TypeOK
  <1>2. (IF maxMemory[id] > MemoryLimit THEN {"memory"} ELSE {}) \subseteq LimitKind
    BY DEF LimitKind
  <1> QED BY <1>1, <1>2 DEF Overrun

\* One step keeps every variable in its type.
LEMMA TypeStep ==
  ASSUME TypeOK, [Next]_vars
  PROVE  TypeOK'
  <1> USE DEF TypeOK, MainPoint, Caller, taskVars, mainVars, setVars, resultVars,
              infoVars, loaderVars, childVars, usageVars
  <1>1. CASE StartProcess
    <2>1. [type |-> "spawn", id |-> cur] \in Event
      BY <1>1, NAssumption DEF StartProcess, Event, Ids, MoreToStart
    <2>2. cur \in Ids /\ cur + 1 \in 0 .. N
      BY <1>1, NAssumption DEF StartProcess, Ids, MoreToStart
    <2>3. events' \in Seq(Event)
      BY <1>1, <2>1 DEF StartProcess, MoreToStart
    <2> QED BY <1>1, <2>2, <2>3 DEF StartProcess, MoreToStart
  <1>2. CASE StartFails
    BY <1>2 DEF StartFails
  <1>3. CASE StartLoop
    BY <1>3 DEF StartLoop
  <1>4. CASE TestGroup
    BY <1>4 DEF TestGroup, Checked, othersThanMain
  <1>5. ASSUME NEW id \in Ids, CheckLimits(id) PROVE TypeOK'
    <2>1. CollectResourceInfo(status[id], Overrun(id)) \in CompletionStatus
      BY FinalStatusType, OverrunType DEF WaitStatus
    <2>2. id \in 0 .. N
      BY NAssumption DEF Ids
    <2> QED BY <1>5, <2>1, <2>2 DEF CheckLimits, CallTerminate
  <1>6. CASE CheckLimitsDone
    BY <1>6 DEF CheckLimitsDone, GoTo, othersThanMain
  <1>7. CASE WaitTimesOut
    BY <1>7 DEF WaitTimesOut, GoTo, othersThanMain
  <1>8. ASSUME NEW id \in Ids, Reap(id) PROVE TypeOK'
    <2>1. id \in 0 .. N
      BY NAssumption DEF Ids
    <2> QED BY <1>8, <2>1 DEF Reap, AfterWait
  <1>9. CASE MonitorTerminated
    <2>1. cur \in Ids
      BY <1>9 DEF MonitorTerminated, WaitedForAfter
    <2>2. FinalStatus(status[cur], exit[cur], Overrun(cur)) \in CompletionStatus
      BY <2>1, FinalStatusType, OverrunType
    <2> DEFINE final == FinalStatus(status[cur], exit[cur], Overrun(cur))
    <2>3. TerminationEvent(cur, final) \in Event
      BY <2>1, <2>2 DEF Event, TerminationEvent
    <2>4. events' \in Seq(Event)
      BY <1>9, <2>3 DEF MonitorTerminated, WaitedForAfter
    <2>5. status' \in [Ids -> CompletionStatus]
      BY <1>9, <2>2 DEF MonitorTerminated, WaitedForAfter
    <2>6. groupStatus' \in GroupStatus
      BY <1>9 DEF MonitorTerminated, GroupCheck, GroupStatus, WaitedForAfter
    <2> HIDE DEF final
    <2> QED BY <1>9, <2>1, <2>4, <2>5, <2>6 DEF MonitorTerminated, WaitedForAfter
  <1>10. CASE CheckDeadline
    BY <1>10 DEF CheckDeadline, GroupStatus
  <1>11. ASSUME NEW id \in Ids, TerminateNext(id) PROVE TypeOK'
    <2>1. id \in 0 .. N
      BY NAssumption DEF Ids
    <2> QED BY <1>11, <2>1 DEF TerminateNext, CallTerminate, othersThanMain
  <1>12. CASE TerminateDone
    BY <1>12 DEF TerminateDone, GoTo, othersThanMain
  <1>13. CASE AllTerminated
    <2>1. events' \in Seq(Event)
      BY <1>13 DEF AllTerminated, Event
    <2> QED BY <1>13, <2>1 DEF AllTerminated
  <1>14. CASE JoinWorkers
    BY <1>14, NAssumption DEF JoinWorkers, Joined, othersThanMain
  <1>15. CASE CloseNonEmpty
    <2>1. cur \in Ids
      BY <1>15, NAssumption DEF CloseNonEmpty, Ids, CallTerminate, othersThanMain
    <2> QED BY <1>15, <2>1 DEF CloseNonEmpty, CallTerminate, othersThanMain
  <1>16. CASE UnsetControlGroup
    <2>1. cur \in Ids /\ cur + 1 \in 0 .. N
      BY <1>16, NAssumption DEF UnsetControlGroup, Ids
    <2> QED BY <1>16, <2>1 DEF UnsetControlGroup
  <1>17. CASE ReturnResult
    BY <1>17 DEF ReturnResult, GoTo, othersThanMain
  <1>18. CASE KillPid
    BY <1>18 DEF KillPid, KillReaches
  <1>19. CASE KillControlGroup
    BY <1>19 DEF KillControlGroup, DescendantsKilled
  <1>20. CASE MarkTerminated
    <2>1. status' \in [Ids -> CompletionStatus]
      BY <1>20 DEF MarkTerminated, CompletionStatus
    <2>2. maxMemory' \in [Ids -> 0 .. MaxMemory]
      BY <1>20 DEF MarkTerminated
    <2> QED BY <1>20, <2>1, <2>2 DEF MarkTerminated
  <1>21. CASE LoaderNext
    <2>1. 0 \in 0 .. N /\ (lid < N => lid \in Ids /\ lid + 1 \in 0 .. N)
      BY NAssumption DEF Ids
    <2>2. /\ lpc' \in {"check", "sample", "done"}
          /\ lid' \in 0 .. N /\ found' \in BOOLEAN
          /\ lpc' = "sample" => lid' \in Ids
      <3>1. CASE lid < N /\ flag[lid]
        BY <1>21, <2>1, <3>1 DEF LoaderNext, othersThanLoader
      <3>2. CASE lid < N /\ ~flag[lid]
        BY <1>21, <2>1, <3>2 DEF LoaderNext, othersThanLoader
      <3>3. CASE ~(lid < N)
        BY <1>21, <2>1, <3>3 DEF LoaderNext, othersThanLoader
      <3> QED BY <3>1, <3>2, <3>3
    <2> QED BY <1>21, <2>2 DEF LoaderNext, othersThanLoader
  <1>22. CASE LoaderSample
    <2>1. sample' \in 0 .. MaxMemory /\ expected' \in 0 .. MaxMemory
      BY <1>22, MemoryAssumption DEF LoaderSample, othersThanLoader
    <2> QED BY <1>22, <2>1 DEF LoaderSample, othersThanLoader
  <1>23. CASE LoaderExchange
    <2>1. lid \in Ids /\ lid + 1 \in 0 .. N
      BY <1>23, NAssumption DEF LoaderExchange, Ids, othersThanLoader, ExchangeFails
    <2>2. /\ maxMemory' \in [Ids -> 0 .. MaxMemory]
          /\ expected' \in 0 .. MaxMemory
          /\ lpc' \in {"cas", "check"} /\ lid' \in 0 .. N
          /\ lpc' = "cas" => lid' \in Ids
      <3>1. CASE expected < sample /\ maxMemory[lid] # expected
        BY <1>23, <2>1, <3>1 DEF LoaderExchange, othersThanLoader, ExchangeFails
      <3>2. CASE ~(expected < sample /\ maxMemory[lid] # expected)
        BY <1>23, <2>1, <3>2 DEF LoaderExchange, othersThanLoader, ExchangeFails
      <3> QED BY <3>1, <3>2
    <2>3. UNCHANGED <<taskVars, mainVars, setVars, resultVars, events, infoVars,
                      found, sample, childVars, usageVars, expired>>
      BY <1>23, Zenon DEF LoaderExchange, othersThanLoader, ExchangeFails
    <2> QED BY <2>2, <2>3, SMTT(30)
  <1>24. ASSUME NEW id \in Ids, ChildAttaches(id) PROVE TypeOK'
    BY <1>24 DEF ChildAttaches, othersThanChildren
  <1>25. ASSUME NEW id \in Ids, ChildSetUpFails(id) PROVE TypeOK'
    BY <1>25 DEF ChildSetUpFails, othersThanChildren, WaitStatus
  <1>26. ASSUME NEW id \in Ids, ChildExits(id) PROVE TypeOK'
    BY <1>26, ExitKindsAssumption DEF ChildExits, othersThanChildren
  <1>27. ASSUME NEW id \in Ids, ChildForks(id) \/ DescendantExits(id) \/ DescendantDies(id)
         PROVE TypeOK'
    <2>1. descendants' \in [Ids -> {"none", "alive", "killed"}]
      <3>1. \E d \in {"none", "alive"} : descendants' = [descendants EXCEPT ![id] = d]
        BY <1>27, Zenon DEF ChildForks, DescendantExits, DescendantDies
      <3> QED BY <3>1
    <2>2. UNCHANGED <<child, exit, sigkill, othersThanChildren>>
      BY <1>27, Zenon DEF ChildForks, DescendantExits, DescendantDies
    <2> QED BY <2>1, <2>2 DEF othersThanChildren
  <1>28. ASSUME NEW id \in Ids, ChildDies(id) PROVE TypeOK'
    BY <1>28 DEF ChildDies, othersThanChildren, WaitStatus
  <1>29. ASSUME NEW id \in Ids, UseCpu(id) PROVE TypeOK'
    BY <1>29 DEF UseCpu
  <1>30. ASSUME NEW id \in Ids, UseMemory(id) PROVE TypeOK'
    BY <1>30, MemoryAssumption DEF UseMemory
  <1>31. CASE DeadlinePasses
    BY <1>31 DEF DeadlinePasses
  <1>32. CASE ContainerDies
    BY <1>32 DEF ContainerDies, othersThanChildren
  <1>33. CASE UNCHANGED vars
    BY <1>33 DEF vars
  <1> QED
    BY <1>1, <1>2, <1>3, <1>4, <1>5, <1>6, <1>7, <1>8, <1>9, <1>10, <1>11, <1>12,
       <1>13, <1>14, <1>15, <1>16, <1>17, <1>18, <1>19, <1>20, <1>21, <1>22, <1>23,
       <1>24, <1>25, <1>26, <1>27, <1>28, <1>29, <1>30, <1>31, <1>32, <1>33
       DEF Next, MainThread, Loader, Children, Kernel, Ended

\* The initial states are typed.
LEMMA InitType == Init => TypeOK
  <1>1. 0 \in 0 .. N /\ 0 \in 0 .. MaxMemory
    BY NAssumption, MemoryAssumption
  <1>2. <<>> \in Seq(Event)
    OBVIOUS
  <1>3. Init => /\ status \in [Ids -> CompletionStatus]
                /\ maxMemory \in [Ids -> 0 .. MaxMemory]
                /\ peak \in [Ids -> 0 .. MaxMemory]
                /\ exit \in [Ids -> WaitStatus]
    BY <1>1 DEF Init, CompletionStatus, WaitStatus
  <1>4. Init => /\ groupStatus \in GroupStatus /\ pc \in MainPoint /\ caller \in Caller
                /\ cur \in 0 .. N /\ lid \in 0 .. N
                /\ sample \in 0 .. MaxMemory /\ expected \in 0 .. MaxMemory
                /\ events \in Seq(Event)
    BY <1>1, <1>2 DEF Init, GroupStatus, MainPoint, Caller
  <1>5. Init => /\ flag \in [Ids -> BOOLEAN] /\ sigkill \in [Ids -> BOOLEAN]
                /\ exceeded \in [Ids -> SUBSET Limits]
                /\ child \in [Ids -> {"none", "setup", "running", "zombie", "reaped"}]
                /\ cgroup \in [Ids -> {"none", "set", "unset"}]
                /\ descendants \in [Ids -> {"none", "alive", "killed"}]
    BY DEF Init
  <1>6. Init => /\ waits \subseteq Ids /\ crash \subseteq Ids /\ todo \subseteq Ids
                /\ running \subseteq Ids /\ terminated \subseteq Ids
                /\ groupWaits \subseteq Ids
                /\ pc = "start" /\ lpc = "off" /\ found \in BOOLEAN /\ expired \in BOOLEAN
    BY DEF Init
  <1> QED
    BY <1>3, <1>4, <1>5, <1>6 DEF TypeOK

\* Every variable stays in its type.
THEOREM TypeCorrect == Spec => []TypeOK
  <1>1. Init => TypeOK
    BY InitType
  <1>2. TypeOK /\ [Next]_vars => TypeOK'
    BY TypeStep
  <1> QED BY <1>1, <1>2, PTL DEF Spec

-----------------------------------------------------------------------------
(* The safety invariants, from the inductive invariant. *)

\* Every step that is not one of the main thread.
Background ==
  \/ Loader \/ Children \/ (\E id \in Ids : Kernel(id))
  \/ DeadlinePasses \/ ContainerDies \/ Ended \/ UNCHANGED vars

\* The main thread's own state belongs to the main thread.
LEMMA BackgroundStep ==
  ASSUME Background
  PROVE  UNCHANGED <<taskVars, mainVars, setVars, resultVars, events, infoVars>>
  <1>1. CASE Loader
    BY <1>1 DEF Loader, LoaderNext, LoaderSample, LoaderExchange, othersThanLoader,
                ExchangeFails
  <1>2. CASE Children
    BY <1>2 DEF Children, ChildAttaches, ChildSetUpFails, ChildExits, ChildForks,
       DescendantExits, UseCpu, UseMemory, othersThanChildren
  <1>3. CASE \E id \in Ids : Kernel(id)
    BY <1>3 DEF Kernel, ChildDies, DescendantDies, othersThanChildren
  <1>4. CASE DeadlinePasses \/ ContainerDies \/ Ended \/ UNCHANGED vars
    BY <1>4 DEF DeadlinePasses, ContainerDies, Ended, vars, othersThanChildren
  <1> QED BY <1>1, <1>2, <1>3, <1>4 DEF Background

\* A step is the main thread's or leaves the main thread alone.
LEMMA NextCases == [Next]_vars => MainThread \/ Background
  BY DEF Next, Background

\* SetsInv is preserved: a process the main thread reaps is one of running_.
LEMMA SetsStep ==
  ASSUME TypeOK, SetsInv, ChildInv, [Next]_vars
  PROVE  SetsInv'
  <1> USE DEF SetsInv, Killing, Reaping, Closing, taskVars, mainVars, setVars, resultVars,
              infoVars
  <1>1. CASE StartProcess
    <2>1. cur \in Ids /\ cur + 1 \in 0 .. N /\ cur \in Int
      BY <1>1, NAssumption DEF StartProcess, TypeOK, Ids, MoreToStart
    <2>2. running' = 0 .. (cur' - 1)
      BY <1>1, <2>1 DEF StartProcess, TypeOK, MoreToStart
    <2>3. groupWaits' = waits' \cap running'
      BY <1>1 DEF StartProcess, TypeOK, MoreToStart
    <2> QED BY <1>1, <2>2, <2>3 DEF StartProcess, MoreToStart
  <1>2. CASE StartFails
    BY <1>2 DEF StartFails
  <1>3. CASE StartLoop
    BY <1>3 DEF StartLoop, TypeOK, Ids
  <1>4. CASE TestGroup
    BY <1>4 DEF TestGroup, ProcessGroupIsRunning, Checked, othersThanMain
  <1>5. ASSUME NEW id \in Ids, CheckLimits(id) PROVE SetsInv'
    <2>1. CASE Overrun(id) # {}
      BY <1>5, <2>1 DEF CheckLimits, CallTerminate
    <2>2. CASE Overrun(id) = {}
      BY <1>5, <2>2 DEF CheckLimits, CallTerminate
    <2> QED BY <2>1, <2>2
  <1>6. CASE CheckLimitsDone
    BY <1>6 DEF CheckLimitsDone, GoTo, othersThanMain
  <1>7. CASE WaitTimesOut
    BY <1>7 DEF WaitTimesOut, GoTo, othersThanMain
  <1>8. ASSUME NEW id \in Ids, Reap(id) PROVE SetsInv'
    <2>1. id \in running
      BY <1>8 DEF Reap, ChildInv, AfterWait
    <2> QED BY <1>8, <2>1 DEF Reap, AfterWait
  <1>9. CASE MonitorTerminated
    <2>1. cur \in running /\ cur \in Ids /\ todo = {}
      BY <1>9 DEF MonitorTerminated, TypeOK, WaitedForAfter
    <2>2. /\ running' = running \ {cur} /\ terminated' = terminated \cup {cur}
          /\ groupWaits' = groupWaits \ {cur} /\ pc' \in {"deadline", "collect"}
          /\ UNCHANGED <<waits, cur, todo, caller>>
      BY <1>9 DEF MonitorTerminated, WaitedForAfter
    <2> QED BY <1>9, <2>1, <2>2 DEF MonitorTerminated, WaitedForAfter
  <1>10. CASE CheckDeadline
    BY <1>10 DEF CheckDeadline
  <1>11. ASSUME NEW id \in Ids, TerminateNext(id) PROVE SetsInv'
    BY <1>11 DEF TerminateNext, CallTerminate, othersThanMain
  <1>12. CASE TerminateDone
    BY <1>12 DEF TerminateDone, GoTo, othersThanMain
  <1>13. CASE AllTerminated
    BY <1>13 DEF AllTerminated
  <1>14. CASE JoinWorkers
    BY <1>14 DEF JoinWorkers, Joined, othersThanMain
  <1>15. CASE CloseNonEmpty
    BY <1>15 DEF CloseNonEmpty, CallTerminate, othersThanMain
  <1>16. CASE UnsetControlGroup
    BY <1>16 DEF UnsetControlGroup
  <1>17. CASE ReturnResult
    BY <1>17 DEF ReturnResult, GoTo, othersThanMain
  <1>18. CASE KillPid
    BY <1>18 DEF KillPid, KillReaches
  <1>19. CASE KillControlGroup
    BY <1>19 DEF KillControlGroup, DescendantsKilled
  <1>20. CASE MarkTerminated
    BY <1>20 DEF MarkTerminated, TypeOK, Caller
  <1>21. CASE Background
    BY <1>21, BackgroundStep
  <1> QED
    BY NextCases, <1>1, <1>2, <1>3, <1>4, <1>5, <1>6, <1>7, <1>8, <1>9, <1>10, <1>11,
       <1>12, <1>13, <1>14, <1>15, <1>16, <1>17, <1>18, <1>19, <1>20, <1>21 DEF MainThread

\* ChildInv is preserved: a process is reaped by the step that sends the main
\* thread to its termination, and only then.
LEMMA ChildStep ==
  ASSUME TypeOK, SetsInv, ChildInv, [Next]_vars
  PROVE  ChildInv'
  <1> USE DEF ChildInv, Killing, Reaping, taskVars, mainVars, setVars, resultVars,
              infoVars, childVars
  <1>1. CASE StartProcess
    <2>1. cur \in Ids
      BY <1>1, NAssumption DEF StartProcess, TypeOK, Ids, MoreToStart
    <2>2. /\ child' = [child EXCEPT ![cur] = "setup"] /\ running' = running \cup {cur}
          /\ UNCHANGED <<terminated, pc, caller>> /\ pc = "start"
      BY <1>1 DEF StartProcess, MoreToStart
    <2>3. terminated = {}
      BY <2>2 DEF SetsInv
    <2> QED BY <2>1, <2>2, <2>3 DEF TypeOK
  <1>2. CASE StartFails \/ StartLoop \/ TestGroup \/ CheckLimitsDone \/ WaitTimesOut
             \/ CheckDeadline \/ TerminateDone \/ AllTerminated \/ JoinWorkers
             \/ CloseNonEmpty \/ UnsetControlGroup \/ ReturnResult
    <2>1. UNCHANGED <<child, running, terminated>> /\ ~Reaping /\ ~Reaping'
      BY <1>2 DEF StartFails, StartLoop, TestGroup, CheckLimitsDone, WaitTimesOut,
                  CheckDeadline, TerminateDone, AllTerminated, JoinWorkers,
                  CloseNonEmpty, UnsetControlGroup, ReturnResult, Checked,
                  othersThanMain, GoTo, Joined, CallTerminate
    <2> QED BY <2>1
  <1>3. ASSUME NEW id \in Ids, CheckLimits(id) \/ TerminateNext(id) PROVE ChildInv'
    BY <1>3 DEF CheckLimits, TerminateNext, CallTerminate, othersThanMain
  <1>4. ASSUME NEW id \in Ids, Reap(id) PROVE ChildInv'
    <2>1. /\ child' = [child EXCEPT ![id] = "reaped"] /\ cur' = id /\ Reaping' /\ ~Reaping
          /\ child[id] = "zombie" /\ UNCHANGED <<running, terminated>>
      BY <1>4 DEF Reap, AfterWait
    <2> QED BY <2>1 DEF TypeOK
  <1>5. CASE MonitorTerminated
    <2>1. cur \in running /\ cur \in Ids /\ Reaping /\ ~Reaping'
      BY <1>5 DEF MonitorTerminated, TypeOK, SetsInv, WaitedForAfter
    <2>2. /\ running' = running \ {cur} /\ terminated' = terminated \cup {cur}
          /\ UNCHANGED <<cur, child>>
      BY <1>5 DEF MonitorTerminated, WaitedForAfter
    <2> QED BY <2>1, <2>2
  <1>6. CASE KillPid \/ KillControlGroup
    BY <1>6 DEF KillPid, KillControlGroup, KillReaches, DescendantsKilled
  <1>7. CASE MarkTerminated
    BY <1>7 DEF MarkTerminated, TypeOK, Caller, SetsInv
  <1>8. CASE Background
    <2>1. UNCHANGED <<pc, cur, caller, running, terminated>>
      BY <1>8, BackgroundStep
    <2> DEFINE ChildMoves(i, c) == /\ child[i] \in {"setup", "running"}
                                   /\ child' = [child EXCEPT ![i] = c]
    <2>2. ASSUME NEW i \in Ids, NEW c \in {"running", "zombie"}, ChildMoves(i, c)
          PROVE  \A id \in Ids : /\ child'[id] = "none" <=> child[id] = "none"
                                 /\ child'[id] = "reaped" <=> child[id] = "reaped"
      BY <2>2 DEF TypeOK
    <2>3. \A id \in Ids : /\ child'[id] = "none" <=> child[id] = "none"
                          /\ child'[id] = "reaped" <=> child[id] = "reaped"
      <3>1. CASE Loader
        BY <3>1 DEF Loader, LoaderNext, LoaderSample, LoaderExchange, othersThanLoader,
                    ExchangeFails
      <3>2. CASE Children
        <4>1. ASSUME NEW i \in Ids, ChildAttaches(i) \/ ChildSetUpFails(i) \/ ChildExits(i)
              PROVE  \E c \in {"running", "zombie"} : ChildMoves(i, c)
          BY <4>1 DEF ChildAttaches, ChildSetUpFails, ChildExits
        <4>2. ASSUME NEW i \in Ids, ChildForks(i) \/ DescendantExits(i) \/ UseCpu(i)
                                  \/ UseMemory(i)
              PROVE  child' = child
          BY <4>2 DEF ChildForks, DescendantExits, UseCpu, UseMemory
        <4> HIDE DEF ChildMoves
        <4> QED BY <3>2, <4>1, <4>2, <2>2 DEF Children
      <3>3. CASE \E id \in Ids : Kernel(id)
        <4>1. ASSUME NEW i \in Ids, ChildDies(i)
              PROVE  ChildMoves(i, "zombie")
          BY <4>1 DEF ChildDies
        <4>2. ASSUME NEW i \in Ids, DescendantDies(i)
              PROVE  child' = child
          BY <4>2 DEF DescendantDies
        <4> HIDE DEF ChildMoves
        <4> QED BY <3>3, <4>1, <4>2, <2>2 DEF Kernel
      <3>4. CASE DeadlinePasses \/ ContainerDies \/ Ended \/ UNCHANGED vars
        BY <3>4 DEF DeadlinePasses, ContainerDies, Ended, vars
      <3> QED BY <1>8, <3>1, <3>2, <3>3, <3>4 DEF Background
    <2> QED BY <2>1, <2>3
  <1> QED
    BY NextCases, <1>1, <1>2, <1>3, <1>4, <1>5, <1>6, <1>7, <1>8 DEF MainThread

\* Collecting never invents TERMINATED_BY_SYSTEM, and an overrun removes it.
LEMMA FinalStatusBySystem ==
  ASSUME NEW s \in CompletionStatus, NEW e \in WaitStatus, NEW o \in SUBSET LimitKind,
         s = "TERMINATED_BY_SYSTEM" => o # {}
  PROVE  /\ CollectResourceInfo(s, o) # "TERMINATED_BY_SYSTEM"
         /\ FinalStatus(s, e, o) # "TERMINATED_BY_SYSTEM"
  <1>1. CollectResourceInfo("TERMINATED_BY_SYSTEM", o) = "TERMINATED_BY_SYSTEM" => o = {}
    BY DEF CollectResourceInfo, LimitKind
  <1>2. ASSUME NEW t \in CompletionStatus, t # "TERMINATED_BY_SYSTEM"
        PROVE  CollectResourceInfo(t, o) # "TERMINATED_BY_SYSTEM"
    BY <1>2 DEF CollectResourceInfo
  <1>3. AssignStatus(s, e) \in CompletionStatus
        /\ (AssignStatus(s, e) = "TERMINATED_BY_SYSTEM" => s = "TERMINATED_BY_SYSTEM")
    BY DEF AssignStatus, CompletionStatus
  <1>4. CollectResourceInfo(s, o) # "TERMINATED_BY_SYSTEM"
    BY <1>1, <1>2
  <1>5. CollectResourceInfo(AssignStatus(s, e), o) # "TERMINATED_BY_SYSTEM"
    BY <1>1, <1>2, <1>3
  <1> QED BY <1>3, <1>4, <1>5 DEF FinalStatus

\* The counters and the recorded memory only grow, whichever thread stores them.
LEMMA ReadingsGrow ==
  ASSUME TypeOK, [Next]_vars, NEW id \in Ids
  PROVE  exceeded[id] \subseteq exceeded'[id] /\ maxMemory'[id] >= maxMemory[id]
  <1> USE DEF TypeOK, taskVars, mainVars, setVars, resultVars, infoVars, loaderVars,
              childVars, usageVars
  <1>1. CASE MarkTerminated
    BY <1>1, MemoryAssumption DEF MarkTerminated
  <1>2. CASE MainThread /\ ~MarkTerminated
    <2>1. UNCHANGED <<exceeded, maxMemory>>
      BY <1>2 DEF MainThread, StartProcess, StartFails, StartLoop, TestGroup,
                  CheckLimits, CheckLimitsDone, WaitTimesOut, Reap,
                  MonitorTerminated, CheckDeadline, TerminateNext, TerminateDone,
                  AllTerminated, JoinWorkers, CloseNonEmpty, UnsetControlGroup,
                  ReturnResult, KillPid, KillControlGroup, MoreToStart, Checked,
                  othersThanMain, CallTerminate, GoTo, AfterWait, WaitedForAfter,
                  Joined, KillReaches, DescendantsKilled
    <2> QED BY <2>1, MemoryAssumption
  <1>3. CASE LoaderNext \/ LoaderSample
    BY <1>3, MemoryAssumption DEF LoaderNext, LoaderSample, othersThanLoader
  <1>4. CASE LoaderExchange
    <2>1. exceeded' = exceeded
      BY <1>4 DEF LoaderExchange, othersThanLoader, ExchangeFails
    <2>2. CASE maxMemory' = maxMemory
      BY <2>1, <2>2, MemoryAssumption
    <2>3. CASE maxMemory' = [maxMemory EXCEPT ![lid] = sample]
               /\ expected < sample /\ maxMemory[lid] = expected
      BY <2>1, <2>3, MemoryAssumption
    <2> QED BY <1>4, <2>2, <2>3 DEF LoaderExchange, othersThanLoader, ExchangeFails
  <1>5. ASSUME NEW i \in Ids, UseCpu(i) PROVE exceeded[id] \subseteq exceeded'[id]
                                           /\ maxMemory'[id] >= maxMemory[id]
    BY <1>5, MemoryAssumption DEF UseCpu
  <1>6. CASE Children /\ ~(\E i \in Ids : UseCpu(i))
    <2>1. UNCHANGED <<exceeded, maxMemory>>
      BY <1>6 DEF Children, ChildAttaches, ChildSetUpFails, ChildExits, ChildForks,
         DescendantExits, UseMemory, othersThanChildren
    <2> QED BY <2>1, MemoryAssumption
  <1>7. CASE (\E i \in Ids : Kernel(i)) \/ DeadlinePasses \/ ContainerDies \/ Ended
             \/ UNCHANGED vars
    BY <1>7, MemoryAssumption DEF Kernel, ChildDies, DescendantDies, DeadlinePasses, ContainerDies, Ended, vars,
       othersThanChildren
  <1> QED BY NextCases, <1>1, <1>2, <1>3, <1>4, <1>5, <1>6, <1>7
          DEF Background, Loader, Children

\* A process over a limit stays over it.
LEMMA OverrunGrows ==
  ASSUME TypeOK, [Next]_vars, NEW id \in Ids
  PROVE  /\ Overrun(id) \subseteq Overrun(id)'
         /\ Overrun(id) # {} => Overrun(id)' # {}
  <1>1. exceeded[id] \subseteq exceeded'[id] /\ maxMemory'[id] >= maxMemory[id]
    BY ReadingsGrow
  <1>2. maxMemory[id] \in Int /\ maxMemory'[id] \in Int /\ MemoryLimit \in Int
    BY TypeStep, MemoryAssumption DEF TypeOK
  <1> QED BY <1>1, <1>2 DEF Overrun

\* The wait status of a reaped process does not change.
LEMMA ExitIsFinal ==
  ASSUME TypeOK, [Next]_vars, NEW id \in Ids, child[id] = "reaped"
  PROVE  exit'[id] = exit[id]
  <1> USE DEF TypeOK, taskVars, mainVars, setVars, resultVars, infoVars, loaderVars,
              childVars, usageVars
  <1>1. CASE MainThread
    BY <1>1 DEF MainThread, StartProcess, StartFails, StartLoop, TestGroup,
                CheckLimits, CheckLimitsDone, WaitTimesOut, Reap, MonitorTerminated,
                CheckDeadline, TerminateNext, TerminateDone, AllTerminated,
                JoinWorkers, CloseNonEmpty, UnsetControlGroup, ReturnResult, KillPid,
                KillControlGroup, MarkTerminated, MoreToStart, Checked, othersThanMain,
                CallTerminate, GoTo, AfterWait, WaitedForAfter, Joined, KillReaches,
                DescendantsKilled
  <1>2. CASE Loader
    BY <1>2 DEF Loader, LoaderNext, LoaderSample, LoaderExchange, othersThanLoader,
                ExchangeFails
  <1>3. CASE Children
    BY <1>3 DEF Children, ChildAttaches, ChildSetUpFails, ChildExits, ChildForks,
       DescendantExits, UseCpu, UseMemory, othersThanChildren
  <1>4. CASE (\E i \in Ids : Kernel(i)) \/ DeadlinePasses \/ ContainerDies \/ Ended
             \/ UNCHANGED vars
    BY <1>4 DEF Kernel, ChildDies, DescendantDies, DeadlinePasses, ContainerDies, Ended,
       vars, othersThanChildren
  <1> QED BY NextCases, <1>1, <1>2, <1>3, <1>4 DEF Background

\* The steps of the main thread that leave results and readings alone.
QuietMain ==
  \/ TestGroup \/ CheckLimitsDone \/ WaitTimesOut \/ (\E id \in Ids : Reap(id))
  \/ (\E id \in Ids : TerminateNext(id)) \/ TerminateDone
  \/ AllTerminated \/ JoinWorkers \/ CloseNonEmpty \/ UnsetControlGroup \/ ReturnResult
  \/ KillPid \/ KillControlGroup

\* The part of VerdictInv that holds at every control point.
LEMMA CulpritStep ==
  ASSUME TypeOK, SetsInv, ChildInv, VerdictInv, [Next]_vars
  PROVE  /\ groupStatus' = "OK" =>
              \A id \in crash' \cap terminated' : Succeeded(exit'[id], status'[id])
         /\ AbnormalHasCulprit'
  <1> USE DEF AbnormalHasCulprit
  <1>1. crash' = crash
    <2>1. CASE MainThread
      BY <2>1 DEF MainThread, StartProcess, StartFails, StartLoop, TestGroup,
                  CheckLimits, CheckLimitsDone, WaitTimesOut, Reap, MonitorTerminated,
                  CheckDeadline, TerminateNext, TerminateDone, AllTerminated,
                  JoinWorkers, CloseNonEmpty, UnsetControlGroup, ReturnResult, KillPid,
                  KillControlGroup, MarkTerminated, taskVars, MoreToStart, Checked,
                  othersThanMain, CallTerminate, GoTo, AfterWait, WaitedForAfter,
                  Joined, KillReaches, DescendantsKilled
    <2> QED BY <2>1, NextCases, BackgroundStep DEF taskVars
  <1>2. \A id \in terminated : id \in Ids /\ exit'[id] = exit[id]
    BY ExitIsFinal DEF ChildInv, TypeOK
  <1>3. ASSUME UNCHANGED <<groupStatus, terminated>>,
               \A id \in terminated : status'[id] = status[id]
        PROVE  /\ groupStatus' = "OK" =>
                    \A id \in crash' \cap terminated' : Succeeded(exit'[id], status'[id])
               /\ AbnormalHasCulprit'
    BY <1>1, <1>2, <1>3 DEF VerdictInv
  <1>4. CASE StartProcess \/ StartFails \/ StartLoop \/ QuietMain
    <2>1. UNCHANGED <<groupStatus, terminated, status>>
      BY <1>4 DEF QuietMain, StartProcess, StartFails, StartLoop, TestGroup,
                  CheckLimitsDone, WaitTimesOut, Reap, TerminateNext, TerminateDone,
                  AllTerminated, JoinWorkers, CloseNonEmpty, UnsetControlGroup,
                  ReturnResult, KillPid, KillControlGroup, resultVars, setVars,
                  MoreToStart, Checked, othersThanMain, GoTo, AfterWait, CallTerminate,
                  Joined, KillReaches, DescendantsKilled
    <2> QED BY <2>1, <1>3
  <1>5. ASSUME NEW id \in Ids, CheckLimits(id)
        PROVE  UNCHANGED <<groupStatus, terminated>>
               /\ \A i \in terminated : status'[i] = status[i]
    <2>1. id \notin terminated
      BY <1>5 DEF CheckLimits, SetsInv, CallTerminate
    <2> QED BY <1>5, <2>1 DEF CheckLimits, setVars, TypeOK, CallTerminate
  <1>6. CASE MarkTerminated
    <2>1. caller \in {"scan", "killAll"} => cur \notin terminated
      BY <1>6 DEF MarkTerminated, SetsInv, Killing
    <2>2. \A i \in terminated : status'[i] = status[i]
      BY <1>6, <2>1 DEF MarkTerminated, TypeOK
    <2> QED BY <1>6, <2>2, <1>3 DEF MarkTerminated, setVars
  <1>7. CASE CheckDeadline
    <2>1. UNCHANGED <<status, terminated>> /\ groupStatus' \in {"REAL_TIME_LIMIT_EXCEEDED", groupStatus}
      BY <1>7 DEF CheckDeadline, setVars
    <2>2. CASE groupStatus' = groupStatus
      BY <2>1, <2>2, <1>3
    <2>3. CASE groupStatus' = "REAL_TIME_LIMIT_EXCEEDED"
      BY <2>3
    <2> QED BY <2>1, <2>2, <2>3
  <1>8. CASE MonitorTerminated
    <2> DEFINE final == FinalStatus(status[cur], exit[cur], Overrun(cur))
    <2>1. /\ cur \in Ids /\ cur \notin terminated
          /\ terminated' = terminated \cup {cur} /\ UNCHANGED exit
          /\ status' = [status EXCEPT ![cur] = final]
          /\ groupStatus' = IF groupStatus = "OK" /\ cur \in crash
                                  /\ ~Succeeded(exit[cur], final)
                               THEN "ABNORMAL_EXIT" ELSE groupStatus
      BY <1>8 DEF MonitorTerminated, GroupCheck, SetsInv, Reaping, Killing, TypeOK,
                  childVars, WaitedForAfter
    <2> HIDE DEF final
    <2>2. status'[cur] = final /\ \A i \in terminated : status'[i] = status[i]
      BY <2>1 DEF TypeOK
    <2>3. CASE groupStatus = "OK" /\ cur \in crash /\ ~Succeeded(exit[cur], final)
      BY <2>1, <2>2, <2>3, <1>1
    <2>4. CASE ~(groupStatus = "OK" /\ cur \in crash /\ ~Succeeded(exit[cur], final))
      BY <2>1, <2>2, <2>4, <1>1 DEF VerdictInv
    <2> QED BY <2>3, <2>4
  <1>9. CASE Background
    BY <1>9, BackgroundStep, <1>3 DEF resultVars, setVars
  <1> QED
    BY NextCases, <1>3, <1>4, <1>5, <1>6, <1>7, <1>8, <1>9 DEF MainThread, QuietMain

\* The part of VerdictInv about TERMINATED_BY_SYSTEM.
BySystem ==
  /\ pc = "start" => groupStatus = "OK" /\ \A id \in Ids : status[id] = "OK"
  /\ LimitKillIsReported
  /\ InLoop => \A id \in running : status[id] = "TERMINATED_BY_SYSTEM" => Overrun(id) # {}
  /\ Killing("scan") => Overrun(cur) # {}
  /\ (pc \notin {"start", "failed"} /\ ~InLoop /\ groupStatus = "OK") =>
       groupWaits = {} /\ \A id \in waits : status[id] # "TERMINATED_BY_SYSTEM"

\* The part of VerdictInv about TERMINATED_BY_SYSTEM is preserved.
LEMMA BySystemStep ==
  ASSUME TypeOK, SetsInv, BySystem, [Next]_vars
  PROVE  BySystem'
  <1> USE DEF LimitKillIsReported, InLoop, Killing, taskVars, mainVars, setVars, resultVars
  <1>0. \A id \in Ids : Overrun(id) # {} => Overrun(id)' # {}
    BY OverrunGrows
  <1>1. CASE StartProcess \/ StartFails
    BY <1>1 DEF StartProcess, StartFails, BySystem, MoreToStart
  <1>2. CASE StartLoop
    BY <1>2 DEF StartLoop, BySystem, SetsInv, TypeOK
  <1>3. CASE TestGroup
    <2>1. UNCHANGED <<status, groupStatus, terminated, running, groupWaits, waits, caller, cur>>
      BY <1>3 DEF TestGroup, Checked, othersThanMain
    <2>2. CASE ProcessGroupIsRunning
      BY <1>0, <1>3, <2>1, <2>2 DEF TestGroup, BySystem, TypeOK, Checked,
                                    othersThanMain
    <2>3. CASE ~ProcessGroupIsRunning
      <3>1. groupStatus = "OK" => groupWaits = {} /\ waits \subseteq terminated
        BY <1>3, <2>3 DEF TestGroup, ProcessGroupIsRunning, SetsInv, TypeOK, Checked,
                          othersThanMain
      <3>2. \A id \in terminated : status[id] # "TERMINATED_BY_SYSTEM"
        BY <1>3 DEF TestGroup, BySystem, Checked, othersThanMain
      <3> QED BY <1>3, <2>1, <2>3, <3>1, <3>2 DEF TestGroup, BySystem, Checked,
                                                  othersThanMain
    <2> QED BY <2>2, <2>3
  <1>4. ASSUME NEW id \in Ids, CheckLimits(id) PROVE BySystem'
    <2>1. /\ id \in running /\ id \notin terminated
          /\ UNCHANGED <<groupStatus, terminated, running, groupWaits, waits>>
          /\ status' = [status EXCEPT ![id] = CollectResourceInfo(@, Overrun(id))]
          /\ pc = "scan" /\ (pc' = "scan" \/ (pc' = "kill" /\ caller' = "scan"))
          /\ pc' = "kill" => cur' = id /\ Overrun(id) # {}
      BY <1>4 DEF CheckLimits, SetsInv, CallTerminate
    <2>2. CollectResourceInfo(status[id], Overrun(id)) # "TERMINATED_BY_SYSTEM"
      <3>1. status[id] = "TERMINATED_BY_SYSTEM" => Overrun(id) # {}
        BY <2>1 DEF BySystem
      <3> QED BY <3>1, OverrunType, FinalStatusBySystem DEF TypeOK, WaitStatus
    <2>3. \A i \in Ids : status'[i] = "TERMINATED_BY_SYSTEM" =>
                             i # id /\ status[i] = "TERMINATED_BY_SYSTEM"
      BY <2>1, <2>2 DEF TypeOK
    <2> QED BY <1>0, <2>1, <2>3 DEF BySystem, TypeOK
  <1>5. ASSUME NEW id \in Ids, Reap(id) PROVE BySystem'
    BY <1>0, <1>5 DEF Reap, BySystem, TypeOK, AfterWait
  <1>6. CASE MonitorTerminated
    <2> DEFINE final == FinalStatus(status[cur], exit[cur], Overrun(cur))
    <2>1. /\ cur \in Ids /\ cur \in running /\ caller \in {"waitFor", "collect"}
          /\ status' = [status EXCEPT ![cur] = final] /\ terminated' = terminated \cup {cur}
          /\ running' = running \ {cur} /\ groupWaits' = groupWaits \ {cur}
          /\ groupStatus' = "OK" => groupStatus = "OK"
          /\ UNCHANGED <<waits, cur, caller>> /\ pc = "reaped"
          /\ pc' = IF caller = "waitFor" THEN "deadline" ELSE "collect"
      BY <1>6 DEF MonitorTerminated, GroupCheck, SetsInv, Reaping, TypeOK,
                  WaitedForAfter
    <2>2. InLoop => final # "TERMINATED_BY_SYSTEM"
      <3>1. InLoop /\ status[cur] = "TERMINATED_BY_SYSTEM" => Overrun(cur) # {}
        BY <2>1 DEF BySystem
      <3> QED BY <2>1, <3>1, OverrunType, FinalStatusBySystem DEF TypeOK
    <2> HIDE DEF final
    <2>3. CASE caller = "waitFor"
      BY <1>0, <2>1, <2>2, <2>3 DEF BySystem, TypeOK
    <2>4. CASE caller = "collect"
      <3>1. groupStatus = "OK" => groupWaits = {} /\ cur \notin waits
        BY <2>1, <2>4 DEF BySystem, SetsInv
      <3>2. \A id \in Ids \ {cur} : status'[id] = status[id]
        BY <2>1 DEF TypeOK
      <3> QED BY <2>1, <2>4, <3>1, <3>2 DEF BySystem, TypeOK
    <2> QED BY <2>1, <2>3, <2>4
  <1>7. CASE MarkTerminated
    <2>1. /\ UNCHANGED <<groupStatus, terminated, running, groupWaits, waits, cur, caller>>
          /\ cur \in Ids /\ pc = "mark"
      BY <1>7 DEF MarkTerminated, TypeOK
    <2>2. CASE caller = "scan"
      <3>1. /\ cur \notin terminated /\ pc' = "scan" /\ Overrun(cur)' # {}
            /\ status' = [status EXCEPT ![cur] = "TERMINATED_BY_SYSTEM"]
        BY <1>0, <1>7, <2>1, <2>2 DEF MarkTerminated, BySystem, SetsInv
      <3>2. \A id \in Ids \ {cur} : status'[id] = status[id]
        BY <3>1 DEF TypeOK
      <3> QED BY <1>0, <2>1, <2>2, <3>1, <3>2 DEF BySystem, TypeOK
    <2>3. CASE caller = "killAll"
      <3>1. /\ cur \in running /\ pc' = "killAll"
            /\ status' = [status EXCEPT ![cur] = "TERMINATED_BY_SYSTEM"]
        BY <1>7, <2>3 DEF MarkTerminated, SetsInv
      <3>2. groupStatus = "OK" => cur \notin waits
        BY <2>1, <2>3, <3>1 DEF BySystem, SetsInv
      <3>3. \A id \in Ids \ {cur} : status'[id] = status[id]
        BY <3>1 DEF TypeOK
      <3> QED BY <2>1, <2>3, <3>1, <3>2, <3>3 DEF BySystem, TypeOK
    <2>4. CASE caller \notin {"scan", "killAll"}
      <3>1. UNCHANGED status /\ pc' \in {"unset", "reaped"} /\ (caller = "cleanup" <=> pc' = "unset")
        BY <1>7, <2>4 DEF MarkTerminated
      <3>2. caller \in {"waitFor", "collect", "cleanup"}
        BY <2>1, <2>4 DEF SetsInv, TypeOK, Caller
      <3> QED BY <1>0, <2>1, <3>1, <3>2 DEF BySystem, TypeOK
    <2> QED BY <2>2, <2>3, <2>4
  <1>8. CASE CheckDeadline
    BY <1>0, <1>8 DEF CheckDeadline, BySystem, TypeOK
  <1>9. CASE QuietMain /\ ~TestGroup /\ ~(\E id \in Ids : Reap(id))
    <2>1. UNCHANGED <<groupStatus, status, terminated, running, groupWaits, waits>>
      BY <1>9 DEF QuietMain, CheckLimitsDone, WaitTimesOut, TerminateNext,
                  TerminateDone, AllTerminated, JoinWorkers, CloseNonEmpty,
                  UnsetControlGroup, ReturnResult, KillPid, KillControlGroup, GoTo,
                  othersThanMain, CallTerminate, Joined, KillReaches, DescendantsKilled
    <2>2. /\ pc # "start" /\ pc' \notin {"start", "failed"} /\ pc # "failed"
          /\ InLoop' <=> InLoop
          /\ Killing("scan")' => Killing("scan") /\ cur' = cur
      BY <1>9 DEF QuietMain, CheckLimitsDone, WaitTimesOut, TerminateNext,
                  TerminateDone, AllTerminated, JoinWorkers, CloseNonEmpty,
                  UnsetControlGroup, ReturnResult, KillPid, KillControlGroup, GoTo,
                  othersThanMain, CallTerminate, Joined, KillReaches, DescendantsKilled
    <2>3. Killing("scan") => cur \in Ids
      BY DEF TypeOK
    <2> HIDE DEF InLoop, Killing
    <2> QED BY <1>0, <2>1, <2>2, <2>3 DEF BySystem, TypeOK
  <1>10. CASE Background
    <2>1. UNCHANGED <<taskVars, mainVars, setVars, resultVars>>
      BY <1>10, BackgroundStep
    <2>2. Killing("scan") => cur \in Ids
      BY DEF TypeOK
    <2> QED BY <1>0, <2>1, <2>2 DEF BySystem, TypeOK
  <1> QED
    BY NextCases, <1>1, <1>2, <1>3, <1>4, <1>5, <1>6, <1>7, <1>8, <1>9, <1>10
       DEF MainThread, QuietMain

\* Nothing revives: a flag once set stays set, and a reaped process whose
\* descendants are dead or being killed starts no new ones.
LEMMA GoneStaysGone ==
  ASSUME TypeOK, [Next]_vars, NEW id \in Ids
  PROVE  /\ flag[id] => flag'[id]
         /\ (child[id] = "reaped" /\ descendants[id] # "alive") => descendants'[id] # "alive"
  <1> USE DEF TypeOK, taskVars, mainVars, setVars, resultVars, infoVars, loaderVars,
              childVars, usageVars
  <1>1. CASE MainThread
    <2>1. CASE MarkTerminated
      BY <2>1 DEF MarkTerminated
    <2>2. CASE KillControlGroup
      BY <2>2 DEF KillControlGroup, DescendantsKilled
    <2>3. CASE StartFails
      BY <2>3 DEF StartFails
    <2>4. CASE ~MarkTerminated /\ ~KillControlGroup /\ ~StartFails
      <3>1. UNCHANGED <<flag, descendants>>
        BY <1>1, <2>4 DEF MainThread, StartProcess, StartLoop, TestGroup, CheckLimits,
                          CheckLimitsDone, WaitTimesOut, Reap, MonitorTerminated,
                          CheckDeadline, TerminateNext, TerminateDone, AllTerminated,
                          JoinWorkers, CloseNonEmpty, UnsetControlGroup, ReturnResult,
                          KillPid, MoreToStart, Checked, othersThanMain, CallTerminate,
                          GoTo, AfterWait, WaitedForAfter, Joined, KillReaches
      <3> QED BY <3>1
    <2> QED BY <2>1, <2>2, <2>3, <2>4
  <1>2. CASE Background
    <2>1. UNCHANGED flag
      BY <1>2, BackgroundStep
    <2>2. (child[id] = "reaped" /\ descendants[id] # "alive") => descendants'[id] # "alive"
      <3>1. CASE Loader \/ DeadlinePasses \/ Ended \/ UNCHANGED vars
        BY <3>1 DEF Loader, LoaderNext, LoaderSample, LoaderExchange, DeadlinePasses,
                    Ended, vars, othersThanLoader, ExchangeFails
      <3>2. CASE ContainerDies
        BY <3>2 DEF ContainerDies
      <3>3. ASSUME NEW i \in Ids, ChildForks(i)
            PROVE  (child[id] = "reaped" /\ descendants[id] # "alive") => descendants'[id] # "alive"
        BY <3>3 DEF ChildForks
      <3>4. ASSUME NEW i \in Ids, DescendantExits(i) \/ DescendantDies(i)
            PROVE  descendants' = [descendants EXCEPT ![i] = "none"]
        BY <3>4 DEF DescendantExits, DescendantDies
      <3>5. ASSUME NEW i \in Ids, ChildAttaches(i) \/ ChildSetUpFails(i) \/ ChildExits(i)
                                \/ UseCpu(i) \/ UseMemory(i) \/ ChildDies(i)
            PROVE  UNCHANGED descendants
        BY <3>5 DEF ChildAttaches, ChildSetUpFails, ChildExits, UseCpu, UseMemory, ChildDies
      <3> QED BY <1>2, <3>1, <3>2, <3>3, <3>4, <3>5 DEF Background, Children, Kernel
    <2> QED BY <2>1, <2>2
  <1> QED BY NextCases, <1>1, <1>2

\* SilenceInv is preserved.
LEMMA SilenceStep ==
  ASSUME TypeOK, SetsInv, ChildInv, SilenceInv, [Next]_vars, ChildInv'
  PROVE  SilenceInv'
  <1> USE DEF SilenceInv, ReapedIsSilenced, Reaping, Killing, mainVars, setVars, infoVars
  <1>0. \A id \in Ids :
          /\ flag[id] => flag'[id]
          /\ (child[id] = "reaped" /\ descendants[id] # "alive") => descendants'[id] # "alive"
    BY GoneStaysGone
  <1>1. ASSUME terminated' = terminated, ~(Reaping' /\ pc' \in {"mark", "reaped"})
        PROVE  SilenceInv'
    BY <1>0, <1>1 DEF TypeOK, ChildInv
  <1>2. CASE MonitorTerminated
    <2>1. /\ cur \in Ids /\ terminated' = terminated \cup {cur} /\ pc' \in {"deadline", "collect"}
          /\ child[cur] = "reaped" /\ flag[cur] /\ descendants[cur] # "alive"
      BY <1>2 DEF MonitorTerminated, TypeOK, ChildInv, SetsInv, WaitedForAfter
    <2> QED BY <1>0, <2>1 DEF TypeOK, ChildInv
  <1>3. CASE KillControlGroup
    <2>1. /\ cur \in Ids /\ descendants'[cur] # "alive" /\ pc' = "mark"
          /\ UNCHANGED <<terminated, cur, caller>>
      BY <1>3 DEF KillControlGroup, TypeOK, DescendantsKilled
    <2> QED BY <1>0, <2>1 DEF TypeOK, ChildInv
  <1>4. CASE MarkTerminated
    <2>1. /\ cur \in Ids /\ flag'[cur] /\ UNCHANGED <<terminated, cur, caller, descendants>>
          /\ pc = "mark" /\ pc' \in {"scan", "killAll", "unset", "reaped"}
          /\ pc' = "reaped" => caller \notin {"scan", "killAll", "cleanup"}
      BY <1>4 DEF MarkTerminated, TypeOK, childVars
    <2>2. pc' = "reaped" => Reaping
      BY <2>1 DEF SetsInv, TypeOK, Caller
    <2> QED BY <1>0, <2>1, <2>2 DEF TypeOK, ChildInv
  <1>5. CASE MainThread /\ ~MonitorTerminated /\ ~KillControlGroup /\ ~MarkTerminated
    <2>1. terminated' = terminated /\ pc' \notin {"mark", "reaped"}
      BY <1>5 DEF MainThread, StartProcess, StartFails, StartLoop, TestGroup,
                  CheckLimits, CheckLimitsDone, WaitTimesOut, Reap, CheckDeadline,
                  TerminateNext, TerminateDone, AllTerminated, JoinWorkers,
                  CloseNonEmpty, UnsetControlGroup, ReturnResult, KillPid, MoreToStart,
                  Checked, othersThanMain, CallTerminate, GoTo, AfterWait, Joined,
                  KillReaches
    <2> QED BY <1>1, <2>1
  <1>6. CASE Background
    <2>1. UNCHANGED <<mainVars, setVars, infoVars>>
      BY <1>6, BackgroundStep
    <2>2. Reaping => cur \in Ids /\ child[cur] = "reaped"
      BY DEF TypeOK, ChildInv
    <2> QED BY <1>0, <2>1, <2>2 DEF TypeOK, ChildInv
  <1> QED BY NextCases, <1>2, <1>3, <1>4, <1>5, <1>6

\* LoaderInv is preserved: the loader starts after the last control group was
\* created and has returned before the first is given up.
LEMMA LoaderStep ==
  ASSUME TypeOK, SetsInv, LoaderInv, [Next]_vars
  PROVE  LoaderInv'
  <1> USE DEF LoaderInv, Closing, Killing, mainVars, setVars, infoVars, loaderVars
  <1>1. CASE StartProcess
    <2>1. cur \in Ids
      BY <1>1, NAssumption DEF StartProcess, TypeOK, Ids, MoreToStart
    <2>2. /\ cgroup' = [cgroup EXCEPT ![cur] = "set"] /\ running' = running \cup {cur}
          /\ UNCHANGED <<pc, caller, lpc>> /\ pc = "start"
      BY <1>1 DEF StartProcess, MoreToStart
    <2> QED BY <2>1, <2>2 DEF TypeOK
  <1>2. CASE StartFails
    BY <1>2 DEF StartFails
  <1>3. CASE StartLoop
    BY <1>3 DEF StartLoop, SetsInv, TypeOK, Ids
  <1>4. CASE JoinWorkers
    BY <1>4 DEF JoinWorkers, Joined, othersThanMain
  <1>5. CASE CloseNonEmpty \/ UnsetControlGroup \/ ReturnResult
    BY <1>5 DEF CloseNonEmpty, UnsetControlGroup, ReturnResult, CallTerminate,
                othersThanMain, GoTo
  <1>6. CASE KillPid \/ KillControlGroup
    BY <1>6 DEF KillPid, KillControlGroup, KillReaches, DescendantsKilled
  <1>7. CASE MarkTerminated
    BY <1>7 DEF MarkTerminated
  <1>8. CASE QuietMain /\ ~(JoinWorkers \/ CloseNonEmpty \/ UnsetControlGroup \/ ReturnResult
                           \/ KillPid \/ KillControlGroup)
    BY <1>8 DEF QuietMain, TestGroup, CheckLimitsDone, WaitTimesOut, Reap,
                TerminateNext, TerminateDone, AllTerminated, Checked, othersThanMain,
                GoTo, AfterWait, CallTerminate
  <1>9. CASE MonitorTerminated \/ CheckDeadline
    BY <1>9 DEF MonitorTerminated, CheckDeadline, WaitedForAfter
  <1>10. ASSUME NEW id \in Ids, CheckLimits(id) PROVE LoaderInv'
    BY <1>10 DEF CheckLimits, CallTerminate
  <1>11. CASE Background
    <2>1. UNCHANGED <<mainVars, setVars, infoVars>>
      BY <1>11, BackgroundStep
    <2>2. lpc \in {"off", "done"} => lpc' = lpc
      <3>1. CASE Loader
        BY <3>1 DEF Loader, LoaderNext, LoaderSample, LoaderExchange, othersThanLoader,
                    ExchangeFails
      <3>2. CASE ~Loader
        BY <1>11, <3>2 DEF Background, Children, Kernel, ChildAttaches, ChildSetUpFails,
           ChildExits, ChildForks, DescendantExits, ChildDies, DescendantDies, UseCpu,
           UseMemory, DeadlinePasses, ContainerDies, Ended, vars, othersThanChildren
      <3> QED BY <3>1, <3>2
    <2> QED BY <2>1, <2>2
  <1> QED
    BY NextCases, <1>1, <1>2, <1>3, <1>4, <1>5, <1>6, <1>7, <1>8, <1>9, <1>10, <1>11
       DEF MainThread, QuietMain

\* The initial states satisfy the invariant.
LEMMA InitInductive == Init => Inductive
  <1> SUFFICES ASSUME Init PROVE Inductive
    OBVIOUS
  <1>1. TypeOK
    BY InitType
  <1>2. SetsInv
    <2>1. 0 .. (0 - 1) = {}
      OBVIOUS
    <2> QED BY <2>1 DEF Init, SetsInv, Killing, Reaping, Closing
  <1>3. ChildInv
    BY DEF Init, ChildInv, Killing, Reaping
  <1>4. VerdictInv
    BY DEF Init, VerdictInv, AbnormalHasCulprit, LimitKillIsReported, InLoop, Killing
  <1>5. SilenceInv
    BY DEF Init, SilenceInv, ReapedIsSilenced, Reaping, Killing
  <1>6. LoaderInv
    BY DEF Init, LoaderInv, Closing, Killing
  <1> QED BY <1>1, <1>2, <1>3, <1>4, <1>5, <1>6 DEF Inductive

\* Every step preserves the invariant.
LEMMA NextInductive == Inductive /\ [Next]_vars => Inductive'
  <1> SUFFICES ASSUME Inductive, [Next]_vars PROVE Inductive'
    OBVIOUS
  <1> USE DEF Inductive
  <1>1. TypeOK' /\ SetsInv' /\ ChildInv'
    BY TypeStep, SetsStep, ChildStep
  <1>2. BySystem'
    BY BySystemStep DEF BySystem, VerdictInv
  <1>3. VerdictInv'
    BY <1>2, CulpritStep DEF BySystem, VerdictInv
  <1>4. SilenceInv' /\ LoaderInv'
    BY <1>1, SilenceStep, LoaderStep
  <1> QED BY <1>1, <1>3, <1>4

\* The inductive invariant of the control process.
THEOREM InductiveInvariant == Spec => []Inductive
  BY InitInductive, NextInductive, PTL DEF Spec

\* running_ and terminated_ partition the ids, the group waits for the right
\* ones, and no process is reported twice: the assertions of the monitor hold.
THEOREM PartitionCorrect == Spec => []MonitorPartition
  <1>1. Inductive => MonitorPartition
    BY DEF Inductive, SetsInv, MonitorPartition, Reaping
  <1> QED BY <1>1, InductiveInvariant, PTL

\* wait() is called only while there is a child: "We have child processes".
THEOREM WaitCorrect == Spec => []WaitHasChild
  <1>1. Inductive => WaitHasChild
    <2> SUFFICES ASSUME Inductive, pc = "waitFor" \/ (pc = "collect" /\ running # {})
                 PROVE  \E id \in running : Unreaped(id)
      BY DEF WaitHasChild
    <2>1. PICK id \in running : TRUE
      BY DEF Inductive, SetsInv
    <2>2. id \in Ids /\ id \notin terminated /\ ~Reaping
      BY <2>1 DEF Inductive, SetsInv, TypeOK, Reaping, Killing
    <2>3. child[id] \notin {"none", "reaped"}
      BY <2>1, <2>2 DEF Inductive, ChildInv
    <2> QED BY <2>1, <2>2, <2>3 DEF Inductive, TypeOK, Unreaped
  <1> QED BY <1>1, InductiveInvariant, PTL

\* No process outlives the recording of its result.
THEOREM SilenceCorrect == Spec => []ReapedIsSilenced
  <1>1. Inductive => ReapedIsSilenced
    BY DEF Inductive, SilenceInv
  <1> QED BY <1>1, InductiveInvariant, PTL

\* A process killed for a limit is never reported TERMINATED_BY_SYSTEM.
THEOREM LimitKillCorrect == Spec => []LimitKillIsReported
  <1>1. Inductive => LimitKillIsReported
    BY DEF Inductive, VerdictInv
  <1> QED BY <1>1, InductiveInvariant, PTL

\* A group result OK is earned by every process it speaks for.
THEOREM GroupOkCorrect == Spec => []GroupOkIsEarned
  <1>1. Inductive => GroupOkIsEarned
    <2> SUFFICES ASSUME Inductive, pc = "done", groupStatus = "OK"
                 PROVE  /\ \A id \in crash : Succeeded(exit[id], status[id])
                        /\ \A id \in waits : status[id] # "TERMINATED_BY_SYSTEM"
      BY DEF GroupOkIsEarned
    <2>1. crash \subseteq terminated
      BY DEF Inductive, SetsInv, Closing, TypeOK
    <2> QED BY <2>1 DEF Inductive, VerdictInv, InLoop
  <1> QED BY <1>1, InductiveInvariant, PTL

\* A group result ABNORMAL_EXIT has a culprit.
THEOREM AbnormalCorrect == Spec => []AbnormalHasCulprit
  <1>1. Inductive => AbnormalHasCulprit
    BY DEF Inductive, VerdictInv
  <1> QED BY <1>1, InductiveInvariant, PTL

\* The loader never reads a control group that was given up.
THEOREM LoaderCorrect == Spec => []LoaderHasControlGroup
  <1>1. Inductive => LoaderHasControlGroup
    BY DEF Inductive, LoaderInv, LoaderHasControlGroup, TypeOK
  <1> QED BY <1>1, InductiveInvariant, PTL

-----------------------------------------------------------------------------
(***************************************************************************)
(* The control process implements ProcessGroupExecution: each of its steps  *)
(* is, seen through Phase and Outcome, a step of the abstract execution or  *)
(* a stutter.                                                               *)
(***************************************************************************)

(* The refinement mapping. *)

\* Phase without its CASE, now and after a step.
LEMMA PhaseIs ==
  /\ Phase = IF pc = "done" THEN "reported" ELSE IF pc = "failed" THEN "failed"
             ELSE IF pc = "start" \/ InLoop THEN "open" ELSE "closing"
  /\ Phase' = IF pc' = "done" THEN "reported" ELSE IF pc' = "failed" THEN "failed"
              ELSE IF pc' = "start" \/ InLoop' THEN "open" ELSE "closing"
  <1>1. /\ pc = "done" => pc # "failed" /\ ~(pc = "start" \/ InLoop)
        /\ pc = "failed" => pc # "done" /\ ~(pc = "start" \/ InLoop)
        /\ pc' = "done" => pc' # "failed" /\ ~(pc' = "start" \/ InLoop')
        /\ pc' = "failed" => pc' # "done" /\ ~(pc' = "start" \/ InLoop')
    BY DEF InLoop
  <1> QED BY <1>1, Zenon DEF Phase

\* An id that is not recorded is pending, and no recorded status says so.
LEMMA OutcomeIs ==
  ASSUME TypeOK, NEW id \in Ids
  PROVE  /\ Outcome[id] = IF id \in terminated THEN status[id] ELSE "pending"
         /\ Outcome[id] = "pending" <=> id \notin terminated
  BY DEF Outcome, TypeOK, CompletionStatus

\* What the abstract execution does not see.
Unseen ==
  /\ UNCHANGED <<waits, crash, groupStatus, terminated>>
  /\ \A id \in terminated : status'[id] = status[id]
  /\ Phase' = Phase

LEMMA UnseenStutters ==
  ASSUME Unseen
  PROVE  UNCHANGED Execution!avars
  <1>1. Outcome' = Outcome
    BY DEF Unseen, Outcome
  <1> QED BY <1>1 DEF Unseen, Execution!avars

-----------------------------------------------------------------------------
\* A final status OK comes from exit status zero.
LEMMA OkExits ==
  ASSUME NEW s \in CompletionStatus, NEW e \in WaitStatus, NEW o \in SUBSET LimitKind,
         FinalStatus(s, e, o) = "OK"
  PROVE  e = "exit0"
  <1>1. \A t \in CompletionStatus : CollectResourceInfo(t, o) = "OK" => t = "OK"
    BY DEF CollectResourceInfo
  <1>2. AssignStatus(s, e) \in CompletionStatus /\ (AssignStatus(s, e) = "OK" => e = "exit0")
    BY DEF AssignStatus, CompletionStatus
  <1> QED BY <1>1, <1>2 DEF FinalStatus

\* The first state is one of the abstract execution.
LEMMA ExecutionInit == Init => Execution!Init
  <1> SUFFICES ASSUME Init PROVE Execution!Init
    OBVIOUS
  <1>1. Phase = "open"
    BY PhaseIs DEF Init
  <1>2. Outcome = [id \in Ids |-> "pending"]
    BY DEF Init, Outcome
  <1> QED BY <1>1, <1>2 DEF Init, Execution!Init

-----------------------------------------------------------------------------
(* The steps that are seen. *)

\* The constructor fails before anything ended.
LEMMA FailStep ==
  ASSUME Inductive, StartFails
  PROVE  Execution!Fail
  <1>1. Phase = "open" /\ Phase' = "failed"
    BY PhaseIs DEF StartFails
  <1>2. \A id \in Ids : Outcome[id] = "pending"
    BY OutcomeIs DEF StartFails, Inductive, SetsInv
  <1>3. Outcome' = Outcome
    BY DEF StartFails, Outcome, setVars, resultVars
  <1> QED BY <1>1, <1>2, <1>3 DEF StartFails, Execution!Fail, taskVars, resultVars

\* The loop is left only for a verdict or when every waited-for process ended.
LEMMA CloseStep ==
  ASSUME Inductive, TestGroup, pc' = "killAll"
  PROVE  Execution!Close
  <1> USE DEF taskVars, setVars, resultVars
  <1>1. Phase = "open" /\ Phase' = "closing"
    BY PhaseIs DEF TestGroup, InLoop
  <1>2. groupStatus # "OK" \/ groupWaits = {}
    BY DEF TestGroup, ProcessGroupIsRunning
  <1>3. ASSUME groupWaits = {}, NEW id \in waits PROVE Outcome[id] # "pending"
    <2>1. id \in Ids /\ id \in terminated
      BY <1>3 DEF Inductive, SetsInv, TypeOK, TestGroup
    <2> QED BY <2>1, OutcomeIs DEF Inductive
  <1>4. Outcome' = Outcome /\ UNCHANGED <<waits, crash, groupStatus>>
    BY DEF TestGroup, Outcome, othersThanMain
  <1> QED BY <1>1, <1>2, <1>3, <1>4 DEF Execution!Close

\* ExecutionMonitor::terminated records a process that was pending.
LEMMA FinishStep ==
  ASSUME Inductive, Inductive', MonitorTerminated
  PROVE  Execution!Finish(cur, Outcome'[cur])
  <1> DEFINE final == FinalStatus(status[cur], exit[cur], Overrun(cur))
  <1>1. /\ cur \in Ids /\ cur \notin terminated /\ caller \in {"waitFor", "collect"}
    BY DEF Inductive, TypeOK, SetsInv, Reaping, MonitorTerminated
  <1>2. /\ terminated' = terminated \cup {cur} /\ status' = [status EXCEPT ![cur] = final]
        /\ groupStatus' = GroupCheck(cur, final)
        /\ pc = "reaped" /\ pc' = IF caller = "waitFor" THEN "deadline" ELSE "collect"
        /\ UNCHANGED <<waits, crash, caller, cur>>
    BY DEF MonitorTerminated, taskVars
  <1>3. Phase = IF caller = "waitFor" THEN "open" ELSE "closing"
    BY <1>1, <1>2, PhaseIs DEF InLoop
  <1>4. Phase' = Phase
    BY <1>1, <1>2, <1>3, PhaseIs DEF InLoop
  <1>5. final \in CompletionStatus /\ (final = "OK" => exit[cur] = "exit0")
    BY <1>1, FinalStatusType, OverrunType, OkExits DEF Inductive, TypeOK
  <1>6. Outcome' = [Outcome EXCEPT ![cur] = final]
    BY <1>1, <1>2 DEF Outcome, Inductive, TypeOK
  <1>7. Outcome'[cur] = final /\ Outcome[cur] = "pending"
    BY <1>1, <1>6 DEF Outcome
  <1>8. Phase = "open" => final # "TERMINATED_BY_SYSTEM"
    <2> SUFFICES ASSUME Phase = "open" PROVE final # "TERMINATED_BY_SYSTEM"
      OBVIOUS
    <2>1. InLoop' /\ cur \in terminated'
      BY <1>1, <1>2, <1>3 DEF InLoop
    <2>2. status'[cur] # "TERMINATED_BY_SYSTEM"
      BY <2>1 DEF Inductive, VerdictInv, LimitKillIsReported
    <2> QED BY <1>1, <1>2, <2>2 DEF Inductive, TypeOK
  <1>9. groupStatus' = IF groupStatus = "OK" /\ cur \in crash /\ final # "OK"
                         THEN "ABNORMAL_EXIT" ELSE groupStatus
    BY <1>2, <1>5 DEF GroupCheck, Succeeded
  <1> HIDE DEF final
  <1>10. /\ Phase \in {"open", "closing"} /\ UNCHANGED <<waits, crash, Phase>>
         /\ Outcome' = [Outcome EXCEPT ![cur] = Outcome'[cur]]
         /\ Outcome'[cur] \in CompletionStatus
         /\ Phase = "open" => Outcome'[cur] # "TERMINATED_BY_SYSTEM"
         /\ groupStatus' = IF groupStatus = "OK" /\ cur \in crash /\ Outcome'[cur] # "OK"
                             THEN "ABNORMAL_EXIT" ELSE groupStatus
    BY <1>2, <1>3, <1>4, <1>5, <1>6, <1>7, <1>8, <1>9
  <1> QED BY <1>7, <1>10, Zenon DEF Execution!Finish, Execution!CompletionStatus, CompletionStatus

\* The deadline replaces whatever verdict there was.
LEMMA ExpireStep ==
  ASSUME CheckDeadline, expired
  PROVE  Execution!Expire
  <1>1. Phase = "open" /\ Phase' = "open"
    BY PhaseIs DEF CheckDeadline, InLoop
  <1>2. Outcome' = Outcome
    BY DEF CheckDeadline, Outcome, setVars
  <1> QED BY <1>1, <1>2 DEF CheckDeadline, Execution!Expire, taskVars

\* The result is returned when everything was recorded.
LEMMA ReportStep ==
  ASSUME Inductive, ReturnResult
  PROVE  Execution!Report
  <1> USE DEF ReturnResult, GoTo, othersThanMain, taskVars, setVars, resultVars
  <1>1. Phase = "closing" /\ Phase' = "reported"
    BY PhaseIs DEF InLoop
  <1>2. terminated = Ids
    BY DEF Inductive, SetsInv, Closing, TypeOK
  <1>3. \A id \in Ids : Outcome[id] # "pending"
    BY <1>2, OutcomeIs DEF Inductive
  <1>4. Outcome' = Outcome
    BY DEF Outcome
  <1> QED BY <1>1, <1>3, <1>4 DEF Execution!Report

-----------------------------------------------------------------------------
(* The steps that are not. *)

\* The steps of the main thread that record nothing.
UnseenAction ==
  \/ StartProcess \/ StartLoop \/ (TestGroup /\ pc' = "scan")
  \/ (\E id \in Ids : CheckLimits(id)) \/ CheckLimitsDone \/ WaitTimesOut
  \/ (\E id \in Ids : Reap(id)) \/ (CheckDeadline /\ ~expired)
  \/ (\E id \in Ids : TerminateNext(id)) \/ TerminateDone
  \/ AllTerminated \/ JoinWorkers \/ CloseNonEmpty \/ UnsetControlGroup
  \/ KillPid \/ KillControlGroup \/ MarkTerminated

\* Such a step stays on its side of the end of the loop.
LEMMA UnseenStep ==
  ASSUME Inductive, UnseenAction
  PROVE  Unseen
  <1> USE DEF taskVars, mainVars, setVars, resultVars
  <1>1. CASE \/ StartProcess \/ StartLoop \/ (TestGroup /\ pc' = "scan")
             \/ CheckLimitsDone \/ WaitTimesOut \/ (CheckDeadline /\ ~expired)
    <2>1. UNCHANGED <<waits, crash, groupStatus, terminated, status>>
      BY <1>1 DEF StartProcess, StartLoop, TestGroup, CheckLimitsDone, WaitTimesOut,
         CheckDeadline, GoTo, othersThanMain
    <2>2. (pc = "start" \/ InLoop) /\ (pc' = "start" \/ InLoop')
      BY <1>1 DEF StartProcess, StartLoop, TestGroup, CheckLimitsDone, WaitTimesOut,
         CheckDeadline, GoTo, InLoop
    <2>3. Phase' = Phase
      BY <2>2, PhaseIs DEF InLoop
    <2> QED BY <2>1, <2>3 DEF Unseen
  <1>2. ASSUME NEW id \in Ids, CheckLimits(id) PROVE Unseen
    <2>1. /\ id \in running /\ id \notin terminated
          /\ UNCHANGED <<waits, crash, groupStatus, terminated>>
          /\ \E s : status' = [status EXCEPT ![id] = s]
      BY <1>2 DEF CheckLimits, Inductive, SetsInv
    <2>2. InLoop /\ InLoop'
      BY <1>2 DEF CheckLimits, CallTerminate, InLoop
    <2>3. Phase' = Phase
      BY <2>2, PhaseIs DEF InLoop
    <2> QED BY <2>1, <2>3 DEF Unseen, Inductive, TypeOK
  <1>3. CASE \/ \E id \in Ids : Reap(id)
             \/ KillPid \/ KillControlGroup
    <2>1. UNCHANGED <<waits, crash, groupStatus, terminated, status>>
      BY <1>3 DEF Reap, KillPid, KillControlGroup
    <2>2. /\ InLoop' <=> InLoop
          /\ pc \notin {"start", "done", "failed"} /\ pc' \notin {"start", "done", "failed"}
      BY <1>3 DEF Reap, AfterWait, KillPid, KillControlGroup, InLoop
    <2>3. Phase' = Phase
      BY <2>2, PhaseIs
    <2> QED BY <2>1, <2>3 DEF Unseen
  <1>4. CASE \/ \E id \in Ids : TerminateNext(id)
             \/ TerminateDone \/ AllTerminated \/ JoinWorkers \/ CloseNonEmpty
             \/ UnsetControlGroup
    <2>1. UNCHANGED <<waits, crash, groupStatus, terminated, status>>
      BY <1>4 DEF TerminateNext, TerminateDone, AllTerminated, JoinWorkers, CloseNonEmpty,
         UnsetControlGroup, GoTo, othersThanMain
    <2>2. /\ ~InLoop /\ ~InLoop'
          /\ pc \notin {"start", "done", "failed"} /\ pc' \notin {"start", "done", "failed"}
      BY <1>4 DEF TerminateNext, TerminateDone, AllTerminated, JoinWorkers, CloseNonEmpty,
         UnsetControlGroup, GoTo, CallTerminate, InLoop
    <2>3. Phase' = Phase
      BY <2>2, PhaseIs
    <2> QED BY <2>1, <2>3 DEF Unseen
  <1>5. CASE MarkTerminated
    <2>1. /\ UNCHANGED <<waits, crash, groupStatus, terminated, caller>>
          /\ status' = IF caller \in {"scan", "killAll"}
                         THEN [status EXCEPT ![cur] = "TERMINATED_BY_SYSTEM"] ELSE status
          /\ pc = "mark"
      BY <1>5 DEF MarkTerminated
    <2>2. caller \in {"scan", "killAll"} => cur \notin terminated
      BY <2>1 DEF Inductive, SetsInv, Killing
    <2>3. caller \in {"scan", "killAll", "waitFor", "collect", "cleanup"}
      BY <2>1 DEF Inductive, SetsInv, TypeOK, Caller
    <2>4. pc' = IF caller = "scan" THEN "scan" ELSE IF caller = "killAll" THEN "killAll"
                ELSE IF caller = "cleanup" THEN "unset" ELSE "reaped"
      BY <1>5, Zenon DEF MarkTerminated
    <2>5. /\ InLoop' <=> InLoop
          /\ pc' \notin {"start", "done", "failed"}
      BY <2>1, <2>3, <2>4 DEF InLoop
    <2>6. Phase' = Phase
      BY <2>1, <2>5, PhaseIs
    <2>7. \A id \in terminated : status'[id] = status[id]
      BY <2>1, <2>2 DEF Inductive, TypeOK
    <2> QED BY <2>1, <2>6, <2>7 DEF Unseen
  <1> QED BY <1>1, <1>2, <1>3, <1>4, <1>5, Zenon DEF UnseenAction

-----------------------------------------------------------------------------
\* Every step of the control process is one of the execution or a stutter.
LEMMA ExecutionStep ==
  ASSUME Inductive, Inductive', [Next]_vars
  PROVE  [Execution!Next]_(Execution!avars)
  <1>1. CASE Background
    <2>1. Unseen
      BY <1>1, BackgroundStep, PhaseIs DEF Unseen, InLoop, taskVars, mainVars, setVars, resultVars
    <2> QED BY <2>1, UnseenStutters
  <1>2. CASE StartFails
    BY <1>2, FailStep DEF Execution!Next
  <1>3. CASE TestGroup
    <2>1. pc' \in {"scan", "killAll"}
      BY <1>3 DEF TestGroup
    <2>2. CASE pc' = "scan"
      BY <1>3, <2>2, UnseenStep, UnseenStutters DEF UnseenAction
    <2>3. CASE pc' = "killAll"
      BY <1>3, <2>3, CloseStep DEF Execution!Next
    <2> QED BY <2>1, <2>2, <2>3
  <1>4. CASE MonitorTerminated
    <2>1. cur \in Ids
      BY <1>4 DEF MonitorTerminated, Inductive, TypeOK
    <2> QED BY <1>4, <2>1, FinishStep DEF Execution!Next
  <1>5. CASE CheckDeadline
    <2>1. CASE expired
      BY <1>5, <2>1, ExpireStep DEF Execution!Next
    <2>2. CASE ~expired
      BY <1>5, <2>2, UnseenStep, UnseenStutters DEF UnseenAction
    <2> QED BY <2>1, <2>2
  <1>6. CASE ReturnResult
    BY <1>6, ReportStep DEF Execution!Next
  <1>7. CASE UnseenAction
    BY <1>7, UnseenStep, UnseenStutters
  <1> QED
    BY NextCases, <1>1, <1>2, <1>3, <1>4, <1>5, <1>6, <1>7, Zenon DEF MainThread, UnseenAction

\* For any number of processes and any task, limits and ways to end, the
\* control process implements the abstract execution of a group.
THEOREM RefinementCorrect == Spec => ImplementsExecution
  <1>1. Inductive /\ Inductive' /\ [Next]_vars => [Execution!Next]_(Execution!avars)
    BY ExecutionStep
  <1> QED BY <1>1, ExecutionInit, InductiveInvariant, PTL DEF Spec, ImplementsExecution, Execution!Spec

-----------------------------------------------------------------------------
(***************************************************************************)
(* What the control process reports: a result is final, every status has    *)
(* its evidence, and the memory mark is a high-water mark.                  *)
(***************************************************************************)

(* A result is final. *)

\* A step of the main thread or another that records nothing, or one of the
\* four that are seen.
LEMMA StepKinds ==
  ASSUME Inductive, [Next]_vars
  PROVE  \/ Unseen \/ StartFails \/ (TestGroup /\ pc' = "killAll")
         \/ MonitorTerminated \/ (CheckDeadline /\ expired) \/ ReturnResult
  <1>1. CASE Background
    BY <1>1, BackgroundStep, PhaseIs DEF Unseen, InLoop, taskVars, mainVars, setVars, resultVars
  <1>2. CASE UnseenAction
    BY <1>2, UnseenStep
  <1>3. TestGroup => pc' \in {"scan", "killAll"}
    BY DEF TestGroup
  <1> QED BY NextCases, <1>1, <1>2, <1>3, Zenon DEF MainThread, UnseenAction

\* What one step may do to results that were recorded.
LEMMA ResultStep ==
  ASSUME Inductive, [Next]_vars
  PROVE  /\ \A id \in terminated : status'[id] = status[id] /\ id \in terminated'
         /\ groupStatus = "REAL_TIME_LIMIT_EXCEEDED" => groupStatus' = groupStatus
         /\ (~InLoop /\ groupStatus # "OK") => groupStatus' = groupStatus
  <1> USE DEF taskVars, setVars, resultVars
  <1>1. CASE Unseen
    BY <1>1 DEF Unseen
  <1>2. CASE StartFails \/ TestGroup \/ ReturnResult
    BY <1>2 DEF StartFails, TestGroup, ReturnResult, GoTo, othersThanMain
  <1>3. CASE CheckDeadline
    BY <1>3 DEF CheckDeadline, InLoop
  <1>4. CASE MonitorTerminated
    <2>1. cur \notin terminated
      BY <1>4 DEF MonitorTerminated, Inductive, SetsInv, Reaping
    <2>2. /\ groupStatus # "OK" => groupStatus' = groupStatus
          /\ \A id \in terminated : status'[id] = status[id] /\ id \in terminated'
      BY <1>4, <2>1 DEF MonitorTerminated, GroupCheck, Inductive, TypeOK
    <2> QED BY <2>2
  <1> QED BY StepKinds, <1>1, <1>2, <1>3, <1>4

\* No step, a killing one included, changes a status that was recorded or a
\* verdict that the loop reached.
THEOREM FinalCorrect == Spec => ResultIsFinal
  <1>1. Inductive /\ [Next]_vars =>
          [ /\ \A id \in terminated : status'[id] = status[id]
            /\ groupStatus = "REAL_TIME_LIMIT_EXCEEDED" => groupStatus' = groupStatus
            /\ (~InLoop /\ groupStatus # "OK") => groupStatus' = groupStatus ]_vars
    BY ResultStep
  <1> QED BY <1>1, InductiveInvariant, PTL DEF Spec, ResultIsFinal

-----------------------------------------------------------------------------
(* Every status has its evidence. *)

\* What the wait status e and the limits o that were exceeded say for status s.
Evidence(s, e, o) ==
  /\ s = "TIME_LIMIT_EXCEEDED" => "time" \in o
  /\ s = "USER_TIME_LIMIT_EXCEEDED" => "user" \in o
  /\ s = "SYSTEM_TIME_LIMIT_EXCEEDED" => "system" \in o
  /\ s = "MEMORY_LIMIT_EXCEEDED" => "memory" \in o
  /\ s = "OUTPUT_LIMIT_EXCEEDED" => e = "SIGXFSZ"
  /\ s = "START_FAILED" => e = "SIGUSR2"
  /\ s = "OK" => e = "exit0"
  /\ s = "ABNORMAL_EXIT" => e \notin {"exit0", "SIGXFSZ", "SIGUSR2"}

\* A final status has it.
LEMMA FinalStatusEvidence ==
  ASSUME NEW s \in CompletionStatus, NEW e \in WaitStatus, NEW o \in SUBSET LimitKind
  PROVE  Evidence(FinalStatus(s, e, o), e, o)
  <1> DEFINE a == AssignStatus(s, e)
  <1>1. /\ a \in {"OK", "ABNORMAL_EXIT", "TERMINATED_BY_SYSTEM", "OUTPUT_LIMIT_EXCEEDED",
                  "START_FAILED"}
        /\ a = "OUTPUT_LIMIT_EXCEEDED" => e = "SIGXFSZ"
        /\ a = "START_FAILED" => e = "SIGUSR2"
        /\ a = "OK" => e = "exit0"
        /\ a = "ABNORMAL_EXIT" => e \notin {"exit0", "SIGXFSZ", "SIGUSR2"}
    BY DEF AssignStatus, CompletionStatus
  <1>2. ASSUME NEW t \in {"OK", "ABNORMAL_EXIT", "TERMINATED_BY_SYSTEM"}
        PROVE  LET c == CollectResourceInfo(t, o)
               IN  \/ c = t
                   \/ c = "TIME_LIMIT_EXCEEDED" /\ "time" \in o
                   \/ c = "USER_TIME_LIMIT_EXCEEDED" /\ "user" \in o
                   \/ c = "SYSTEM_TIME_LIMIT_EXCEEDED" /\ "system" \in o
                   \/ c = "MEMORY_LIMIT_EXCEEDED" /\ "memory" \in o
    BY <1>2 DEF CollectResourceInfo
  <1>3. FinalStatus(s, e, o) = IF a \in {"OK", "ABNORMAL_EXIT", "TERMINATED_BY_SYSTEM"}
                                 THEN CollectResourceInfo(a, o) ELSE a
    BY DEF FinalStatus
  <1> HIDE DEF a
  <1>4. CASE a \in {"OK", "ABNORMAL_EXIT", "TERMINATED_BY_SYSTEM"}
    <2> DEFINE c == CollectResourceInfo(a, o)
    <2>1. \/ c = a
          \/ c = "TIME_LIMIT_EXCEEDED" /\ "time" \in o
          \/ c = "USER_TIME_LIMIT_EXCEEDED" /\ "user" \in o
          \/ c = "SYSTEM_TIME_LIMIT_EXCEEDED" /\ "system" \in o
          \/ c = "MEMORY_LIMIT_EXCEEDED" /\ "memory" \in o
      BY <1>2, <1>4
    <2> HIDE DEF c
    <2>2. Evidence(c, e, o)
      BY <1>1, <1>4, <2>1 DEF Evidence
    <2> QED BY <1>3, <1>4, <2>2 DEF c
  <1>5. CASE a \in {"OUTPUT_LIMIT_EXCEEDED", "START_FAILED"}
    BY <1>1, <1>3, <1>5 DEF Evidence
  <1> QED BY <1>1, <1>4, <1>5

\* The evidence of every recorded status; TERMINATED_BY_SYSTEM is Inductive's.
EvidenceInv == \A id \in terminated : Evidence(status[id], exit[id], Overrun(id))

\* It stays: readings only grow, and a reaped process keeps its wait status.
LEMMA EvidenceStep ==
  ASSUME Inductive, Inductive', EvidenceInv, [Next]_vars
  PROVE  EvidenceInv'
  <1> USE DEF Inductive
  <1>1. ASSUME NEW id \in terminated
        PROVE  Evidence(status'[id], exit'[id], Overrun(id)')
    <2>1. id \in Ids /\ child[id] = "reaped"
      BY <1>1 DEF ChildInv, TypeOK
    <2>2. exit'[id] = exit[id] /\ Overrun(id) \subseteq Overrun(id)'
      BY <2>1, ExitIsFinal, OverrunGrows
    <2>3. status'[id] = status[id]
      BY <1>1, ResultStep
    <2>4. Evidence(status[id], exit[id], Overrun(id))
      BY <1>1 DEF EvidenceInv
    <2> QED BY <2>2, <2>3, <2>4 DEF Evidence
  <1>2. CASE terminated' = terminated
    BY <1>1, <1>2 DEF EvidenceInv
  <1>3. CASE MonitorTerminated
    <2>1. /\ cur \in Ids /\ terminated' = terminated \cup {cur}
          /\ status'[cur] = FinalStatus(status[cur], exit[cur], Overrun(cur))
          /\ UNCHANGED <<exit, exceeded, maxMemory, cur>>
      BY <1>3 DEF MonitorTerminated, TypeOK, childVars, usageVars
    <2>2. /\ status[cur] \in CompletionStatus /\ exit[cur] \in WaitStatus
          /\ Overrun(cur) \in SUBSET LimitKind
      BY <2>1, OverrunType DEF TypeOK
    <2>3. Overrun(cur)' = Overrun(cur)
      BY <2>1, <1>3 DEF Overrun, MonitorTerminated
    <2>4. Evidence(status'[cur], exit'[cur], Overrun(cur)')
      BY <2>1, <2>2, <2>3, FinalStatusEvidence
    <2>5. ASSUME NEW id \in terminated' PROVE Evidence(status[id], exit[id], Overrun(id))'
      <3>1. CASE id \in terminated
        BY <1>1, <3>1
      <3>2. CASE id = cur
        BY <2>1, <2>4, <3>2 DEF Overrun
      <3> QED BY <2>1, <2>5, <3>1, <3>2
    <2> QED BY <2>5, Zenon DEF EvidenceInv
  <1>4. terminated' = terminated \/ MonitorTerminated
    BY StepKinds DEF Unseen, StartFails, TestGroup, CheckDeadline, ReturnResult, GoTo,
       othersThanMain, setVars
  <1> QED BY <1>2, <1>3, <1>4

\* For every task and any limits and ways to end, each recorded status has the
\* reading or the wait status that explains it.
THEOREM ExplainedCorrect == Spec => []StatusIsExplained
  <1>1. Init => EvidenceInv
    BY DEF Init, EvidenceInv
  <1>2. EvidenceInv /\ Inductive /\ Inductive' /\ [Next]_vars => EvidenceInv'
    BY EvidenceStep
  <1>3. EvidenceInv /\ Inductive => StatusIsExplained
    <2> SUFFICES ASSUME EvidenceInv, Inductive, NEW id \in terminated
                 PROVE  StatusIsExplained!(id)
      BY Zenon DEF StatusIsExplained
    <2>1. /\ Evidence(status[id], exit[id], Overrun(id))
          /\ status[id] \in CompletionStatus
          /\ status[id] = "TERMINATED_BY_SYSTEM" => ~InLoop
      BY DEF EvidenceInv, Inductive, TypeOK, VerdictInv, LimitKillIsReported
    <2> QED BY <2>1, Zenon DEF Evidence, CompletionStatus
  <1> QED BY <1>1, <1>2, <1>3, InductiveInvariant, PTL DEF Spec

-----------------------------------------------------------------------------
(* The memory mark. *)

\* What is recorded, and what the loader is about to record, has been used.
MemoryInv ==
  /\ \A id \in Ids : maxMemory[id] <= peak[id]
  /\ lpc = "cas" => sample <= peak[lid]

\* Neither thread records more than was used.
LEMMA MemoryStep ==
  ASSUME TypeOK, MemoryInv, [Next]_vars
  PROVE  MemoryInv'
  <1> USE MemoryAssumption DEF TypeOK, MemoryInv, taskVars, mainVars, setVars, resultVars,
                               infoVars, loaderVars, childVars, usageVars
  <1>1. CASE MarkTerminated
    <2>1. UNCHANGED <<peak, lpc, sample, lid>>
      BY <1>1 DEF MarkTerminated
    <2>2. cur \in Ids /\ maxMemory' = [maxMemory EXCEPT ![cur] = IF @ = 0 THEN peak[cur] ELSE @]
      BY <1>1 DEF MarkTerminated
    <2> QED BY <2>1, <2>2
  <1>2. CASE MainThread /\ ~MarkTerminated
    <2>1. UNCHANGED <<peak, maxMemory, sample, lid>> /\ (lpc' = "cas" => lpc = "cas")
      BY <1>2 DEF MainThread, StartProcess, StartFails, StartLoop, TestGroup,
                  CheckLimits, CheckLimitsDone, WaitTimesOut, Reap,
                  MonitorTerminated, CheckDeadline, TerminateNext, TerminateDone,
                  AllTerminated, JoinWorkers, CloseNonEmpty, UnsetControlGroup,
                  ReturnResult, KillPid, KillControlGroup, othersThanMain,
                  CallTerminate, GoTo
    <2> QED BY <2>1
  <1>3. CASE LoaderNext
    BY <1>3 DEF LoaderNext, othersThanLoader
  <1>4. CASE LoaderSample
    <2>1. lid \in Ids /\ sample' <= peak[lid] /\ UNCHANGED <<peak, maxMemory, lid>>
      BY <1>4 DEF LoaderSample, othersThanLoader
    <2> QED BY <2>1
  <1>5. CASE LoaderExchange
    <2>1. lpc = "cas" /\ lid \in Ids /\ UNCHANGED <<peak, sample>>
      BY <1>5 DEF LoaderExchange, othersThanLoader
    <2>2. CASE maxMemory' = maxMemory /\ (lpc' = "check" \/ UNCHANGED <<lpc, lid>>)
      BY <2>1, <2>2
    <2>3. CASE maxMemory' = [maxMemory EXCEPT ![lid] = sample] /\ lpc' = "check"
      BY <2>1, <2>3
    <2> QED BY <1>5, <2>2, <2>3 DEF LoaderExchange
  <1>6. ASSUME NEW i \in Ids, UseMemory(i) PROVE MemoryInv'
    <2>1. peak' = [peak EXCEPT ![i] = @ + 1] /\ UNCHANGED <<maxMemory, lpc, sample, lid>>
      BY <1>6 DEF UseMemory
    <2> QED BY <2>1
  <1>7. CASE Children /\ ~(\E i \in Ids : UseMemory(i))
    <2>1. UNCHANGED <<peak, maxMemory, lpc, sample, lid>>
      BY <1>7 DEF Children, ChildAttaches, ChildSetUpFails, ChildExits, ChildForks,
         DescendantExits, UseCpu, othersThanChildren
    <2> QED BY <2>1
  <1>8. CASE (\E i \in Ids : Kernel(i)) \/ DeadlinePasses \/ ContainerDies \/ Ended
             \/ UNCHANGED vars
    <2>1. UNCHANGED <<peak, maxMemory, lpc, sample, lid>>
      BY <1>8 DEF Kernel, ChildDies, DescendantDies, DeadlinePasses, ContainerDies, Ended,
         vars, othersThanChildren
    <2> QED BY <2>1
  <1> QED BY NextCases, <1>1, <1>2, <1>3, <1>4, <1>5, <1>6, <1>7, <1>8
          DEF Background, Loader, Children

\* Two threads store maxMemoryUsageBytes_, and still it is a high-water mark,
\* for any number of processes and any readings.
THEOREM MemoryCorrect == Spec => MemoryHighWater
  <1>1. Init => MemoryInv
    BY DEF Init, MemoryInv
  <1>2. TypeOK /\ MemoryInv /\ [Next]_vars => MemoryInv'
    BY MemoryStep
  <1>3. TypeOK /\ MemoryInv' /\ [Next]_vars =>
          [\A id \in Ids : maxMemory'[id] >= maxMemory[id] /\ maxMemory'[id] <= peak'[id]]_vars
    BY ReadingsGrow DEF MemoryInv
  <1> QED BY <1>1, <1>2, <1>3, TypeCorrect, PTL DEF Spec, MemoryHighWater

-----------------------------------------------------------------------------
(* The events and the result say the same. *)

IsClose(i) == events[i].type = "close"

EventsInv ==
  /\ EventsMatchResults
  /\ \A id \in Ids : cgroup[id] = "none" <=> id \notin running \cup terminated
  /\ \A i \in DOMAIN events : IsClose(i) => pc = "join" \/ Closing

\* An event is told after all others.
LEMMA EventAppended ==
  ASSUME events \in Seq(Event), NEW e \in Event, events' = Append(events, e)
  PROVE  LET last == Len(events) + 1
         IN  /\ DOMAIN events' = DOMAIN events \cup {last} /\ last \notin DOMAIN events
             /\ last = Len(events') /\ events'[last] = e
             /\ \A i \in DOMAIN events : events'[i] = events[i] /\ i < last
             /\ \A type, id : EventsOf(type, id)' =
                  EventsOf(type, id) \cup (IF e.type = type /\ e.id = id THEN {last} ELSE {})
  <1> DEFINE last == Len(events) + 1
  <1>1. /\ DOMAIN events' = DOMAIN events \cup {last} /\ last \notin DOMAIN events
        /\ last = Len(events') /\ events'[last] = e
        /\ \A i \in DOMAIN events : events'[i] = events[i] /\ i < last
    OBVIOUS
  <1> HIDE DEF last
  <1>2. \A type, id : EventsOf(type, id)' =
          EventsOf(type, id) \cup (IF e.type = type /\ e.id = id THEN {last} ELSE {})
    BY <1>1 DEF EventsOf
  <1> QED BY <1>1, <1>2 DEF last

\* A step that tells nothing gives nobody a control group and records no result.
LEMMA NothingTold ==
  ASSUME Inductive, EventsInv, [Next]_vars,
         ~StartProcess, ~MonitorTerminated, ~AllTerminated
  PROVE  EventsInv'
  <1> USE DEF taskVars, mainVars, setVars, resultVars, infoVars
  <1>1. /\ UNCHANGED <<events, setVars>>
        /\ \A id \in Ids : cgroup'[id] = "none" <=> cgroup[id] = "none"
        /\ (pc = "join" \/ Closing) => (pc = "join" \/ Closing)'
    <2>1. CASE Background
      BY <2>1, BackgroundStep DEF Closing, Killing
    <2>2. CASE UnsetControlGroup
      <3>1. cur \in Ids /\ pc \in {"cleanup", "unset"}
        BY <2>2, NAssumption DEF UnsetControlGroup, Inductive, TypeOK, Ids
      <3>2. cgroup[cur] # "none"
        BY <3>1 DEF EventsInv, Inductive, SetsInv
      <3> QED BY <2>2, <3>1, <3>2 DEF UnsetControlGroup, Inductive, TypeOK, Closing
    <2>3. CASE StartFails
      BY <2>3 DEF StartFails, Inductive, TypeOK, Closing, Killing
    <2>4. CASE \/ StartLoop \/ TestGroup \/ (\E id \in Ids : CheckLimits(id)) \/ CheckLimitsDone
               \/ WaitTimesOut \/ (\E id \in Ids : Reap(id)) \/ CheckDeadline
               \/ (\E id \in Ids : TerminateNext(id)) \/ TerminateDone
      BY <2>4 DEF StartLoop, TestGroup, CheckLimits, CheckLimitsDone, WaitTimesOut, Reap,
         CheckDeadline, TerminateNext, TerminateDone, GoTo, othersThanMain, Closing, Killing
    <2>5. CASE JoinWorkers \/ CloseNonEmpty \/ ReturnResult \/ KillPid \/ KillControlGroup
      BY <2>5 DEF JoinWorkers, CloseNonEmpty, ReturnResult, KillPid, KillControlGroup, GoTo,
         CallTerminate, othersThanMain, Closing, Killing
    <2>6. CASE MarkTerminated
      <3>1. UNCHANGED <<events, setVars, cgroup>> /\ pc = "mark"
        BY <2>6 DEF MarkTerminated
      <3>2. caller = "cleanup" => pc' = "unset"
        BY <2>6, Zenon DEF MarkTerminated
      <3> QED BY <3>1, <3>2 DEF Closing, Killing
    <2> QED BY NextCases, <2>1, <2>2, <2>3, <2>4, <2>5, <2>6 DEF MainThread
  <1>2. \A id \in terminated : status'[id] = status[id]
    BY ResultStep
  <1>3. \A type, id : EventsOf(type, id)' = EventsOf(type, id)
    BY <1>1 DEF EventsOf
  <1>4. EventsMatchResults'
    BY <1>1, <1>2, <1>3 DEF EventsInv, EventsMatchResults
  <1> QED BY <1>1, <1>4 DEF EventsInv, IsClose

LEMMA EventsStep ==
  ASSUME Inductive, EventsInv, [Next]_vars
  PROVE  EventsInv'
  <1> DEFINE last == Len(events) + 1
  <1> USE DEF setVars, resultVars, infoVars
  <1>1. CASE StartProcess
    <2> DEFINE e == [type |-> "spawn", id |-> cur]
    <2>1. /\ pc = "start" /\ pc' = "start" /\ cur \in Ids /\ cur \notin running /\ terminated = {}
          /\ cgroup' = [cgroup EXCEPT ![cur] = "set"] /\ running' = running \cup {cur}
          /\ events' = Append(events, e) /\ UNCHANGED <<terminated, status>>
      BY <1>1, NAssumption DEF StartProcess, MoreToStart, Inductive, TypeOK, SetsInv, Ids
    <2>2. e \in Event /\ e.type = "spawn" /\ e.id = cur
      BY <2>1 DEF Event
    <2> HIDE DEF e
    <2>3. /\ \A type, id : EventsOf(type, id)' = EventsOf(type, id) \cup
                             (IF type = "spawn" /\ id = cur THEN {last} ELSE {})
          /\ DOMAIN events' = DOMAIN events \cup {last} /\ last \notin DOMAIN events
          /\ \A i \in DOMAIN events : events'[i] = events[i] /\ i < last
          /\ events'[last].type = "spawn"
      BY <2>1, <2>2, EventAppended DEF Inductive, TypeOK
    <2> HIDE DEF last
    <2>4. EventsOf("spawn", cur) = {} /\ \A id \in Ids : EventsOf("termination", id) = {}
      BY <2>1 DEF EventsInv, EventsMatchResults
    <2>5. \A i \in DOMAIN events' : ~IsClose(i)'
      BY <2>1, <2>3 DEF EventsInv, IsClose, Closing, Killing
    <2>6. /\ cgroup'[cur] = "set" /\ \A id \in Ids : id # cur => cgroup'[id] = cgroup[id]
      BY <2>1 DEF Inductive, TypeOK
    <2>7. EventsMatchResults'
      BY <2>1, <2>3, <2>4, <2>5, <2>6 DEF EventsInv, EventsMatchResults, IsClose
    <2> QED BY <2>1, <2>5, <2>6, <2>7 DEF EventsInv
  <1>2. CASE MonitorTerminated
    <2> DEFINE final == FinalStatus(status[cur], exit[cur], Overrun(cur))
    <2> DEFINE e == TerminationEvent(cur, final)
    <2>1. /\ pc = "reaped" /\ cur \in running /\ cur \notin terminated /\ cur \in Ids
          /\ terminated' = terminated \cup {cur} /\ running' = running \ {cur}
          /\ status' = [status EXCEPT ![cur] = final]
          /\ events' = Append(events, e) /\ UNCHANGED cgroup
      BY <1>2 DEF MonitorTerminated, Inductive, TypeOK, SetsInv, Reaping
    <2>2. final \in CompletionStatus
      <3>1. TypeOK'
        BY TypeStep DEF Inductive
      <3> HIDE DEF final
      <3>2. status'[cur] = final
        BY <2>1 DEF Inductive, TypeOK
      <3> QED BY <2>1, <3>1, <3>2 DEF TypeOK
    <2> HIDE DEF final
    <2>3. e \in Event /\ e.type = "termination" /\ e.id = cur /\ e.status = final
      BY <2>1, <2>2 DEF Event, TerminationEvent
    <2> HIDE DEF e
    <2>4. /\ \A type, id : EventsOf(type, id)' = EventsOf(type, id) \cup
                             (IF type = "termination" /\ id = cur THEN {last} ELSE {})
          /\ DOMAIN events' = DOMAIN events \cup {last} /\ last \notin DOMAIN events
          /\ \A i \in DOMAIN events : events'[i] = events[i] /\ i < last
          /\ events'[last].type = "termination" /\ events'[last].status = final
      BY <2>1, <2>3, EventAppended DEF Inductive, TypeOK
    <2> HIDE DEF last
    <2>5. EventsOf("termination", cur) = {} /\ EventsOf("spawn", cur) # {}
      BY <2>1 DEF EventsInv, EventsMatchResults
    <2>6. \A i \in DOMAIN events' : ~IsClose(i)'
      BY <2>1, <2>4 DEF EventsInv, IsClose, Closing, Killing
    <2>7. status'[cur] = final /\ \A id \in Ids : id # cur => status'[id] = status[id]
      BY <2>1 DEF Inductive, TypeOK
    <2>8. \A type, id : EventsOf(type, id) \subseteq DOMAIN events
      BY DEF EventsOf
    <2>9. EventsMatchResults'
      BY <2>1, <2>4, <2>5, <2>6, <2>7, <2>8 DEF EventsInv, EventsMatchResults, IsClose
    <2> QED BY <2>1, <2>6, <2>9 DEF EventsInv
  <1>3. CASE AllTerminated
    <2> DEFINE e == [type |-> "close"]
    <2>1. /\ pc = "collect" /\ pc' = "join" /\ running = {}
          /\ events' = Append(events, e) /\ UNCHANGED <<running, terminated, status, cgroup>>
      BY <1>3 DEF AllTerminated
    <2>2. e \in Event /\ e.type = "close"
      BY DEF Event
    <2>3. terminated = Ids
      BY <2>1 DEF Inductive, SetsInv
    <2> HIDE DEF e
    <2>4. /\ \A type, id : EventsOf(type, id)' = EventsOf(type, id) \cup
                             (IF e.type = type /\ e.id = id THEN {last} ELSE {})
          /\ DOMAIN events' = DOMAIN events \cup {last} /\ last = Len(events')
          /\ \A i \in DOMAIN events : events'[i] = events[i]
      BY <2>1, <2>2, EventAppended DEF Inductive, TypeOK
    <2> HIDE DEF last
    <2>5. \A i \in DOMAIN events : ~IsClose(i)
      BY <2>1 DEF EventsInv, Closing, Killing
    <2>6. \A i \in DOMAIN events' : IsClose(i)' => i = Len(events')
      BY <2>4, <2>5 DEF IsClose
    <2>7. \A type, id : EventsOf(type, id) \subseteq DOMAIN events
      BY DEF EventsOf
    <2>8. EventsMatchResults'
      BY <2>1, <2>2, <2>3, <2>4, <2>6, <2>7 DEF EventsInv, EventsMatchResults, IsClose
    <2> QED BY <2>1, <2>8 DEF EventsInv
  <1> QED BY <1>1, <1>2, <1>3, NothingTold

\* What notifiers were told is what the result says, for any number of
\* processes and however they end.
THEOREM EventsCorrect == Spec => []EventsMatchResults
  <1>1. Init => EventsInv
    BY DEF Init, EventsInv, EventsMatchResults, EventsOf, IsClose
  <1>2. EventsInv /\ Inductive /\ [Next]_vars => EventsInv'
    BY EventsStep
  <1>3. EventsInv => EventsMatchResults
    BY DEF EventsInv
  <1> QED BY <1>1, <1>2, <1>3, InductiveInvariant, PTL DEF Spec
=============================================================================
