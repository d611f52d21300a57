------------------------- MODULE ProcessGroupStarter -------------------------
(***************************************************************************)
(* The control process: ProcessGroupStarter starts every process of a task, *)
(* watches limits and deaths, kills what is left and reports.  The module   *)
(* interleaves its main thread (constructor and executionLoop, with the     *)
(* ExecutionMonitor and ProcessInfo calls it makes), the memoryUsageLoader  *)
(* thread, the child processes with the tasks they leave in their control   *)
(* groups, the kernel that delivers SIGKILL, and the steady clock.          *)
(***************************************************************************)
EXTENDS Integers, Sequences, ProcessStatus

CONSTANTS
  N,            \* number of processes of the task
  Limits,       \* the CPU limits a process may run out of
  ExitKinds,    \* the ways a process may end by itself
  Forkers,      \* the processes that leave descendants in their control group
  MaxMemory,    \* bound: the largest memory reading
  MemoryLimit   \* memoryLimitBytes, on the same scale

ASSUME NAssumption == N \in Nat
ASSUME LimitsAssumption == Limits \subseteq (LimitKind \ {"memory"})
ASSUME ExitKindsAssumption == ExitKinds \subseteq WaitStatus
ASSUME MemoryAssumption == MaxMemory \in Nat /\ MemoryLimit \in Nat

\* meta.id of the processes: the constructor starts them in this order.
Ids == 0 .. (N - 1)

ASSUME ForkersAssumption == Forkers \subseteq Ids

VARIABLES
  waits,        \* ids with groupWaitsForTermination (the task; never changes)
  crash,        \* ids with terminateGroupOnCrash (the task; never changes)
  pc,           \* control point of the main thread
  cur,          \* the id the main thread is working on
  todo,         \* ids a for loop over running_ has still to visit
  caller,       \* where terminate(id) returns to
  running, terminated, groupWaits,  \* the monitor's sets of ids
  groupStatus,  \* processGroupResult.completionStatus
  status,       \* processResults[id].completionStatus
  events,       \* what the monitor's signals handed to the notifiers, in order
  cgroup,       \* ProcessInfo::controlGroup_: "none", "set" or "unset"
  flag,         \* ProcessInfo::terminated_ (atomic)
  maxMemory,    \* ProcessInfo::maxMemoryUsageBytes_ (atomic)
  lpc, lid, found, sample, expected,   \* the memoryUsageLoader thread
  child,        \* kernel: state of the process with pid_
  exit,         \* kernel: its wait status, once it is a zombie
  sigkill,      \* kernel: SIGKILL is pending for it
  descendants,  \* kernel: other tasks of its control group
  exceeded,     \* kernel: CPU limits its control group's counters are over
  peak,         \* kernel: memory.max_usage of its control group
  expired       \* clock: realTimeLimitPoint_ has been reached

taskVars   == <<waits, crash>>
mainVars   == <<pc, cur, todo, caller>>
setVars    == <<running, terminated, groupWaits>>
resultVars == <<groupStatus, status>>
infoVars   == <<cgroup, flag>>
loaderVars == <<lpc, lid, found, sample, expected>>
childVars  == <<child, exit, sigkill, descendants>>
usageVars  == <<exceeded, peak>>
vars == <<taskVars, mainVars, setVars, resultVars, events, infoVars, maxMemory,
          loaderVars, childVars, usageVars, expired>>

\* What a step of the main thread that only moves on leaves alone, what every
\* step of the loader does, and what every step of a child or the kernel does.
othersThanMain == <<taskVars, setVars, resultVars, events, infoVars, maxMemory,
                    loaderVars, childVars, usageVars, expired>>
othersThanLoader == <<taskVars, mainVars, setVars, resultVars, events, infoVars,
                      childVars, usageVars, expired>>
othersThanChildren == <<taskVars, mainVars, setVars, resultVars, events, infoVars,
                        maxMemory, loaderVars, usageVars, expired>>

-----------------------------------------------------------------------------
MainPoint == {"start", "loop", "scan", "kill", "killCgroup", "mark", "waitFor",
              "reaped", "deadline", "killAll", "collect", "join", "cleanup",
              "unset", "done", "failed"}
Caller == {"none", "scan", "waitFor", "collect", "killAll", "cleanup"}
Event == [type : {"spawn"}, id : Ids]
         \cup [type : {"termination"}, id : Ids, status : CompletionStatus]
         \cup [type : {"close"}]

\* Every variable stays in its type, and the two threads index the ProcessInfos
\* within their bounds.
TypeOK ==
  /\ waits \subseteq Ids /\ crash \subseteq Ids
  /\ pc \in MainPoint /\ cur \in 0 .. N /\ todo \subseteq Ids /\ caller \in Caller
  /\ running \subseteq Ids /\ terminated \subseteq Ids /\ groupWaits \subseteq Ids
  /\ groupStatus \in GroupStatus
  /\ status \in [Ids -> CompletionStatus]
  /\ events \in Seq(Event)
  /\ cgroup \in [Ids -> {"none", "set", "unset"}]
  /\ flag \in [Ids -> BOOLEAN]
  /\ maxMemory \in [Ids -> 0 .. MaxMemory]
  /\ lpc \in {"off", "check", "sample", "cas", "done"}
  /\ lid \in 0 .. N /\ found \in BOOLEAN
  /\ sample \in 0 .. MaxMemory /\ expected \in 0 .. MaxMemory
  /\ child \in [Ids -> {"none", "setup", "running", "zombie", "reaped"}]
  /\ exit \in [Ids -> WaitStatus]
  /\ sigkill \in [Ids -> BOOLEAN]
  /\ descendants \in [Ids -> {"none", "alive", "killed"}]
  /\ exceeded \in [Ids -> SUBSET Limits]
  /\ peak \in [Ids -> 0 .. MaxMemory]
  /\ expired \in BOOLEAN
  /\ pc \in {"kill", "killCgroup", "mark", "reaped", "unset"} => cur \in Ids
  /\ lpc \in {"sample", "cas"} => lid \in Ids

-----------------------------------------------------------------------------
\* ControlGroup::tasks() of an id is not empty.
HasTasks(id) == child[id] = "running" \/ descendants[id] # "none"

\* fillResourceUsage and the comparisons of collectResourceInfo: the limits
\* the readings of an id are over.  The CPU counters come from the control
\* group, memory from what was recorded in the ProcessInfo.
Overrun(id) ==
  exceeded[id] \cup (IF maxMemory[id] > MemoryLimit THEN {"memory"} ELSE {})

\* Slip: the group waits for every process.
GroupIsRunningToTheEnd == groupStatus = "OK" /\ running # {}

ProcessGroupIsRunning == groupStatus = "OK" /\ groupWaits # {}

Init ==
  /\ waits \in SUBSET Ids /\ crash \in SUBSET Ids
  /\ pc = "start" /\ cur = 0 /\ todo = {} /\ caller = "none"
  /\ running = {} /\ terminated = {} /\ groupWaits = {}
  /\ groupStatus = "OK"
  /\ status = [id \in Ids |-> "OK"]
  /\ events = <<>>
  /\ cgroup = [id \in Ids |-> "none"]
  /\ flag = [id \in Ids |-> FALSE]
  /\ maxMemory = [id \in Ids |-> 0]
  /\ lpc = "off" /\ lid = 0 /\ found = FALSE /\ sample = 0 /\ expected = 0
  /\ child = [id \in Ids |-> "none"]
  /\ exit = [id \in Ids |-> "exit0"]
  /\ sigkill = [id \in Ids |-> FALSE]
  /\ descendants = [id \in Ids |-> "none"]
  /\ exceeded = [id \in Ids |-> {}]
  /\ peak = [id \in Ids |-> 0]
  /\ expired = FALSE

-----------------------------------------------------------------------------
(* The constructor. *)

\* Slip: one round too many.
OneMoreToStart == cur <= N

\* The condition of the loop over task.processes.
MoreToStart == cur < N

\* One round of the loop over task.processes: create the control group, fork,
\* remember the pid, ExecutionMonitor::started.
StartProcess ==
  /\ pc = "start" /\ MoreToStart
  /\ cgroup' = [cgroup EXCEPT ![cur] = "set"]
  /\ child' = [child EXCEPT ![cur] = "setup"]
  /\ running' = running \cup {cur}
  /\ groupWaits' = groupWaits \cup ({cur} \cap waits)
  /\ events' = Append(events, [type |-> "spawn", id |-> cur])
  /\ cur' = cur + 1
  /\ UNCHANGED <<taskVars, pc, todo, caller, terminated, resultVars, flag, maxMemory,
                 loaderVars, exit, sigkill, descendants, usageVars, expired>>

\* Creating the control group, resolving descriptors or fork() throws: the
\* stack unwinds, every TerminationGuard kills the tasks of its control group,
\* and the control process ends without a result.  A child that has not
\* attached itself yet is in no control group.
StartFails ==
  /\ pc = "start" /\ cur < N
  /\ pc' = "failed"
  /\ sigkill' = [id \in Ids |-> sigkill[id] \/ child[id] = "running"]
  /\ descendants' = [id \in Ids |->
       IF descendants[id] = "none" THEN "none" ELSE "killed"]
  /\ cgroup' = [id \in Ids |-> IF cgroup[id] = "set" THEN "unset" ELSE cgroup[id]]
  /\ UNCHANGED <<taskVars, cur, todo, caller, setVars, resultVars, events, flag,
                 maxMemory, loaderVars, child, exit, usageVars, expired>>

\* The rest of the constructor (the real time limit starts to run) and the
\* first statement of executionLoop, which creates the loader thread.
StartLoop ==
  /\ pc = "start" /\ cur = N
  /\ pc' = "loop"
  /\ lpc' = "check"
  /\ UNCHANGED <<taskVars, cur, todo, caller, setVars, resultVars, events, infoVars,
                 maxMemory, lid, found, sample, expected, childVars, usageVars, expired>>

-----------------------------------------------------------------------------
(* executionLoop: the waiting loop. *)

GoTo(point) == pc' = point /\ UNCHANGED <<cur, todo, caller, othersThanMain>>

\* terminate(id), to return to point from.
CallTerminate(from, id) == pc' = "kill" /\ cur' = id /\ caller' = from

\* Slip: only the processes the group waits for are checked.
CheckedOfWaited == groupWaits

\* The processes whose limits a round checks.
Checked == running

\* The condition of the while loop; either loop over running_ visits a set
\* that only this thread changes, and not during the loop.
TestGroup ==
  /\ pc = "loop"
  /\ IF ProcessGroupIsRunning THEN pc' = "scan" /\ todo' = Checked
                              ELSE pc' = "killAll" /\ todo' = running
  /\ UNCHANGED <<cur, caller, othersThanMain>>

\* runOutOfResourceLimits(id): the status is assigned even when the process
\* is to be terminated right away.
CheckLimits(id) ==
  /\ pc = "scan" /\ id \in todo
  /\ todo' = todo \ {id}
  /\ status' = [status EXCEPT ![id] = CollectResourceInfo(@, Overrun(id))]
  /\ IF Overrun(id) # {} THEN CallTerminate("scan", id)
                         ELSE UNCHANGED <<pc, cur, caller>>
  /\ UNCHANGED <<taskVars, setVars, groupStatus, events, infoVars, maxMemory,
                 loaderVars, childVars, usageVars, expired>>

CheckLimitsDone == pc = "scan" /\ todo = {} /\ GoTo("waitFor")

\* waitForAnyChild(waitFor): a dead child, or nothing when waitInterval is over.
WaitTimesOut == pc = "waitFor" /\ GoTo("deadline")

\* Slip: the monitor is told at once, without terminate(id).
TellAtOnce == "reaped"

\* What follows wait(): terminate(id).
AfterWait == "kill"

\* waitForAnyChild with either wait function: wait() reaps a child, and
\* terminate(id) follows for the tasks the process may have left behind.
Reap(id) ==
  /\ pc = "waitFor" \/ (pc = "collect" /\ running # {})
  /\ child[id] = "zombie"
  /\ child' = [child EXCEPT ![id] = "reaped"]
  /\ pc' = AfterWait /\ cur' = id /\ caller' = pc
  /\ UNCHANGED <<taskVars, todo, setVars, resultVars, events, infoVars, maxMemory,
                 loaderVars, exit, sigkill, descendants, usageVars, expired>>

\* Slip: notified before the resource counters were looked at.
EarlyTerminationEvent(id, s) ==
  [type |-> "termination", id |-> id, status |-> AssignStatus(status[id], exit[id])]

\* What the monitor's termination signal hands to the notifiers.
TerminationEvent(id, s) == [type |-> "termination", id |-> id, status |-> s]

\* Slips: any crash counts; only the exit status counts; the last crash decides.
GroupCheckOfAll(id, s) ==
  IF groupStatus = "OK" /\ ~Succeeded(exit[id], s) THEN "ABNORMAL_EXIT" ELSE groupStatus
GroupCheckOfExit(id, s) ==
  IF groupStatus = "OK" /\ id \in crash /\ exit[id] # "exit0"
    THEN "ABNORMAL_EXIT" ELSE groupStatus
GroupCheckAgain(id, s) ==
  IF id \in crash /\ ~Succeeded(exit[id], s) THEN "ABNORMAL_EXIT" ELSE groupStatus

\* "group checks": the first crash that counts decides.
GroupCheck(id, s) ==
  IF groupStatus = "OK" /\ id \in crash /\ ~Succeeded(exit[id], s)
    THEN "ABNORMAL_EXIT" ELSE groupStatus

\* Slip: the group goes on waiting for the process.
WaitedForAsBefore(id) == groupWaits

\* groupWaitsForTermination_.erase(id).
WaitedForAfter(id) == groupWaits \ {id}

\* ExecutionMonitor::terminated for the process just reaped.
MonitorTerminated ==
  LET final == FinalStatus(status[cur], exit[cur], Overrun(cur))
  IN
  /\ pc = "reaped"
  /\ running' = running \ {cur} /\ terminated' = terminated \cup {cur}
  /\ groupWaits' = WaitedForAfter(cur)
  /\ status' = [status EXCEPT ![cur] = final]
  /\ events' = Append(events, TerminationEvent(cur, final))
  /\ groupStatus' = GroupCheck(cur, final)
  /\ pc' = IF caller = "waitFor" THEN "deadline" ELSE "collect"
  /\ UNCHANGED <<taskVars, cur, todo, caller, infoVars, maxMemory, loaderVars,
                 childVars, usageVars, expired>>

\* The end of a round: the clock is compared with realTimeLimitPoint_.
CheckDeadline ==
  /\ pc = "deadline"
  /\ groupStatus' = IF expired THEN "REAL_TIME_LIMIT_EXCEEDED" ELSE groupStatus
  /\ pc' = "loop"
  /\ UNCHANGED <<taskVars, cur, todo, caller, setVars, status, events, infoVars,
                 maxMemory, loaderVars, childVars, usageVars, expired>>

-----------------------------------------------------------------------------
(* executionLoop: terminating, collecting and closing. *)

TerminateNext(id) ==
  /\ pc = "killAll" /\ id \in todo
  /\ todo' = todo \ {id}
  /\ CallTerminate("killAll", id)
  /\ UNCHANGED othersThanMain

TerminateDone == pc = "killAll" /\ todo = {} /\ GoTo("collect")

\* No process is left: the close signal, then ioService_.stop().
AllTerminated ==
  /\ pc = "collect" /\ running = {}
  /\ events' = Append(events, [type |-> "close"])
  /\ pc' = "join"
  /\ UNCHANGED <<taskVars, cur, todo, caller, setVars, resultVars, infoVars,
                 maxMemory, loaderVars, childVars, usageVars, expired>>

\* Slip: the control groups are given up without waiting for the loader.
NotJoined == TRUE

\* workers_.join_all() returns when the loader has returned (the io thread
\* returns after the stop).
Joined == lpc = "done"

JoinWorkers ==
  /\ pc = "join" /\ Joined
  /\ pc' = "cleanup" /\ cur' = 0
  /\ UNCHANGED <<todo, caller, othersThanMain>>

\* "is not empty!": the tasks are terminated once more.
CloseNonEmpty ==
  /\ pc = "cleanup" /\ cur < N /\ HasTasks(cur)
  /\ CallTerminate("cleanup", cur)
  /\ UNCHANGED <<todo, othersThanMain>>

UnsetControlGroup ==
  /\ cur < N
  /\ \/ pc = "cleanup" /\ ~HasTasks(cur)
     \/ pc = "unset"
  /\ cgroup' = [cgroup EXCEPT ![cur] = "unset"]
  /\ pc' = "cleanup" /\ cur' = cur + 1
  /\ UNCHANGED <<taskVars, todo, caller, setVars, resultVars, events, flag,
                 maxMemory, loaderVars, childVars, usageVars, expired>>

\* executionLoop returns and the result is handed out.
ReturnResult == pc = "cleanup" /\ cur = N /\ GoTo("done")

-----------------------------------------------------------------------------
(* ProcessInfo::terminate, shared by the three callers. *)

\* Slip: killing by control group is thought to be enough.
KillReachesAttached(id) == child[id] = "running"

\* kill(pid_, SIGKILL) reaches a child that is in no control group yet; a
\* zombie ignores it and for a reaped one ESRCH is tolerated.
KillReaches(id) == child[id] \in {"setup", "running"}

KillPid ==
  /\ pc = "kill"
  /\ sigkill' = [sigkill EXCEPT ![cur] = @ \/ KillReaches(cur)]
  /\ pc' = "killCgroup"
  /\ UNCHANGED <<taskVars, cur, todo, caller, setVars, resultVars, events, infoVars,
                 maxMemory, loaderVars, child, exit, descendants, usageVars, expired>>

\* Slip: only the process itself is killed.
DescendantsSpared(id) == descendants[id]

DescendantsKilled(id) == IF descendants[id] = "alive" THEN "killed" ELSE descendants[id]

\* cgroup::terminate: SIGKILL to every task of the control group.
KillControlGroup ==
  /\ pc = "killCgroup"
  /\ sigkill' = [sigkill EXCEPT ![cur] = @ \/ child[cur] = "running"]
  /\ descendants' = [descendants EXCEPT ![cur] = DescendantsKilled(cur)]
  /\ pc' = "mark"
  /\ UNCHANGED <<taskVars, cur, todo, caller, setVars, resultVars, events, infoVars,
                 maxMemory, loaderVars, child, exit, usageVars, expired>>

\* terminated_ is set and the peak is recorded where nothing was sampled.  The
\* two killing loops then call terminatedBySystem; a reaped process goes to
\* ExecutionMonitor::terminated.
MarkTerminated ==
  /\ pc = "mark"
  /\ flag' = [flag EXCEPT ![cur] = TRUE]
  /\ maxMemory' = [maxMemory EXCEPT ![cur] = IF @ = 0 THEN peak[cur] ELSE @]
  /\ status' = IF caller \in {"scan", "killAll"}
                 THEN [status EXCEPT ![cur] = "TERMINATED_BY_SYSTEM"] ELSE status
  /\ pc' = CASE caller = "scan"    -> "scan"
             [] caller = "killAll" -> "killAll"
             [] caller = "cleanup" -> "unset"
             [] OTHER              -> "reaped"
  /\ UNCHANGED <<taskVars, cur, todo, caller, setVars, groupStatus, events, cgroup,
                 loaderVars, childVars, usageVars, expired>>

MainThread ==
  \/ StartProcess \/ StartFails \/ StartLoop
  \/ TestGroup \/ (\E id \in Ids : CheckLimits(id)) \/ CheckLimitsDone
  \/ WaitTimesOut \/ (\E id \in Ids : Reap(id)) \/ MonitorTerminated \/ CheckDeadline
  \/ (\E id \in Ids : TerminateNext(id)) \/ TerminateDone
  \/ AllTerminated \/ JoinWorkers \/ CloseNonEmpty \/ UnsetControlGroup \/ ReturnResult
  \/ KillPid \/ KillControlGroup \/ MarkTerminated

-----------------------------------------------------------------------------
(* memoryUsageLoader. *)

\* Next process of the round, or the end of the round: one more after the
\* sleep if any process was not terminated.
LoaderNext ==
  /\ lpc = "check"
  /\ IF lid < N
       THEN IF flag[lid]
              THEN lid' = lid + 1 /\ UNCHANGED <<lpc, found>>
              ELSE found' = TRUE /\ lpc' = "sample" /\ UNCHANGED lid
       ELSE /\ lid' = 0 /\ found' = FALSE
            /\ lpc' = IF found THEN "check" ELSE "done"
  /\ UNCHANGED <<maxMemory, sample, expected, othersThanLoader>>

\* memory.stat().at("rss"): anything up to the peak while there are tasks.
LoaderSample ==
  /\ lpc = "sample"
  /\ sample' \in (IF HasTasks(lid) THEN 0 .. peak[lid] ELSE {0})
  /\ expected' = 0
  /\ lpc' = "cas"
  /\ UNCHANGED <<maxMemory, lid, found, othersThanLoader>>

\* Slip: the exchange is a plain store.
StoreFails == FALSE

ExchangeFails == maxMemory[lid] # expected

\* One iteration of updateMaxMemoryUsageBytes: a failed exchange reloads
\* "expected" and tries again.
LoaderExchange ==
  /\ lpc = "cas"
  /\ IF expected < sample /\ ExchangeFails
       THEN expected' = maxMemory[lid] /\ UNCHANGED <<maxMemory, lpc, lid>>
       ELSE /\ maxMemory' = IF expected < sample THEN [maxMemory EXCEPT ![lid] = sample]
                                                 ELSE maxMemory
            /\ lpc' = "check" /\ lid' = lid + 1 /\ UNCHANGED expected
  /\ UNCHANGED <<found, sample, othersThanLoader>>

Loader == LoaderNext \/ LoaderSample \/ LoaderExchange

-----------------------------------------------------------------------------
(* The children, the kernel and the clock. *)

\* startChild has set up descriptors and limits and calls attachSelf.
ChildAttaches(id) ==
  /\ child[id] = "setup" /\ cgroup[id] = "set"
  /\ child' = [child EXCEPT ![id] = "running"]
  /\ UNCHANGED <<exit, sigkill, descendants, othersThanChildren>>

\* Setting up throws before attachSelf or in it: raise(SIG_START_FAILED).
ChildSetUpFails(id) ==
  /\ child[id] = "setup"
  /\ child' = [child EXCEPT ![id] = "zombie"]
  /\ exit' = [exit EXCEPT ![id] = "SIGUSR2"]
  /\ UNCHANGED <<sigkill, descendants, othersThanChildren>>

\* The process ends by itself, before or after exec.  One that is already
\* leaving the kernel's exit path is not stopped by a pending SIGKILL.
ChildExits(id) ==
  /\ child[id] = "running"
  /\ child' = [child EXCEPT ![id] = "zombie"]
  /\ \E e \in ExitKinds : exit' = [exit EXCEPT ![id] = e]
  /\ UNCHANGED <<sigkill, descendants, othersThanChildren>>

ChildForks(id) ==
  /\ id \in Forkers /\ child[id] = "running" /\ ~sigkill[id]
  /\ descendants[id] = "none"
  /\ descendants' = [descendants EXCEPT ![id] = "alive"]
  /\ UNCHANGED <<child, exit, sigkill, othersThanChildren>>

DescendantExits(id) ==
  /\ descendants[id] = "alive"
  /\ descendants' = [descendants EXCEPT ![id] = "none"]
  /\ UNCHANGED <<child, exit, sigkill, othersThanChildren>>

\* The kernel delivers a pending SIGKILL.
ChildDies(id) ==
  /\ child[id] \in {"setup", "running"} /\ sigkill[id]
  /\ child' = [child EXCEPT ![id] = "zombie"]
  /\ exit' = [exit EXCEPT ![id] = "SIGKILL"]
  /\ UNCHANGED <<sigkill, descendants, othersThanChildren>>

DescendantDies(id) ==
  /\ descendants[id] = "killed"
  /\ descendants' = [descendants EXCEPT ![id] = "none"]
  /\ UNCHANGED <<child, exit, sigkill, othersThanChildren>>

\* The control group's CPU counters pass a limit.
UseCpu(id) ==
  /\ HasTasks(id)
  /\ \E l \in Limits \ exceeded[id] :
       exceeded' = [exceeded EXCEPT ![id] = @ \cup {l}]
  /\ UNCHANGED <<taskVars, mainVars, setVars, resultVars, events, infoVars, maxMemory,
                 loaderVars, childVars, peak, expired>>

UseMemory(id) ==
  /\ HasTasks(id) /\ peak[id] < MaxMemory
  /\ peak' = [peak EXCEPT ![id] = @ + 1]
  /\ UNCHANGED <<taskVars, mainVars, setVars, resultVars, events, infoVars, maxMemory,
                 loaderVars, childVars, exceeded, expired>>

\* realTimeLimitPoint_ is set at the end of the constructor and the clock
\* passes it at any later time.
DeadlinePasses ==
  /\ pc \notin {"start", "failed"} /\ ~expired
  /\ expired' = TRUE
  /\ UNCHANGED <<taskVars, mainVars, setVars, resultVars, events, infoVars, maxMemory,
                 loaderVars, childVars, usageVars>>

\* The control process has failed: its container goes down and the kernel
\* kills what is left in it.
ContainerDies ==
  /\ pc = "failed"
  /\ sigkill' = [id \in Ids |-> sigkill[id] \/ child[id] \in {"setup", "running"}]
  /\ descendants' = [id \in Ids |->
       IF descendants[id] = "none" THEN "none" ELSE "killed"]
  /\ UNCHANGED <<child, exit, othersThanChildren>>

Kernel(id) == ChildDies(id) \/ DescendantDies(id)

Children ==
  \E id \in Ids : \/ ChildAttaches(id) \/ ChildSetUpFails(id) \/ ChildExits(id)
                  \/ ChildForks(id) \/ DescendantExits(id)
                  \/ UseCpu(id) \/ UseMemory(id)

Ended == pc \in {"done", "failed"} /\ UNCHANGED vars

Next ==
  \/ MainThread \/ Loader \/ Children \/ (\E id \in Ids : Kernel(id))
  \/ DeadlinePasses \/ ContainerDies \/ Ended

Spec == Init /\ [][Next]_vars

\* Both threads run, SIGKILL is delivered, a container that lost its control
\* process goes down, and a child comes out of startChild.
Fairness ==
  /\ WF_vars(MainThread) /\ WF_vars(Loader) /\ WF_vars(ContainerDies)
  /\ \A id \in Ids : WF_vars(Kernel(id))

\* The clock reaches the real time limit.
TimedSpec == Spec /\ Fairness /\ WF_vars(DeadlinePasses)

\* A real time limit too large to matter: the clock never reaches it.  wait()
\* returns a dead child at once, so a round that ends empty-handed in spite of
\* one has lost the whole waitInterval to the scheduler; that does not go on
\* for ever.
UntimedSpec ==
  Init /\ [][Next /\ ~expired']_vars /\ Fairness /\ SF_vars(\E id \in Ids : Reap(id))

-----------------------------------------------------------------------------
(* Properties. *)

\* The points of the waiting loop, with the calls it makes.
InLoop ==
  \/ pc \in {"loop", "scan", "waitFor", "deadline"}
  \/ pc \in {"kill", "killCgroup", "mark", "reaped"} /\ caller \in {"scan", "waitFor"}

Unreaped(id) == child[id] \in {"setup", "running", "zombie"}

\* The assertions of ExecutionMonitor::terminated and result(): once the
\* constructor is through, running_ and terminated_ partition the ids, the
\* group waits for exactly the waited-for processes that still run, and a
\* process is reported terminated once.
MonitorPartition ==
  pc \notin {"start", "failed"} =>
    /\ running \cap terminated = {} /\ running \cup terminated = Ids
    /\ groupWaits = waits \cap running
    /\ pc = "reaped" => cur \in running

\* "We have child processes": whenever the main thread calls wait(), with or
\* without a timeout, there is a child to wait for, so neither wait function
\* can fail with ECHILD.
WaitHasChild ==
  (pc = "waitFor" \/ (pc = "collect" /\ running # {})) =>
    \E id \in running : Unreaped(id)

\* A process whose result is recorded has been reaped, has its terminated flag
\* set (or the loader would never return) and has left nothing behind that is
\* not being killed, so nothing it started outlives its result.
ReapedIsSilenced ==
  \A id \in terminated :
    child[id] = "reaped" /\ flag[id] /\ descendants[id] # "alive"

\* A process killed for a limit is reported with a limit (or with the signal
\* it died of first), never as TERMINATED_BY_SYSTEM: inside the waiting loop
\* no recorded result has that status.
LimitKillIsReported ==
  InLoop => \A id \in terminated : status[id] # "TERMINATED_BY_SYSTEM"

\* Every recorded status has its evidence: a limit status names a limit the
\* readings are over, a signal status the signal, OK and ABNORMAL_EXIT the wait
\* status; no status of an earlier check of the same process lingers.
StatusIsExplained ==
  \A id \in terminated :
    CASE status[id] = "TIME_LIMIT_EXCEEDED"        -> "time" \in Overrun(id)
      [] status[id] = "USER_TIME_LIMIT_EXCEEDED"   -> "user" \in Overrun(id)
      [] status[id] = "SYSTEM_TIME_LIMIT_EXCEEDED" -> "system" \in Overrun(id)
      [] status[id] = "MEMORY_LIMIT_EXCEEDED"      -> "memory" \in Overrun(id)
      [] status[id] = "OUTPUT_LIMIT_EXCEEDED"      -> exit[id] = "SIGXFSZ"
      [] status[id] = "START_FAILED"               -> exit[id] = "SIGUSR2"
      [] status[id] = "TERMINATED_BY_SYSTEM"       -> ~InLoop
      [] status[id] = "OK"                         -> exit[id] = "exit0"
      [] OTHER -> exit[id] \notin {"exit0", "SIGXFSZ", "SIGUSR2"}

\* What a group result OK promises: every process that may not crash exited
\* with 0 and status OK, and every waited-for process came to its own end.
GroupOkIsEarned ==
  (pc = "done" /\ groupStatus = "OK") =>
    /\ \A id \in crash : Succeeded(exit[id], status[id])
    /\ \A id \in waits : status[id] # "TERMINATED_BY_SYSTEM"

\* ABNORMAL_EXIT has a culprit among the processes whose crash counts.
AbnormalHasCulprit ==
  groupStatus = "ABNORMAL_EXIT" =>
    \E id \in crash \cap terminated : ~Succeeded(exit[id], status[id])

\* Where the notifiers were told of the start or the end of an id.
EventsOf(type, id) == {i \in DOMAIN events : events[i].type = type /\ events[i].id = id}

\* Notifiers learn what the result says: a process that was started has one
\* spawn, one that has a result has one termination after it, with the status
\* of the result; the close comes last, after the termination of every process.
EventsMatchResults ==
  /\ \A id \in Ids :
       /\ cgroup[id] # "none" <=> EventsOf("spawn", id) # {}
       /\ id \in terminated <=> EventsOf("termination", id) # {}
       /\ \A type \in {"spawn", "termination"} : \A i, j \in EventsOf(type, id) : i = j
       /\ \A i \in EventsOf("termination", id) :
            events[i].status = status[id] /\ \E j \in EventsOf("spawn", id) : j < i
  /\ \A i \in DOMAIN events :
       events[i].type = "close" => i = Len(events) /\ terminated = Ids

\* The loader reads a control group only while the ProcessInfo still has one:
\* join_all() comes before unsetControlGroup().
LoaderHasControlGroup == lpc = "sample" => cgroup[lid] = "set"

\* A result is final: a recorded status never changes, REAL_TIME_LIMIT_EXCEEDED
\* is never replaced, and a verdict reached in the loop survives the kill.
ResultIsFinal ==
  [][ /\ \A id \in terminated : status'[id] = status[id]
      /\ groupStatus = "REAL_TIME_LIMIT_EXCEEDED" => groupStatus' = groupStatus
      /\ (~InLoop /\ groupStatus # "OK") => groupStatus' = groupStatus ]_vars

\* The two threads that store maxMemoryUsageBytes_ never lower it and never
\* report more than the control group has used.
MemoryHighWater ==
  [][ \A id \in Ids : maxMemory'[id] >= maxMemory[id] /\ maxMemory'[id] <= peak'[id] ]_vars

\* The control process implements the abstract execution of a group: its loop
\* is the open phase, what follows is the closing one, and a process has
\* finished when ExecutionMonitor::terminated recorded it.
Phase ==
  CASE pc = "done"             -> "reported"
    [] pc = "failed"           -> "failed"
    [] pc = "start" \/ InLoop  -> "open"
    [] OTHER                   -> "closing"

Outcome == [id \in Ids |-> IF id \in terminated THEN status[id] ELSE "pending"]

Execution == INSTANCE ProcessGroupExecution
               WITH phase <- Phase, verdict <- groupStatus, outcome <- Outcome

ImplementsExecution == Execution!Spec

\* The real time limit ends every group: the control process returns and
\* nothing it started keeps running, whether the constructor failed or not.
Termination ==
  <>[]( /\ pc \in {"done", "failed"}
        /\ \A id \in Ids : child[id] \in {"none", "zombie", "reaped"}
                         /\ descendants[id] = "none" )

\* Without help from the clock, a process over a limit is terminated.
LimitsAreEnforced ==
  \A id \in Ids : (id \in running /\ Overrun(id) # {}) ~> (id \in terminated \/ pc = "failed")

\* Without help from the clock, the group is over once every waited-for
\* process has ended, whatever the others do.
GroupEndsWithWaited ==
  (\A id \in waits : child[id] \in {"zombie", "reaped"}) ~> pc \in {"done", "failed"}
=============================================================================
