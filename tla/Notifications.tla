---------------------------- MODULE Notifications ----------------------------
(***************************************************************************)
(* How a process of the group learns what happens to the others.  The main  *)
(* thread of the control process starts the processes, waits for them       *)
(* (WaitUntil) and emits an event for each start and each end; its io       *)
(* thread writes the events to the notifier's pipe; process 0 of the group  *)
(* reads them there with the library's Notifier (NotifierClient).  Limits   *)
(* and verdicts are ProcessGroupStarter's and left out here.                *)
(***************************************************************************)
EXTENDS WaitUntil, NotifierClient, SequencesExt

CONSTANT Capacity   \* bound: events the pipe can hold

ASSUME SizesAssumption == N \in Nat \ {0} /\ Capacity \in Nat \ {0}

Reader == 0

VARIABLES
  pc,        \* control point of the main thread
  next,      \* the id the constructor starts next
  over,      \* the group need not run any more (its deadline, a crash, ...)
  emitted,   \* events handed to the writer, in order
  written,   \* how many of them the io thread is done with
  ioThread,  \* ioService_.run(): "running", "stopping", "returned"
  ownReadEnd,  \* the control process still holds the pipe's read end
  sigpipe    \* what SIGPIPE does: "kills" or "ignored"

mainVars == <<pc, next, over, emitted>>
ioVars == <<written, ioThread>>
pipeVars == <<pipe, writeEnd>>
vars == <<child, waitVars, pipe, writeEnd, clientVars, mainVars, ioVars, ownReadEnd, sigpipe>>

Spawn(id) == [type |-> "spawn", id |-> id]
Termination(id) == [type |-> "termination", id |-> id]
CloseEvent == [type |-> "close"]

Gone == pc \in {"done", "failed", "killed"}

TypeOK ==
  /\ WaitTypeOK /\ ClientTypeOK
  /\ pc \in {"start", "clearPipes", "signals", "loop", "collect", "stop", "join",
             "done", "failed", "killed", "hung"}
  /\ next \in 0 .. N /\ over \in BOOLEAN
  /\ written \in 0 .. Len(emitted) /\ Len(emitted) <= 2 * N + 1
  /\ Len(pipe) <= Capacity
  /\ ioThread \in {"running", "stopping", "returned"}
  /\ ownReadEnd \in BOOLEAN /\ sigpipe \in {"kills", "ignored"}

Init ==
  /\ WaitInit /\ ClientInit
  /\ pc = "start" /\ next = 0 /\ over = FALSE /\ emitted = <<>>
  /\ written = 0 /\ ioThread = "running"
  /\ ownReadEnd = TRUE /\ sigpipe = "kills"

-----------------------------------------------------------------------------
(* The main thread: constructor. *)

\* Slip: off by one.
OneMoreToStart == next <= N

\* id < task.processes.size().
MoreToStart == next < N

\* A process starts and its spawn event is posted to the writer.
StartProcess ==
  /\ pc = "start" /\ MoreToStart
  /\ child' = [child EXCEPT ![next] = "running"]
  /\ emitted' = Append(emitted, Spawn(next))
  /\ next' = next + 1
  /\ UNCHANGED <<waitVars, pipeVars, clientVars, pc, over, ioVars, ownReadEnd, sigpipe>>

Started ==
  /\ pc = "start" /\ ~MoreToStart
  /\ pc' = "clearPipes"
  /\ UNCHANGED <<child, waitVars, pipeVars, clientVars, next, over, emitted, ioVars,
                 ownReadEnd, sigpipe>>

\* pipes_.clear(): from here on only the reader holds a read end, ...
ClearPipes ==
  /\ pc = "clearPipes"
  /\ ownReadEnd' = FALSE /\ pc' = "signals"
  /\ UNCHANGED <<child, waitVars, pipeVars, clientVars, next, over, emitted, ioVars, sigpipe>>

\* Slip: SIGPIPE keeps its default disposition.
SigpipeKept == "kills"

\* act.sa_handler = SIG_IGN.
SigpipeHandler == "ignored"

\* ... and only from here on a reader that is gone is an error to be logged.
SetUpSignals ==
  /\ pc = "signals"
  /\ sigpipe' = SigpipeHandler /\ pc' = "loop"
  /\ UNCHANGED <<child, waitVars, pipeVars, clientVars, next, over, emitted, ioVars, ownReadEnd>>

-----------------------------------------------------------------------------
(* The main thread: executionLoop. *)

Told(id) == \E i \in DOMAIN emitted : emitted[i] = Termination(id)
Running == {id \in Ids : ~Told(id)}

\* One round of the loop, entered while the group has to run.
LoopWaits ==
  /\ pc = "loop" /\ ~over /\ Running # {} /\ WaitFor
  /\ UNCHANGED <<pipeVars, clientVars, mainVars, ioVars, ownReadEnd, sigpipe>>

\* The group is over: what still runs is killed.
LeaveLoop ==
  /\ pc = "loop" /\ wpc = "idle" /\ (over \/ Running = {})
  /\ pc' = "collect"
  /\ UNCHANGED <<child, waitVars, pipeVars, clientVars, next, over, emitted, ioVars,
                 ownReadEnd, sigpipe>>

\* Slip: what is left is not collected.
LeftUncollected == {}

\* while (monitor_.processesAreRunning()).
ToCollect == Running

CollectWaits ==
  /\ pc = "collect" /\ ToCollect # {} /\ WaitForEver
  /\ UNCHANGED <<pipeVars, clientVars, mainVars, ioVars, ownReadEnd, sigpipe>>

Waits ==
  /\ WaitStep
  /\ UNCHANGED <<pipeVars, clientVars, mainVars, ioVars, ownReadEnd, sigpipe>>

\* The rest of waitForAnyChild: the termination event of a child that ended.
WaitReturned ==
  /\ pc \in {"loop", "collect"} /\ wpc = "returned"
  /\ wpc' = "idle"
  /\ emitted' = IF rpid \in Ids THEN Append(emitted, Termination(rpid)) ELSE emitted
  /\ UNCHANGED <<child, late, timer, alarm, rpid, pipeVars, clientVars, pc, next, over,
                 ioVars, ownReadEnd, sigpipe>>

\* allTerminated() closes the writers.
AllTerminated ==
  /\ pc = "collect" /\ wpc = "idle" /\ ToCollect = {}
  /\ emitted' = Append(emitted, CloseEvent)
  /\ pc' = "stop"
  /\ UNCHANGED <<child, waitVars, pipeVars, clientVars, next, over, ioVars, ownReadEnd, sigpipe>>

\* ioService_.stop(): run() returns after the handler it is in.
StopIoService ==
  /\ pc = "stop"
  /\ ioThread' = "stopping" /\ pc' = "join"
  /\ UNCHANGED <<child, waitVars, pipeVars, clientVars, next, over, emitted, written,
                 ownReadEnd, sigpipe>>

\* join_all(), the result, and the end of the control process.
JoinWorkers ==
  /\ pc = "join" /\ ioThread = "returned"
  /\ pc' = "done" /\ writeEnd' = FALSE
  /\ UNCHANGED <<child, waitVars, pipe, clientVars, next, over, emitted, ioVars,
                 ownReadEnd, sigpipe>>

\* A control group that cannot be read, or an allocation: an exception leaves
\* executionLoop with the threads running ("FIXME need to execute this block
\* regardless of exceptions").  The io service is destroyed under its thread,
\* so the control process may fail as main() would have it, crash or hang.
LoopThrows ==
  /\ pc \in {"loop", "collect"} /\ wpc = "idle"
  /\ pc' \in {"failed", "hung"}
  /\ writeEnd' = (pc' = "hung")
  /\ ioThread' = "returned"
  /\ UNCHANGED <<child, waitVars, pipe, clientVars, next, over, emitted, written,
                 ownReadEnd, sigpipe>>

Main ==
  \/ StartProcess \/ Started \/ ClearPipes \/ SetUpSignals
  \/ LoopWaits \/ LeaveLoop \/ CollectWaits \/ Waits \/ WaitReturned
  \/ AllTerminated \/ StopIoService \/ JoinWorkers

-----------------------------------------------------------------------------
(* The io thread. *)

NextEvent == emitted[written + 1]
HasReader == ownReadEnd \/ child[Reader] = "running"

\* One event is written when the pipe has room for it.
WriteEvent ==
  /\ NextEvent # CloseEvent /\ HasReader /\ Len(pipe) < Capacity
  /\ pipe' = Append(pipe, NextEvent)
  /\ UNCHANGED <<writeEnd, pc, ioThread>>

\* Nobody can read: EPIPE is logged, or SIGPIPE kills the control process.
WriteFails ==
  /\ NextEvent # CloseEvent /\ ~HasReader
  /\ IF sigpipe = "kills"
       THEN pc' = "killed" /\ ioThread' = "returned" /\ writeEnd' = FALSE
       ELSE UNCHANGED <<pc, ioThread, writeEnd>>
  /\ UNCHANGED pipe

WriteClose ==
  /\ NextEvent = CloseEvent
  /\ writeEnd' = FALSE
  /\ UNCHANGED <<pipe, pc, ioThread>>

IoWrites ==
  /\ ioThread = "running" /\ written < Len(emitted) /\ ~Gone
  /\ WriteEvent \/ WriteFails \/ WriteClose
  /\ written' = written + 1
  /\ UNCHANGED <<child, waitVars, clientVars, next, over, emitted, ownReadEnd, sigpipe>>

\* Slip: without work_ the thread has nothing to do once the queue is empty.
OutOfWork == written = Len(emitted)

\* work_ keeps run() from returning before stop().
RunReturns == ioThread = "stopping"

IoReturns ==
  /\ ioThread # "returned" /\ RunReturns
  /\ ioThread' = "returned"
  /\ UNCHANGED <<child, waitVars, pipeVars, clientVars, mainVars, written, ownReadEnd, sigpipe>>

-----------------------------------------------------------------------------
(* The processes, the clock, and the reader. *)

ProcessEnds(id) ==
  /\ child[id] = "running"
  /\ child' = [child EXCEPT ![id] = "zombie"]
  /\ UNCHANGED <<waitVars, pipeVars, clientVars, mainVars, ioVars, ownReadEnd, sigpipe>>

\* A process that was killed, by LeaveLoop or with its container.
Killed(id) == (pc = "collect" \/ Gone) /\ ProcessEnds(id)

\* The deadline, or a crash or the end of the last waited-for process, which is
\* ProcessGroupStarter's to tell.
GroupIsOver ==
  /\ pc = "loop" /\ ~over
  /\ over' = TRUE
  /\ UNCHANGED <<child, waitVars, pipeVars, clientVars, pc, next, emitted, ioVars,
                 ownReadEnd, sigpipe>>

Ticks ==
  /\ ~Gone /\ pc # "hung" /\ Clock
  /\ UNCHANGED <<pipeVars, clientVars, mainVars, ioVars, ownReadEnd, sigpipe>>

Reads(A) ==
  /\ child[Reader] = "running" /\ A
  /\ UNCHANGED <<child, waitVars, mainVars, ioVars, ownReadEnd, sigpipe>>

Ended == (Gone \/ pc = "hung") /\ UNCHANGED vars

Next ==
  \/ Main \/ LoopThrows \/ IoWrites \/ IoReturns
  \/ (\E id \in Ids : ProcessEnds(id)) \/ GroupIsOver \/ Ticks \/ Reads(Client) \/ Ended

\* Threads run, the clock goes on, what was killed dies, and the reader's
\* io_service is run; not every SIGALRM is missed.  A group need never be over.
Spec ==
  /\ Init /\ [][Next]_vars
  /\ WF_vars(Main) /\ WF_vars(IoWrites) /\ WF_vars(IoReturns)
  /\ WF_vars(Ticks /\ timer /\ ~alarm) /\ WF_vars(Ticks /\ late')
  /\ SF_vars(Waits /\ alarm /\ ~alarm')
  /\ \A id \in Ids : WF_vars(Killed(id))
  /\ WF_vars(Reads(IoService))

-----------------------------------------------------------------------------
(* Properties. *)

\* The reader's slots are called with the events in the order they happened,
\* none twice and none left out, though three threads and a buffer that is used
\* again for every read are between them.
DeliveredInOrder == IsPrefix(delivered, emitted)

\* A process that was reaped has its termination told, and only such a process:
\* no death is lost between wait() and the timer.
EveryDeathIsTold ==
  (pc \in {"loop", "collect", "stop", "join", "done"} /\ wpc = "idle") =>
    \A id \in Ids : child[id] = "reaped" <=> Told(id)

\* stop() abandons what is still queued, and by then nobody could have read it:
\* the reader is a process of the group and has been collected.
AbandonedUnheard == ioThread # "running" /\ pc # "hung" /\ ~Gone => child[Reader] = "reaped"

\* While the group runs, every event reaches the reader's slots, unless the
\* reader has ended or stopped reading, or the control process itself is gone.
EventsReachReader ==
  pc = "loop" ~> \/ delivered = emitted
                 \/ child[Reader] # "running" \/ ~open \/ (~reading /\ strand = <<>>)
                 \/ Gone \/ pc = "hung"

\* Once the group is over no reader can keep the control process from its
\* result: neither one that is gone nor one that leaves the pipe full.
ReachesResult == (pc = "loop" /\ (over \/ Running = {})) ~> pc \in {"done", "failed", "hung"}
=============================================================================
