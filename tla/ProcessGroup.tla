---------------------------- MODULE ProcessGroup ----------------------------
(***************************************************************************)
(* The client's side: process groups that share one container.  A client    *)
(* builds tasks, starts groups, and asks for their results; starting a      *)
(* group starts lxc-execute, which comes up, runs the control process and   *)
(* ends in its own time.  One thread makes all the calls (Lxc::execute_     *)
(* says it is not thread-safe); a blocked wait() is a disabled Wait.        *)
(***************************************************************************)
EXTENDS Integers, Sequences

CONSTANTS
  Groups,         \* process groups of the container
  MaxProcesses,   \* bound: processes of a task
  MaxNotifiers    \* bound: notifiers of a task

ASSUME BoundsAssumption == MaxProcesses \in Nat /\ MaxNotifiers \in Nat

VARIABLES
  processes,   \* task_.processes.size()
  notifiers,   \* task_.notifiers: the pipe end of each
  sent,        \* the task as serialised for the control process
  started,     \* processGroup_ is valid
  container,   \* container_ is not null
  result,      \* result_
  answer,      \* the last call of the client and how it ended
  client,      \* "idle", or where a stop() is
  stopping,    \* the group whose stop() it is
  inGrace,     \* Lxc: less than 200 ms since lastStart_
  proc,        \* lxc-execute of a group: "none", "starting", "running", "ended"
  outcome      \* how its control process ended

taskVars == <<processes, notifiers>>
groupVars == <<started, container, result>>
clientVars == <<client, stopping>>
lxcVars == <<inGrace, proc, outcome>>
vars == <<taskVars, sent, groupVars, answer, clientVars, lxcVars>>

-----------------------------------------------------------------------------
PipeEnd == {"READ", "WRITE"}
Task == [processes : 0 .. MaxProcesses, notifiers : Seq(PipeEnd)]

\* The calls, and what they can say: a value or the error they throw.
Call == {"none", "createProcess", "addNotifier", "setNotifier", "start", "stop",
         "poll", "wait", "result"}
Errors == {"AlreadyStarted", "NotStarted", "AlreadyTerminated", "NotTerminated",
           "IllegalSink", "OutOfRange", "LxcIllegalState", "ExecuteError", "UtilityError",
           "ControlProcessError"}
Result == {"reported", "STOPPED"}

TypeOK ==
  /\ processes \in [Groups -> 0 .. MaxProcesses]
  /\ notifiers \in [Groups -> Seq(PipeEnd)]
  /\ sent \in [Groups -> Task]
  /\ started \in [Groups -> BOOLEAN] /\ container \in [Groups -> BOOLEAN]
  /\ result \in [Groups -> Result \cup {"none"}]
  /\ answer \in [call : Call, group : Groups, says : Errors \cup Result \cup {"ok", "pending"}]
  /\ client \in {"idle", "killing", "waiting"} /\ stopping \in Groups
  /\ inGrace \in BOOLEAN
  /\ proc \in [Groups -> {"none", "starting", "running", "ended"}]
  /\ outcome \in [Groups -> {"none", "ok", "error"}]
  /\ \A g \in Groups : /\ proc[g] = "ended" <=> outcome[g] # "none"
                       /\ proc[g] = "none" <=> ~started[g]

Says(call, g, what) == answer' = [call |-> call, group |-> g, says |-> what]

\* container_->state(): lxc-execute that is still starting does not show.
Stopped == \A g \in Groups : proc[g] # "running"

Init ==
  /\ processes = [g \in Groups |-> 0] /\ notifiers = [g \in Groups |-> <<>>]
  /\ sent = [g \in Groups |-> [processes |-> 0, notifiers |-> <<>>]]
  /\ started = [g \in Groups |-> FALSE] /\ container = [g \in Groups |-> TRUE]
  /\ result = [g \in Groups |-> "none"]
  /\ \E g \in Groups : answer = [call |-> "none", group |-> g, says |-> "ok"] /\ stopping = g
  /\ client = "idle"
  /\ inGrace = TRUE
  /\ proc = [g \in Groups |-> "none"] /\ outcome = [g \in Groups |-> "none"]

-----------------------------------------------------------------------------
(* Building the task. *)

\* Slip: a process can be added to a group that was started.
NeverClosed(g) == FALSE

\* BOOST_THROW_EXCEPTION(ProcessGroupIllegalStateError): the task was sent.
TaskIsClosed(g) == started[g]

CreateProcess(g) ==
  /\ client = "idle" /\ processes[g] < MaxProcesses
  /\ IF TaskIsClosed(g)
       THEN Says("createProcess", g, "AlreadyStarted") /\ UNCHANGED processes
       ELSE /\ processes' = [processes EXCEPT ![g] = @ + 1]
            /\ Says("createProcess", g, "ok")
  /\ UNCHANGED <<notifiers, sent, groupVars, clientVars, lxcVars>>

\* addNotifier looks neither at the end nor at whether the group was started.
AddNotifier(g) ==
  /\ client = "idle" /\ Len(notifiers[g]) < MaxNotifiers
  /\ \E end \in PipeEnd : notifiers' = [notifiers EXCEPT ![g] = Append(@, end)]
  /\ Says("addNotifier", g, "ok")
  /\ UNCHANGED <<processes, sent, groupVars, clientVars, lxcVars>>

\* setNotifier looks at the end first, then at the id.
SetNotifier(g) ==
  /\ client = "idle"
  /\ \E id \in 1 .. (MaxNotifiers + 1), end \in PipeEnd :
       \/ end # "WRITE" /\ Says("setNotifier", g, "IllegalSink") /\ UNCHANGED notifiers
       \/ /\ end = "WRITE" /\ id \notin DOMAIN notifiers[g]
          /\ Says("setNotifier", g, "OutOfRange") /\ UNCHANGED notifiers
       \/ /\ end = "WRITE" /\ id \in DOMAIN notifiers[g]
          /\ notifiers' = [notifiers EXCEPT ![g][id] = end]
          /\ Says("setNotifier", g, "ok")
  /\ UNCHANGED <<processes, sent, groupVars, clientVars, lxcVars>>

-----------------------------------------------------------------------------
(* Starting and asking. *)

\* Slip: the group counts as started although its container refused.
RefusedLate(g, why) ==
  /\ Says("start", g, why) /\ UNCHANGED <<sent, proc>>
  /\ started' = [started EXCEPT ![g] = TRUE]

\* An error leaves start() before processGroup_ is assigned.
Refused(g, why) == Says("start", g, why) /\ UNCHANGED <<started, sent, proc>>

\* Container::execute down to Lxc::execute_: lastStart_ is set first, then the
\* state is looked at, then lxc-execute is started; nobody waits for it to come
\* up.  Asking for the state and starting lxc-execute may throw.
Execute(g) ==
  /\ inGrace' = TRUE
  /\ \/ /\ Stopped
        /\ proc' = [proc EXCEPT ![g] = "starting"]
        /\ started' = [started EXCEPT ![g] = TRUE]
        /\ sent' = [sent EXCEPT ![g] = [processes |-> processes[g], notifiers |-> notifiers[g]]]
        /\ Says("start", g, "ok")
     \/ ~Stopped /\ Refused(g, "LxcIllegalState")
     \/ Refused(g, "ExecuteError")

Start(g) ==
  /\ client = "idle"
  /\ IF started[g]
       THEN Says("start", g, "AlreadyStarted") /\ UNCHANGED <<started, sent, inGrace, proc>>
       ELSE Execute(g)
  /\ UNCHANGED <<taskVars, container, result, clientVars, outcome>>

\* AsyncProcessGroup::readResult once the control process has ended, and
\* container_.reset() where there is a result: the rest of poll() and wait().
ReadResult(g, call) ==
  /\ IF outcome[g] = "ok"
       THEN /\ result' = [result EXCEPT ![g] = "reported"]
            /\ container' = [container EXCEPT ![g] = FALSE]
            /\ Says(call, g, "reported")
       ELSE Says(call, g, "ControlProcessError") /\ UNCHANGED <<result, container>>
  /\ UNCHANGED started

\* Slip: the result is read without looking whether there is one already.
NoResultYet(g) == FALSE

HasResult(g) == result[g] # "none"

\* What poll() and wait() say of a group that was not started, or is done with.
AlreadyKnown(g, call) ==
  /\ \/ ~started[g] /\ Says(call, g, "NotStarted")
     \/ started[g] /\ HasResult(g) /\ Says(call, g, result[g])
  /\ UNCHANGED groupVars

StillOpen(g) == started[g] /\ ~HasResult(g)

Poll(g) ==
  /\ client = "idle"
  /\ \/ AlreadyKnown(g, "poll")
     \/ StillOpen(g) /\ proc[g] = "ended" /\ ReadResult(g, "poll")
     \/ /\ StillOpen(g) /\ proc[g] # "ended"
        /\ Says("poll", g, "pending") /\ UNCHANGED groupVars
  /\ UNCHANGED <<taskVars, sent, clientVars, lxcVars>>

Wait(g) ==
  /\ client = "idle"
  /\ \/ AlreadyKnown(g, "wait")
     \/ StillOpen(g) /\ proc[g] = "ended" /\ ReadResult(g, "wait")
  /\ UNCHANGED <<taskVars, sent, clientVars, lxcVars>>

\* result() of a group and of a process: without a result, container_ decides
\* which error is thrown.
AskResult(g) ==
  /\ client = "idle"
  /\ \/ result[g] # "none" /\ Says("result", g, result[g])
     \/ result[g] = "none" /\ Says("result", g, IF container[g] THEN "NotStarted"
                                                                ELSE "NotTerminated")
  /\ UNCHANGED <<taskVars, sent, groupVars, clientVars, lxcVars>>

-----------------------------------------------------------------------------
(* stop(): container_->stop(), then wait(), then everything is STOPPED. *)

StopRefused(g) ==
  /\ client = "idle" /\ (~started[g] \/ ~container[g])
  /\ Says("stop", g, IF ~started[g] THEN "NotStarted" ELSE "AlreadyTerminated")
  /\ UNCHANGED <<taskVars, sent, groupVars, clientVars, lxcVars>>

Stop(g) ==
  /\ client = "idle" /\ started[g] /\ container[g]
  /\ client' = "killing" /\ stopping' = g
  /\ UNCHANGED <<taskVars, sent, groupVars, answer, lxcVars>>

\* lxc-stop --kill succeeds: whatever runs in the container is killed.
LxcStops ==
  /\ client = "killing" /\ ~Stopped
  /\ proc' = [g \in Groups |-> IF proc[g] = "running" THEN "ended" ELSE proc[g]]
  /\ outcome' = [g \in Groups |-> IF proc[g] = "running" THEN "error" ELSE outcome[g]]
  /\ client' = "waiting"
  /\ UNCHANGED <<taskVars, sent, groupVars, answer, stopping, inGrace>>

\* "is not running, nothing to be stopped": tried again while the last start
\* is less than 200 ms ago, then given up without an error.
LxcGivesUp ==
  /\ client = "killing" /\ Stopped /\ ~inGrace
  /\ client' = "waiting"
  /\ UNCHANGED <<taskVars, sent, groupVars, answer, stopping, lxcVars>>

\* lxc-stop fails otherwise: UtilityError leaves stop(), the group is as before.
LxcStopFails ==
  /\ client = "killing"
  /\ client' = "idle" /\ Says("stop", stopping, "UtilityError")
  /\ UNCHANGED <<taskVars, sent, groupVars, stopping, lxcVars>>

\* Slip: stop() returns without waiting for the control process.
NotWaitedFor == TRUE

\* wait() of the AsyncProcessGroup blocks until lxc-execute has ended.
ControlProcessEnded == proc[stopping] = "ended"

\* wait() returns or throws the control process's error, which is dropped; a
\* result it may have brought is replaced.
StopReturns ==
  /\ client = "waiting" /\ ControlProcessEnded
  /\ client' = "idle" /\ Says("stop", stopping, "ok")
  /\ container' = [container EXCEPT ![stopping] = FALSE]
  /\ result' = [result EXCEPT ![stopping] = "STOPPED"]
  /\ UNCHANGED <<taskVars, sent, started, stopping, lxcVars>>

-----------------------------------------------------------------------------
(* lxc-execute, the control process and the clock. *)

\* lxc-execute comes up, or fails because the container is running already.
ComesUp(g) ==
  /\ proc[g] = "starting"
  /\ IF Stopped
       THEN proc' = [proc EXCEPT ![g] = "running"] /\ UNCHANGED outcome
       ELSE /\ proc' = [proc EXCEPT ![g] = "ended"]
            /\ outcome' = [outcome EXCEPT ![g] = "error"]
  /\ UNCHANGED <<taskVars, sent, groupVars, answer, clientVars, inGrace>>

\* The control process writes its result or fails; it always does when a
\* notifier's pipe end is not for writing (an assertion of its constructor).
ControlEnds(g) ==
  /\ proc[g] = "running"
  /\ proc' = [proc EXCEPT ![g] = "ended"]
  /\ \E o \in {"ok", "error"} :
       /\ (\E i \in DOMAIN sent[g].notifiers : sent[g].notifiers[i] = "READ") => o = "error"
       /\ outcome' = [outcome EXCEPT ![g] = o]
  /\ UNCHANGED <<taskVars, sent, groupVars, answer, clientVars, inGrace>>

GraceEnds ==
  /\ inGrace
  /\ inGrace' = FALSE
  /\ UNCHANGED <<taskVars, sent, groupVars, answer, clientVars, proc, outcome>>

Next ==
  \/ \E g \in Groups :
       \/ CreateProcess(g) \/ AddNotifier(g) \/ SetNotifier(g)
       \/ Start(g) \/ Poll(g) \/ Wait(g) \/ AskResult(g) \/ StopRefused(g) \/ Stop(g)
       \/ ComesUp(g) \/ ControlEnds(g)
  \/ LxcStops \/ LxcGivesUp \/ LxcStopFails \/ StopReturns \/ GraceEnds

Spec == Init /\ [][Next]_vars

-----------------------------------------------------------------------------
(* Properties that hold. *)

\* "If pointer is null process group has terminated", "if processGroup_ is not
\* valid ProcessGroup was not started": at every step, those of a stop() included,
\* a group without its container has a result, and the control process it was
\* started with is gone.  (What stop() does once its wait() is over is one step.)
PointersTellState ==
  \A g \in Groups :
    /\ container[g] <=> result[g] = "none"
    /\ ~container[g] => started[g] /\ proc[g] = "ended"

\* The assertion of processResult(): the results a group got are those of the
\* processes it has, although the task is kept and could grow after start().
ResultsMatchTask ==
  \A g \in Groups : result[g] # "none" => processes[g] = sent[g].processes

\* A result a call has returned is the result every later call returns, and a
\* group that was stopped is never reported.
AnswersAreFinal ==
  [][ \A g \in Groups : result[g] # "none" => result'[g] = result[g] ]_vars

-----------------------------------------------------------------------------
(* What the headers say and the code does not do. *)

\* ProcessGroup.hpp on start(): "It is not possible to start multiple process
\* groups, associated with the same container."
OneGroupAtATime ==
  \A g, h \in Groups :
    (g # h /\ proc[g] \in {"starting", "running"}) => proc[h] \notin {"starting", "running"}

\* ProcessGroup.hpp on stop(): "Stop all processes, started by process group",
\* "This function kills all associated processes and controlling process": once
\* lxc-stop is done with, none of the group's runs, and those of another group
\* were left alone.
StopsItsProcesses ==
  [][ client' = "waiting" =>
        /\ proc'[stopping] # "running"
        /\ client = "killing" => \A g \in Groups \ {stopping} : proc'[g] = proc[g] ]_vars
=============================================================================
