------------------------------ MODULE WaitUntil ------------------------------
(***************************************************************************)
(* How the control process waits for a child with a timeout: wait() has     *)
(* none, so waitUntil arms an interval timer whose SIGALRM interrupts it.   *)
(* The signal is sent to the process: another thread may take it, it may    *)
(* come before wait() is entered or after it has returned, and one that was *)
(* on its way when the timer was disabled hits a later call.                *)
(***************************************************************************)
EXTENDS Integers

CONSTANT N      \* number of processes of the task

Ids == 0 .. (N - 1)

VARIABLES
  child,    \* kernel: state of each process
  wpc,      \* control point in wait, waitFor and waitUntil
  late,     \* clock: untilPoint has been reached
  timer,    \* kernel: the interval timer is armed
  alarm,    \* kernel: SIGALRM is pending for the process
  rpid      \* what the last wait() returned; from "returned" on, what is returned

\* What can be returned besides a process: 0, and -1 with errno EINTR.
Nothing == -1
Interrupted == -2

waitVars == <<wpc, late, timer, alarm, rpid>>

Unreaped(id) == child[id] \in {"running", "zombie"}

WaitTypeOK ==
  /\ child \in [Ids -> {"none", "running", "zombie", "reaped"}]
  /\ wpc \in {"idle", "enter", "arm", "timedWait", "disable", "check",
             "wait", "again", "returned"}
  /\ late \in BOOLEAN /\ timer \in BOOLEAN /\ alarm \in BOOLEAN
  /\ rpid \in Ids \cup {Nothing, Interrupted}

WaitInit ==
  /\ child = [id \in Ids |-> "none"]
  /\ wpc = "idle" /\ late = FALSE /\ timer = FALSE /\ alarm = FALSE /\ rpid = Nothing

-----------------------------------------------------------------------------
(* The calls of the main thread. *)

\* waitFor(waitInterval): untilPoint is now + duration.
WaitFor ==
  /\ wpc = "idle"
  /\ wpc' = "enter" /\ late' = FALSE /\ rpid' = Nothing
  /\ UNCHANGED <<child, timer, alarm>>

\* wait(): no timeout.
WaitForEver ==
  /\ wpc = "idle"
  /\ wpc' = "wait" /\ rpid' = Nothing
  /\ UNCHANGED <<child, late, timer, alarm>>

\* The first check: the thread may have been held up since waitFor looked.
Enter ==
  /\ wpc = "enter"
  /\ wpc' = IF late THEN "returned" ELSE "arm"
  /\ UNCHANGED <<child, late, timer, alarm, rpid>>

\* untilPoint - now in microseconds, which may be less than one of them; those
\* below, at and above the 10 ms of the resolution.
Remaining == {0, 5000, 10000, 100000}
Resolution == 10000

\* it_value: "too small values are dangerous".
TimerValue(duration) == IF duration < Resolution THEN Resolution ELSE duration

\* IntervalTimer's constructor: setitimer with a zero it_value would disarm.
Arm ==
  /\ wpc = "arm"
  /\ \E duration \in Remaining : timer' = (TimerValue(duration) # 0)
  /\ wpc' = "timedWait"
  /\ UNCHANGED <<child, late, alarm, rpid>>

\* ::wait returns a dead child if there is one, else SIGALRM may interrupt it.
\* It is called with a child to wait for (WaitHasChild of ProcessGroupStarter),
\* so ECHILD is left out.
Waiting == wpc \in {"timedWait", "wait"}
AfterWait == IF wpc = "wait" THEN "again" ELSE "disable"

CollectChild(id) ==
  /\ Waiting /\ child[id] = "zombie"
  /\ child' = [child EXCEPT ![id] = "reaped"]
  /\ rpid' = id /\ wpc' = AfterWait
  /\ UNCHANGED <<late, timer, alarm>>

WaitInterrupted ==
  /\ Waiting /\ alarm /\ \A id \in Ids : child[id] # "zombie"
  /\ alarm' = FALSE /\ rpid' = Interrupted /\ wpc' = AfterWait
  /\ UNCHANGED <<child, late, timer>>

\* ~IntervalTimer, before the clock is looked at again.
Disable ==
  /\ wpc = "disable"
  /\ timer' = FALSE /\ wpc' = "check"
  /\ UNCHANGED <<child, late, alarm, rpid>>

\* Slip: when the time is over nothing is returned.
NothingAtTimeout(r) == Nothing

\* "return rpid > 0 ? rpid : 0".
AtTimeout(r) == IF r \in Ids THEN r ELSE Nothing

\* Slip: an interrupted wait() is taken for the timeout.
ReturnAtOnce(retry) == "returned"

\* "while (rpid < 0 && errno == EINTR)": an interrupted call is made again.
RetryInterrupted(retry) == IF rpid = Interrupted THEN retry ELSE "returned"

\* The two conditions of waitUntil after wait().
Check ==
  /\ wpc = "check"
  /\ IF late
       THEN rpid' = AtTimeout(rpid) /\ wpc' = "returned"
       ELSE wpc' = RetryInterrupted("arm") /\ UNCHANGED rpid
  /\ UNCHANGED <<child, late, timer, alarm>>

\* The loop of wait().
Again ==
  /\ wpc = "again"
  /\ wpc' = RetryInterrupted("wait")
  /\ UNCHANGED <<child, late, timer, alarm, rpid>>

WaitStep ==
  \/ Enter \/ Arm \/ (\E id \in Ids : CollectChild(id)) \/ WaitInterrupted
  \/ Disable \/ Check \/ Again

-----------------------------------------------------------------------------
(* The kernel and the clock. *)

\* Slip: the timer is not repeated ("in case event is missed").
ArmedOnce == FALSE

\* it_interval: the timer goes on every 10 ms until it is disabled.
ArmedAgain == TRUE

TimerExpires ==
  /\ timer
  /\ alarm' = TRUE /\ timer' = ArmedAgain
  /\ UNCHANGED <<child, wpc, late, rpid>>

\* nop runs in another thread, or in this one outside wait().
AlarmIsMissed ==
  /\ alarm
  /\ alarm' = FALSE
  /\ UNCHANGED <<child, wpc, late, timer, rpid>>

UntilPasses ==
  /\ wpc \in {"enter", "arm", "timedWait", "disable", "check"} /\ ~late
  /\ late' = TRUE
  /\ UNCHANGED <<child, wpc, timer, alarm, rpid>>

Clock == TimerExpires \/ AlarmIsMissed \/ UntilPasses

-----------------------------------------------------------------------------
(* Properties. *)

\* What waitFor and wait return is true: a child they return is the one that
\* was reaped, nothing is returned only after untilPoint ("Return 0 if no
\* process has terminated during duration time"), and the timer is off, so no
\* SIGALRM is raised outside the call.
WaitTellsTruth ==
  /\ wpc = "returned" => /\ rpid = Nothing => late
                         /\ rpid \in Ids \cup {Nothing}
  /\ wpc \in {"idle", "returned"} => ~timer

\* waitFor comes back although no child ends, wherever SIGALRM goes.
WaitForReturns == wpc \in {"enter", "arm", "timedWait"} ~> wpc = "returned"
=============================================================================
