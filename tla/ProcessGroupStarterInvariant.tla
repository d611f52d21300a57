-------------------- MODULE ProcessGroupStarterInvariant --------------------
(***************************************************************************)
(* The inductive strengthening of the safety invariants of                  *)
(* ProcessGroupStarter, in named parts.                                     *)
(***************************************************************************)
EXTENDS ProcessGroupStarter

\* The main thread is inside terminate(id), called from c.
Killing(c) == pc \in {"kill", "killCgroup", "mark"} /\ caller = c

\* The main thread has reaped cur and not yet told the monitor.
Reaping == pc = "reaped" \/ Killing("waitFor") \/ Killing("collect")

Closing == pc \in {"cleanup", "unset", "done"} \/ Killing("cleanup")

\* The id sets of the monitor at every control point.
SetsInv ==
  /\ running \cap terminated = {}
  /\ groupWaits = waits \cap running
  /\ pc = "start" => running = 0 .. (cur - 1) /\ terminated = {}
  /\ pc = "failed" => terminated = {}
  /\ pc \notin {"start", "failed"} => running \cup terminated = Ids
  /\ pc \in {"kill", "killCgroup", "mark"} => caller # "none"
  /\ pc = "reaped" => caller \in {"waitFor", "collect"}
  /\ pc \in {"scan", "killAll"} \/ Killing("scan") \/ Killing("killAll") \/ todo = {}
  /\ todo \subseteq running
  /\ (Killing("scan") \/ Killing("killAll") \/ Reaping) => cur \in running
  /\ (pc \in {"scan", "waitFor"} \/ Killing("scan")) => running # {}
  /\ (pc = "join" \/ Closing) => running = {}

\* A child is reaped exactly when its result is recorded or about to be.
ChildInv ==
  \A id \in Ids :
    /\ child[id] = "none" <=> id \notin running \cup terminated
    /\ child[id] = "reaped" <=> (id \in terminated \/ (Reaping /\ id = cur))

\* Where TERMINATED_BY_SYSTEM can stand, and what a verdict rests on.
VerdictInv ==
  /\ pc = "start" => groupStatus = "OK" /\ \A id \in Ids : status[id] = "OK"
  /\ groupStatus = "OK" => \A id \in crash \cap terminated : Succeeded(exit[id], status[id])
  /\ AbnormalHasCulprit
  /\ LimitKillIsReported
  /\ InLoop => \A id \in running : status[id] = "TERMINATED_BY_SYSTEM" => Overrun(id) # {}
  /\ Killing("scan") => Overrun(cur) # {}
  /\ (pc \notin {"start", "failed"} /\ ~InLoop /\ groupStatus = "OK") =>
       groupWaits = {} /\ \A id \in waits : status[id] # "TERMINATED_BY_SYSTEM"

\* What a reaped process leaves in its control group has been killed.
SilenceInv ==
  /\ ReapedIsSilenced
  /\ (Reaping /\ pc \in {"mark", "reaped"}) => descendants[cur] # "alive"
  /\ pc = "reaped" => flag[cur]

\* The loader runs only between the two ends of the control groups' life.
LoaderInv ==
  /\ pc \in {"start", "failed"} => lpc = "off"
  /\ pc = "start" => \A id \in running : cgroup[id] = "set"
  /\ Closing => lpc = "done"
  /\ (pc \notin {"start", "failed"} /\ ~Closing) => \A id \in Ids : cgroup[id] = "set"

\* The inductive invariant.
Inductive == TypeOK /\ SetsInv /\ ChildInv /\ VerdictInv /\ SilenceInv /\ LoaderInv
=============================================================================
