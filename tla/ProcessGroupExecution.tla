------------------------ MODULE ProcessGroupExecution ------------------------
(***************************************************************************)
(* What the execution of a process group promises its owner, without        *)
(* threads, signals and control groups: processes finish one by one with a  *)
(* status; the group is open until a crash that counts, the real time limit *)
(* or the end of every waited-for process closes it; only then are the      *)
(* others terminated by the system, and the report is given when every      *)
(* process has finished.  ProcessGroupStarter implements it.                *)
(***************************************************************************)
EXTENDS Integers, ProcessStatus

CONSTANT Ids    \* the processes of the group

VARIABLES
  waits,    \* the processes the group waits for
  crash,    \* the processes whose crash ends the group
  phase,    \* "open", "closing", "reported" or "failed"
  verdict,  \* completion status of the group
  outcome   \* completion status of each process, "pending" before it finishes

avars == <<waits, crash, phase, verdict, outcome>>

Init ==
  /\ waits \in SUBSET Ids /\ crash \in SUBSET Ids
  /\ phase = "open" /\ verdict = "OK"
  /\ outcome = [id \in Ids |-> "pending"]

\* A process finishes.  While the group is open the system has terminated it
\* only for a limit, which its status then names.
Finish(id, s) ==
  /\ phase \in {"open", "closing"}
  /\ outcome[id] = "pending" /\ s \in CompletionStatus
  /\ phase = "open" => s # "TERMINATED_BY_SYSTEM"
  /\ outcome' = [outcome EXCEPT ![id] = s]
  /\ verdict' = IF verdict = "OK" /\ id \in crash /\ s # "OK"
                  THEN "ABNORMAL_EXIT" ELSE verdict
  /\ UNCHANGED <<waits, crash, phase>>

Expire ==
  /\ phase = "open"
  /\ verdict' = "REAL_TIME_LIMIT_EXCEEDED"
  /\ UNCHANGED <<waits, crash, phase, outcome>>

Close ==
  /\ phase = "open"
  /\ verdict # "OK" \/ \A id \in waits : outcome[id] # "pending"
  /\ phase' = "closing"
  /\ UNCHANGED <<waits, crash, verdict, outcome>>

Report ==
  /\ phase = "closing" /\ \A id \in Ids : outcome[id] # "pending"
  /\ phase' = "reported"
  /\ UNCHANGED <<waits, crash, verdict, outcome>>

\* The group could not be started: no result at all.
Fail ==
  /\ phase = "open" /\ \A id \in Ids : outcome[id] = "pending"
  /\ phase' = "failed"
  /\ UNCHANGED <<waits, crash, verdict, outcome>>

\* A finished process keeps the status it finished with, so s is outcome'[id].
Next ==
  \/ \E id \in Ids : Finish(id, outcome'[id])
  \/ Expire \/ Close \/ Report \/ Fail

Spec == Init /\ [][Next]_avars
=============================================================================
