---------------------------- MODULE ProcessStatus ----------------------------
(***************************************************************************)
(* How ExecutionMonitor turns what the kernel says about one process (the   *)
(* wait status and the resource counters of its control group) into a       *)
(* process::Result::CompletionStatus.  Pure operators; the machine that     *)
(* uses them is ProcessGroupStarter.                                        *)
(***************************************************************************)

\* process::Result::CompletionStatus, less STOPPED (only ProcessGroup::stop
\* assigns it, on the other side of the container).
CompletionStatus ==
  {"OK", "ABNORMAL_EXIT", "TERMINATED_BY_SYSTEM", "MEMORY_LIMIT_EXCEEDED",
   "TIME_LIMIT_EXCEEDED", "USER_TIME_LIMIT_EXCEEDED",
   "SYSTEM_TIME_LIMIT_EXCEEDED", "OUTPUT_LIMIT_EXCEEDED", "START_FAILED"}

\* process_group::Result::CompletionStatus, again without STOPPED.
GroupStatus == {"OK", "ABNORMAL_EXIT", "REAL_TIME_LIMIT_EXCEEDED"}

\* What statLoc can say: an exit status, zero or not, or a signal.  SIGUSR2
\* is SIG_START_FAILED; "signal" is any signal the monitor does not name.
WaitStatus == {"exit0", "exitN", "SIGKILL", "SIGXFSZ", "SIGUSR2", "signal"}

\* The limits collectResourceInfo compares.
LimitKind == {"time", "user", "system", "memory"}

-----------------------------------------------------------------------------
\* collectResourceInfo: the first exceeded limit in the order of the code
\* becomes the status; with no limit exceeded the status stays as it is.
CollectResourceInfo(status, exceeded) ==
  CASE "time" \in exceeded   -> "TIME_LIMIT_EXCEEDED"
    [] "time" \notin exceeded /\ "user" \in exceeded
                             -> "USER_TIME_LIMIT_EXCEEDED"
    [] {"time", "user"} \cap exceeded = {} /\ "system" \in exceeded
                             -> "SYSTEM_TIME_LIMIT_EXCEEDED"
    [] exceeded = {"memory"} -> "MEMORY_LIMIT_EXCEEDED"
    [] OTHER                 -> status

\* Slip: only a signal is abnormal.
AssignStatusOfSignal(status, exit) ==
  CASE exit = "SIGXFSZ" -> "OUTPUT_LIMIT_EXCEEDED"
    [] exit = "SIGUSR2" -> "START_FAILED"
    [] exit \notin {"SIGXFSZ", "SIGUSR2"} /\ status = "TERMINATED_BY_SYSTEM"
                        -> "TERMINATED_BY_SYSTEM"
    [] OTHER -> IF exit \in {"exit0", "exitN"} THEN "OK" ELSE "ABNORMAL_EXIT"

\* The status after statLoc was assigned: a process already marked
\* TERMINATED_BY_SYSTEM keeps the mark, and the two signals with a meaning
\* of their own override everything.
AssignStatus(status, exit) ==
  CASE exit = "SIGXFSZ" -> "OUTPUT_LIMIT_EXCEEDED"
    [] exit = "SIGUSR2" -> "START_FAILED"
    [] exit \notin {"SIGXFSZ", "SIGUSR2"} /\ status = "TERMINATED_BY_SYSTEM"
                        -> "TERMINATED_BY_SYSTEM"
    [] OTHER            -> IF exit = "exit0" THEN "OK" ELSE "ABNORMAL_EXIT"

\* Slip: the mark TERMINATED_BY_SYSTEM is taken for final.
FinalStatusMarked(status, exit, exceeded) ==
  LET assigned == AssignStatus(status, exit)
  IN  IF assigned \in {"OK", "ABNORMAL_EXIT"}
        THEN CollectResourceInfo(assigned, exceeded)
        ELSE assigned

\* ExecutionMonitor::terminated up to the termination event: the resource
\* counters are looked at only when the wait status did not settle the matter.
FinalStatus(status, exit, exceeded) ==
  LET assigned == AssignStatus(status, exit)
  IN  IF assigned \in {"OK", "ABNORMAL_EXIT", "TERMINATED_BY_SYSTEM"}
        THEN CollectResourceInfo(assigned, exceeded)
        ELSE assigned

\* process::Result::operator bool.
Succeeded(exit, status) == exit = "exit0" /\ status = "OK"
=============================================================================
