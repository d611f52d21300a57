------------------------ MODULE MCProcessGroupStarter ------------------------
(* Instances of ProcessGroupStarter for TLC. *)
EXTENDS ProcessGroupStarterInvariant

NoLimits == {}
NoForkers == {}
CpuLimits == {"time"}
AllCpuLimits == LimitKind \ {"memory"}
NoExits == {}
CleanExit == {"exit0"}
PlainExits == {"exit0", "exitN"}
FirstId == {0}
AllIds == Ids
=============================================================================
