------------------------- MODULE ProcessGroupProofs -------------------------
(***************************************************************************)
(* Theorems about ProcessGroup, for any set of groups and any bounds.  None *)
(* of the properties is inductive: that a result is final while stop() is   *)
(* under way rests on the group having kept its container, and that results *)
(* match the task on what was sent when the group was started.              *)
(***************************************************************************)
EXTENDS ProcessGroup, SequenceTheorems, TLAPS

\* stop() checks container_ once, and nothing takes it away meanwhile.
StopKeepsContainer == client # "idle" => container[stopping]

\* The task a started group keeps is the one it sent.
TaskIsSent == \A g \in Groups : started[g] => processes[g] = sent[g].processes

Inductive == TypeOK /\ PointersTellState /\ StopKeepsContainer /\ TaskIsSent

\* A step of one group's call, of its lxc-execute, of stop() or of the clock.
LEMMA Steps ==
  ASSUME [Next]_vars
  PROVE  \/ UNCHANGED vars
         \/ \E g \in Groups : CreateProcess(g) \/ AddNotifier(g) \/ SetNotifier(g)
         \/ \E g \in Groups : Start(g)
         \/ \E g \in Groups : Poll(g) \/ Wait(g)
         \/ \E g \in Groups : AskResult(g) \/ StopRefused(g) \/ Stop(g)
         \/ \E g \in Groups : ComesUp(g) \/ ControlEnds(g)
         \/ LxcStops \/ LxcGivesUp \/ LxcStopFails \/ StopReturns \/ GraceEnds
  BY DEF Next

-----------------------------------------------------------------------------
(* Type correctness. *)

LEMMA TypeInit == Init => TypeOK
  <1> SUFFICES ASSUME Init PROVE TypeOK
    OBVIOUS
  <1>1. PICK g \in Groups : answer = [call |-> "none", group |-> g, says |-> "ok"] /\ stopping = g
    BY DEF Init
  <1>2. 0 \in 0 .. MaxProcesses
    BY BoundsAssumption
  <1>3. <<>> \in Seq(PipeEnd)
    OBVIOUS
  <1> QED BY <1>1, <1>2, <1>3 DEF Init, TypeOK, Call, Errors, Result, Task

Saying == Errors \cup Result \cup {"ok", "pending"}
Answer == [call : Call, group : Groups, says : Saying]

\* What a call says is one of the answers.
LEMMA SaysType ==
  ASSUME NEW call \in Call, NEW g \in Groups,
         NEW what \in Saying, Says(call, g, what)
  PROVE  answer' \in Answer
  BY DEF Says, Answer

LEMMA SomeSayings ==
  /\ {"ok", "pending", "NotStarted", "AlreadyStarted", "IllegalSink", "LxcIllegalState",
      "OutOfRange", "ExecuteError", "AlreadyTerminated", "NotTerminated", "UtilityError",
      "ControlProcessError"} \subseteq Saying
  /\ Call \ {"none"} = {"createProcess", "addNotifier", "setNotifier", "start", "stop", "poll",
                        "wait", "result"}
  BY DEF Saying, Errors, Call

LEMMA BuildType ==
  ASSUME TypeOK, NEW g \in Groups, CreateProcess(g) \/ AddNotifier(g) \/ SetNotifier(g)
  PROVE  TypeOK'
  <1>1. CASE CreateProcess(g)
    <2>1. processes' \in [Groups -> 0 .. MaxProcesses]
      <3>1. processes[g] + 1 \in 0 .. MaxProcesses
        BY <1>1, BoundsAssumption DEF CreateProcess, TypeOK
      <3>2. UNCHANGED processes \/ processes' = [processes EXCEPT ![g] = processes[g] + 1]
        BY <1>1 DEF CreateProcess
      <3>3. processes \in [Groups -> 0 .. MaxProcesses]
        BY DEF TypeOK
      <3> QED BY <3>1, <3>2, <3>3
    <2>2. answer' \in Answer
      BY <1>1, SaysType, SomeSayings DEF CreateProcess
    <2> QED BY <1>1, <2>1, <2>2 DEF CreateProcess, TypeOK, Answer, Saying, groupVars, clientVars, lxcVars
  <1>2. CASE AddNotifier(g)
    <2>1. notifiers' \in [Groups -> Seq(PipeEnd)]
      <3>1. PICK end \in PipeEnd : notifiers' = [notifiers EXCEPT ![g] = Append(@, end)]
        BY <1>2 DEF AddNotifier
      <3>2. Append(notifiers[g], end) \in Seq(PipeEnd)
        BY DEF TypeOK
      <3> QED BY <3>1, <3>2 DEF TypeOK
    <2>2. answer' \in Answer
      BY <1>2, SaysType, SomeSayings DEF AddNotifier
    <2> QED BY <1>2, <2>1, <2>2 DEF AddNotifier, TypeOK, Answer, Saying, groupVars, clientVars, lxcVars
  <1>3. CASE SetNotifier(g)
    <2>1. PICK id \in 1 .. (MaxNotifiers + 1), end \in PipeEnd :
            \/ Says("setNotifier", g, "IllegalSink") /\ UNCHANGED notifiers
            \/ Says("setNotifier", g, "OutOfRange") /\ UNCHANGED notifiers
            \/ /\ id \in DOMAIN notifiers[g]
               /\ notifiers' = [notifiers EXCEPT ![g][id] = end]
               /\ Says("setNotifier", g, "ok")
      BY <1>3 DEF SetNotifier
    <2>2. notifiers' \in [Groups -> Seq(PipeEnd)]
      <3>1. notifiers[g] \in Seq(PipeEnd)
        BY DEF TypeOK
      <3>2. id \in DOMAIN notifiers[g] => [notifiers[g] EXCEPT ![id] = end] \in Seq(PipeEnd)
        BY <3>1, ExceptSeq
      <3>3. notifiers \in [Groups -> Seq(PipeEnd)]
        BY DEF TypeOK
      <3>4. \/ UNCHANGED notifiers
            \/ /\ id \in DOMAIN notifiers[g]
               /\ notifiers' = [notifiers EXCEPT ![g] = [notifiers[g] EXCEPT ![id] = end]]
        BY <2>1
      <3> QED BY <3>2, <3>3, <3>4
    <2>3. answer' \in Answer
      BY <2>1, SaysType, SomeSayings
    <2> QED BY <1>3, <2>2, <2>3 DEF SetNotifier, TypeOK, Answer, Saying, groupVars, clientVars, lxcVars
  <1> QED BY <1>1, <1>2, <1>3

LEMMA StartType ==
  ASSUME TypeOK, NEW g \in Groups, Start(g)
  PROVE  TypeOK'
  <1>1. CASE started[g]
    <2>1. answer' \in Answer
      BY <1>1, SaysType, SomeSayings DEF Start
    <2> QED BY <1>1, <2>1 DEF Start, TypeOK, Answer, Saying, taskVars, clientVars
  <1>2. ASSUME ~started[g], NEW why \in {"LxcIllegalState", "ExecuteError"}, Refused(g, why)
        PROVE  TypeOK'
    <2>1. answer' \in Answer
      BY <1>2, SaysType, SomeSayings DEF Refused
    <2> QED BY <1>2, <2>1 DEF Start, Execute, Refused, TypeOK, Answer, Saying, taskVars, clientVars
  <1>3. CASE /\ ~started[g] /\ Says("start", g, "ok")
             /\ proc' = [proc EXCEPT ![g] = "starting"]
             /\ started' = [started EXCEPT ![g] = TRUE]
             /\ sent' = [sent EXCEPT ![g] = [processes |-> processes[g], notifiers |-> notifiers[g]]]
    <2>1. answer' \in Answer
      BY <1>3, SaysType, SomeSayings
    <2>2. [processes |-> processes[g], notifiers |-> notifiers[g]] \in Task
      BY DEF TypeOK, Task
    <2>3. /\ proc' = [proc EXCEPT ![g] = "starting"]
          /\ started' = [started EXCEPT ![g] = TRUE]
          /\ sent' = [sent EXCEPT ![g] = [processes |-> processes[g], notifiers |-> notifiers[g]]]
          /\ inGrace' = TRUE
          /\ UNCHANGED <<taskVars, container, result, clientVars, outcome>>
      BY <1>3 DEF Start, Execute
    <2>4. proc[g] = "none" /\ outcome[g] = "none"
      BY <1>3 DEF TypeOK
    <2>5. sent' \in [Groups -> Task]
      BY <2>2, <2>3 DEF TypeOK
    <2> QED BY <2>1, <2>3, <2>4, <2>5 DEF TypeOK, Answer, Saying, taskVars, clientVars
  <1> QED BY <1>1, <1>2, <1>3 DEF Start, Execute

LEMMA ReadType ==
  ASSUME TypeOK, NEW g \in Groups, Poll(g) \/ Wait(g)
  PROVE  TypeOK'
  <1> DEFINE ReadOK == /\ result' \in [Groups -> Result \cup {"none"}]
                       /\ container' \in [Groups -> BOOLEAN]
                       /\ UNCHANGED started
                       /\ answer' \in Answer
  <1>1. ASSUME NEW call \in Call, ReadResult(g, call) PROVE ReadOK
    <2>1. CASE outcome[g] = "ok"
      <3>1. Says(call, g, "reported") /\ "reported" \in Saying
        BY <1>1, <2>1 DEF ReadResult, Saying, Result
      <3>2. answer' \in Answer
        BY <3>1, SaysType
      <3>3. /\ result' = [result EXCEPT ![g] = "reported"]
            /\ container' = [container EXCEPT ![g] = FALSE]
            /\ UNCHANGED started
        BY <1>1, <2>1 DEF ReadResult
      <3>4. result \in [Groups -> Result \cup {"none"}] /\ container \in [Groups -> BOOLEAN]
        BY DEF TypeOK
      <3> QED BY <3>2, <3>3, <3>4 DEF Result
    <2>2. CASE outcome[g] # "ok"
      <3>1. Says(call, g, "ControlProcessError")
        BY <1>1, <2>2 DEF ReadResult
      <3>2. answer' \in Answer
        BY <3>1, SaysType, SomeSayings
      <3> QED BY <1>1, <2>2, <3>2 DEF ReadResult, TypeOK
    <2> QED BY <2>1, <2>2
  <1>2. ASSUME NEW call \in Call, NEW what \in Saying, Says(call, g, what), UNCHANGED groupVars
        PROVE  ReadOK
    BY <1>2, SaysType DEF TypeOK, groupVars
  <1>3. ASSUME NEW call \in Call, AlreadyKnown(g, call) PROVE ReadOK
    <2>1. PICK what \in Saying : Says(call, g, what)
      BY <1>3, SomeSayings DEF AlreadyKnown, HasResult, TypeOK, Saying
    <2> QED BY <1>2, <1>3, <2>1 DEF AlreadyKnown
  <1>4. ReadOK
    <2>1. CASE Poll(g)
      <3>1. CASE AlreadyKnown(g, "poll")
        BY <1>3, <3>1, SomeSayings
      <3>2. CASE ReadResult(g, "poll")
        BY <1>1, <3>2, SomeSayings
      <3>3. CASE Says("poll", g, "pending") /\ UNCHANGED groupVars
        BY <1>2, <3>3, SomeSayings
      <3> QED BY <2>1, <3>1, <3>2, <3>3 DEF Poll
    <2>2. CASE Wait(g)
      BY <2>2, <1>1, <1>3, SomeSayings DEF Wait
    <2> QED BY <2>1, <2>2
  <1>5. UNCHANGED <<taskVars, sent, clientVars, lxcVars>>
    BY DEF Poll, Wait
  <1> QED BY <1>4, <1>5 DEF TypeOK, Answer, Saying, taskVars, clientVars, lxcVars

LEMMA AskType ==
  ASSUME TypeOK, NEW g \in Groups, AskResult(g) \/ StopRefused(g) \/ Stop(g)
  PROVE  TypeOK'
  <1>1. CASE AskResult(g)
    <2>1. PICK what \in Saying : Says("result", g, what)
      BY <1>1, SomeSayings DEF AskResult, TypeOK, Saying
    <2>2. answer' \in Answer
      BY <2>1, SaysType, SomeSayings DEF Saying
    <2> QED BY <1>1, <2>2 DEF AskResult, TypeOK, Answer, Saying, taskVars, groupVars, clientVars, lxcVars
  <1>2. CASE StopRefused(g)
    <2>1. PICK what \in Saying : Says("stop", g, what)
      BY <1>2, SomeSayings DEF StopRefused
    <2>2. answer' \in Answer
      BY <2>1, SaysType, SomeSayings DEF Saying
    <2> QED BY <1>2, <2>2 DEF StopRefused, TypeOK, Answer, Saying, taskVars, groupVars, clientVars, lxcVars
  <1>3. CASE Stop(g)
    BY <1>3 DEF Stop, TypeOK, Answer, Saying, taskVars, groupVars, lxcVars
  <1> QED BY <1>1, <1>2, <1>3
LEMMA BackgroundType ==
  ASSUME TypeOK,
         \/ \E g \in Groups : ComesUp(g) \/ ControlEnds(g)
         \/ LxcStops \/ LxcGivesUp \/ LxcStopFails \/ StopReturns \/ GraceEnds
  PROVE  TypeOK'
  <1>1. ASSUME NEW g \in Groups, ComesUp(g) PROVE TypeOK'
    <2>1. CASE Stopped
      BY <1>1, <2>1 DEF ComesUp, TypeOK, taskVars, groupVars, clientVars
    <2>2. CASE ~Stopped
      <3>1. /\ proc' = [proc EXCEPT ![g] = "ended"]
            /\ outcome' = [outcome EXCEPT ![g] = "error"]
            /\ proc[g] = "starting"
            /\ UNCHANGED <<taskVars, sent, groupVars, answer, clientVars, inGrace>>
        BY <1>1, <2>2 DEF ComesUp
      <3> QED BY <3>1 DEF TypeOK, taskVars, groupVars, clientVars
    <2> QED BY <2>1, <2>2
  <1>2. ASSUME NEW g \in Groups, ControlEnds(g) PROVE TypeOK'
    BY <1>2 DEF ControlEnds, TypeOK, taskVars, groupVars, clientVars
  <1>3. CASE LxcStops
    BY <1>3 DEF LxcStops, TypeOK, taskVars, groupVars
  <1>4. CASE LxcGivesUp
    BY <1>4 DEF LxcGivesUp, TypeOK, taskVars, groupVars, lxcVars
  <1>5. CASE LxcStopFails
    <2>1. stopping \in Groups
      BY DEF TypeOK
    <2>2. answer' \in Answer
      BY <1>5, <2>1, SaysType, SomeSayings DEF LxcStopFails
    <2> QED BY <1>5, <2>2 DEF LxcStopFails, TypeOK, Answer, Saying, taskVars, groupVars, lxcVars
  <1>6. CASE StopReturns
    <2>1. stopping \in Groups
      BY DEF TypeOK
    <2>2. answer' \in Answer
      BY <1>6, <2>1, SaysType, SomeSayings DEF StopReturns
    <2> QED BY <1>6, <2>2 DEF StopReturns, TypeOK, Answer, Saying, Result, taskVars, lxcVars
  <1>7. CASE GraceEnds
    BY <1>7 DEF GraceEnds, TypeOK, taskVars, groupVars, clientVars
  <1> QED BY <1>1, <1>2, <1>3, <1>4, <1>5, <1>6, <1>7

LEMMA TypeStep == TypeOK /\ [Next]_vars => TypeOK'
  <1> SUFFICES ASSUME TypeOK, [Next]_vars PROVE TypeOK'
    OBVIOUS
  <1>1. CASE UNCHANGED vars
    BY <1>1 DEF vars, TypeOK, taskVars, groupVars, clientVars, lxcVars
  <1> QED BY <1>1, BuildType, StartType, ReadType, AskType, BackgroundType, Steps

-----------------------------------------------------------------------------
(* The strengthening, one part at a time. *)

\* Which steps give a group a result: the end of a poll() or wait() that finds
\* its control process ended, or the end of a stop().
LEMMA ResultSteps ==
  ASSUME [Next]_vars
  PROVE  \/ UNCHANGED <<container, result>>
         \/ \E g \in Groups :
              /\ client = "idle" /\ UNCHANGED <<client, stopping, started, proc>>
              /\ started[g] /\ proc[g] = "ended" /\ outcome[g] = "ok"
              /\ ~HasResult(g)
              /\ result' = [result EXCEPT ![g] = "reported"]
              /\ container' = [container EXCEPT ![g] = FALSE]
         \/ StopReturns
  <1>1. CASE \E g \in Groups : Poll(g) \/ Wait(g)
    BY <1>1 DEF Poll, Wait, AlreadyKnown, StillOpen, ReadResult, groupVars, clientVars, lxcVars
  <1>2. CASE ~ \E g \in Groups : Poll(g) \/ Wait(g)
    BY <1>2, Steps DEF vars, CreateProcess, AddNotifier, SetNotifier, Start, AskResult, StopRefused,
         Stop, ComesUp, ControlEnds, LxcStops, LxcGivesUp, LxcStopFails, GraceEnds, groupVars
  <1> QED BY <1>1, <1>2

\* A group that was started stays so, and what has ended does not come back.
LEMMA StartedStays ==
  ASSUME TypeOK, [Next]_vars, NEW g \in Groups, started[g]
  PROVE  started'[g] /\ (proc[g] = "ended" => proc'[g] = "ended")
  <1>1. proc[g] # "none"
    BY DEF TypeOK
  <1>2. CASE \E h \in Groups : Start(h)
    <2>1. PICK h \in Groups : Start(h)
      BY <1>2
    <2>2. CASE started[h]
      BY <2>1, <2>2 DEF Start
    <2>3. CASE /\ ~started[h] /\ proc' = [proc EXCEPT ![h] = "starting"]
               /\ started' = [started EXCEPT ![h] = TRUE]
      BY <2>1, <2>3 DEF TypeOK
    <2>4. CASE UNCHANGED <<started, proc>>
      BY <2>4
    <2> QED BY <2>1, <2>2, <2>3, <2>4 DEF Start, Execute, Refused
  <1>3. CASE \E h \in Groups : Poll(h) \/ Wait(h)
    BY <1>3 DEF Poll, Wait, AlreadyKnown, ReadResult, groupVars, lxcVars
  <1>4. CASE \E h \in Groups : ComesUp(h) \/ ControlEnds(h)
    BY <1>4 DEF ComesUp, ControlEnds, groupVars, TypeOK
  <1>5. CASE LxcStops
    BY <1>5 DEF LxcStops, groupVars, TypeOK
  <1>6. CASE UNCHANGED <<started, proc>>
    BY <1>6
  <1> QED BY <1>2, <1>3, <1>4, <1>5, <1>6, Steps DEF vars, CreateProcess, AddNotifier, SetNotifier,
        AskResult, StopRefused, Stop, LxcGivesUp, LxcStopFails, StopReturns, GraceEnds,
        groupVars, lxcVars

LEMMA PointersStep == TypeOK /\ PointersTellState /\ [Next]_vars => PointersTellState'
  <1> SUFFICES ASSUME TypeOK, PointersTellState, [Next]_vars, NEW g \in Groups
               PROVE  /\ container'[g] <=> result'[g] = "none"
                      /\ ~container'[g] => started'[g] /\ proc'[g] = "ended"
    BY DEF PointersTellState
  <1>1. CASE UNCHANGED <<container, result>>
    BY <1>1, StartedStays DEF PointersTellState
  <1>2. ASSUME NEW h \in Groups,
               UNCHANGED <<started, proc>>, started[h], proc[h] = "ended",
               result' = [result EXCEPT ![h] = "reported"],
               container' = [container EXCEPT ![h] = FALSE]
        PROVE  /\ container'[g] <=> result'[g] = "none"
               /\ ~container'[g] => started'[g] /\ proc'[g] = "ended"
    BY <1>2 DEF PointersTellState, TypeOK
  <1>3. CASE StopReturns
    <2>1. proc[stopping] = "ended" /\ started[stopping] /\ stopping \in Groups
      BY <1>3 DEF StopReturns, ControlProcessEnded, TypeOK
    <2> QED BY <1>3, <2>1 DEF StopReturns, PointersTellState, TypeOK, lxcVars
  <1> QED BY <1>1, <1>2, <1>3, ResultSteps

LEMMA StopStep == TypeOK /\ StopKeepsContainer /\ [Next]_vars => StopKeepsContainer'
  <1> SUFFICES ASSUME TypeOK, StopKeepsContainer, [Next]_vars, client' # "idle"
               PROVE  container'[stopping']
    BY DEF StopKeepsContainer
  <1>1. CASE \E g \in Groups : Stop(g)
    BY <1>1 DEF Stop, groupVars
  <1>2. ASSUME ~ \E g \in Groups : Stop(g)
        PROVE  UNCHANGED stopping /\ client # "idle"
    BY <1>2, Steps DEF vars, CreateProcess, AddNotifier, SetNotifier, Start, Poll, Wait,
         AskResult, StopRefused, ComesUp, ControlEnds, LxcStops, LxcGivesUp, LxcStopFails,
         StopReturns, GraceEnds, clientVars
  <1>3. client # "idle" => UNCHANGED container
    BY ResultSteps DEF StopReturns
  <1> QED BY <1>1, <1>2, <1>3 DEF StopKeepsContainer

LEMMA TaskStep == TypeOK /\ TaskIsSent /\ [Next]_vars => TaskIsSent'
  <1> SUFFICES ASSUME TypeOK, TaskIsSent, [Next]_vars, NEW g \in Groups, started'[g]
               PROVE  processes'[g] = sent'[g].processes
    BY DEF TaskIsSent
  <1>1. ASSUME NEW h \in Groups, CreateProcess(h) PROVE processes'[g] = sent'[g].processes
    <2>1. started[g] /\ UNCHANGED sent
      BY <1>1 DEF CreateProcess, groupVars
    <2>2. processes'[g] = processes[g]
      <3>1. CASE started[h]
        BY <1>1, <3>1 DEF CreateProcess, TaskIsClosed
      <3>2. CASE ~started[h]
        BY <1>1, <2>1, <3>2 DEF CreateProcess, TaskIsClosed, TypeOK
      <3> QED BY <3>1, <3>2
    <2> QED BY <2>1, <2>2 DEF TaskIsSent
  <1>2. ASSUME NEW h \in Groups, Start(h) PROVE processes'[g] = sent'[g].processes
    <2>1. CASE /\ started' = [started EXCEPT ![h] = TRUE]
               /\ sent' = [sent EXCEPT ![h] =
                    [processes |-> processes[h], notifiers |-> notifiers[h]]]
      <3>1. /\ UNCHANGED processes
            /\ started' = [started EXCEPT ![h] = TRUE]
            /\ sent' = [sent EXCEPT ![h] =
                 [processes |-> processes[h], notifiers |-> notifiers[h]]]
        BY <1>2, <2>1 DEF Start, taskVars
      <3>2. sent \in [Groups -> Task] /\ started \in [Groups -> BOOLEAN]
        BY DEF TypeOK
      <3>3. g # h => started[g] /\ sent'[g] = sent[g]
        BY <3>1, <3>2
      <3>4. sent'[h].processes = processes[h]
        BY <3>1, <3>2
      <3> QED BY <3>1, <3>3, <3>4 DEF TaskIsSent
    <2>2. CASE UNCHANGED <<started, sent>>
      BY <1>2, <2>2 DEF Start, TaskIsSent, taskVars
    <2> QED BY <1>2, <2>1, <2>2 DEF Start, Execute, Refused
  <1>3. CASE UNCHANGED <<processes, sent, started>>
    BY <1>3 DEF TaskIsSent
  <1> QED BY <1>1, <1>2, <1>3, Steps DEF vars, AddNotifier, SetNotifier, Poll, Wait, AlreadyKnown,
        ReadResult, AskResult, StopRefused, Stop, ComesUp, ControlEnds, LxcStops, LxcGivesUp,
        LxcStopFails, StopReturns, GraceEnds, taskVars, groupVars

-----------------------------------------------------------------------------
(* The theorems. *)

\* The variables of a client's group have the types its calls expect.
THEOREM TypeCorrect == Spec => []TypeOK
  BY TypeInit, TypeStep, PTL DEF Spec

\* The strengthening holds in every state of every client.
THEOREM InductiveInvariant == Spec => []Inductive
  <1>1. Init => Inductive
    <2> SUFFICES ASSUME Init PROVE Inductive
      OBVIOUS
    <2>1. TypeOK
      BY TypeInit
    <2> QED BY <2>1 DEF Init, Inductive, PointersTellState, StopKeepsContainer, TaskIsSent
  <1>2. Inductive /\ [Next]_vars => Inductive'
    BY TypeStep, PointersStep, StopStep, TaskStep DEF Inductive
  <1> QED BY <1>1, <1>2, PTL DEF Spec

\* container_, processGroup_ and result_ tell the state of a group as
\* ProcessGroup.hpp says they do, for any number of groups in one container.
THEOREM PointersCorrect == Spec => []PointersTellState
  <1>1. Inductive => PointersTellState
    BY DEF Inductive
  <1> QED BY <1>1, InductiveInvariant, PTL

\* The assertion of processResult(): a group has a result for each process.
THEOREM ResultsCorrect == Spec => []ResultsMatchTask
  <1>1. Inductive => ResultsMatchTask
    BY DEF Inductive, TypeOK, PointersTellState, TaskIsSent, ResultsMatchTask
  <1> QED BY <1>1, InductiveInvariant, PTL

\* No call, not even a stop() that overlaps the end of the group, changes a
\* result that was given.
THEOREM AnswersCorrect == Spec => AnswersAreFinal
  <1>1. Inductive /\ [Next]_vars =>
          [\A g \in Groups : result[g] # "none" => result'[g] = result[g]]_vars
    <2> SUFFICES ASSUME Inductive, [Next]_vars, NEW g \in Groups, result[g] # "none"
                 PROVE  result'[g] = result[g]
      OBVIOUS
    <2>1. CASE UNCHANGED result
      BY <2>1
    <2>2. ASSUME NEW h \in Groups, ~HasResult(h), result' = [result EXCEPT ![h] = "reported"]
          PROVE  result'[g] = result[g]
      BY <2>2 DEF HasResult, Inductive, TypeOK
    <2>3. CASE StopReturns
      <3>1. result[stopping] = "none"
        BY <2>3 DEF StopReturns, Inductive, StopKeepsContainer, PointersTellState, TypeOK
      <3> QED BY <2>3, <3>1 DEF StopReturns, Inductive, TypeOK
    <2> QED BY <2>1, <2>2, <2>3, ResultSteps
  <1> QED BY <1>1, InductiveInvariant, PTL DEF Spec, AnswersAreFinal
=============================================================================
