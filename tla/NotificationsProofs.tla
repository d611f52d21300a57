------------------------- MODULE NotificationsProofs -------------------------
(***************************************************************************)
(* Theorems about Notifications, for any number of processes and any        *)
(* capacity of the pipe: waitFor and wait tell the truth, and every death   *)
(* is told to the notifiers.  Both rest on what rpid is at each control     *)
(* point of waitUntil: a child that was reaped but not told yet is held     *)
(* there and nowhere else, whatever SIGALRM and the clock do in between.    *)
(***************************************************************************)
EXTENDS Notifications, FiniteSetTheorems, TLAPS

WaitStates == {"idle", "enter", "arm", "timedWait", "disable", "check", "wait", "again", "returned"}

\* Where a child that wait() returned may still be held.
Holding == {"disable", "check", "again", "returned"}

\* The timer runs only around the wait() it is to interrupt, and rpid is the
\* answer of a wait() once there has been one.
WaitInv ==
  /\ wpc \in WaitStates
  /\ timer => wpc \in {"timedWait", "disable"}
  /\ wpc = "enter" => rpid = Nothing
  /\ wpc \in {"disable", "check", "again"} => rpid \in Ids \cup {Interrupted}
  /\ wpc = "returned" => /\ rpid \in Ids \cup {Nothing}
                         /\ rpid = Nothing => late

Event == {Spawn(id) : id \in Ids} \cup {Termination(id) : id \in Ids} \cup {CloseEvent}

\* The main thread is in waitUntil only in the loops of executionLoop.
PlaceInv ==
  /\ wpc # "idle" => pc \in {"loop", "collect"}
  /\ sigpipe = "kills" => pc \in {"start", "clearPipes", "signals", "killed"}
  /\ sigpipe \in {"kills", "ignored"}
  /\ next \in 0 .. N

\* A child is reaped exactly when its death was told or is about to be.
DeathInv ==
  /\ emitted \in Seq(Event)
  /\ child \in [Ids -> {"none", "running", "zombie", "reaped"}]
  /\ \A id \in Ids : id >= next => child[id] = "none"
  /\ \A id \in Ids : child[id] = "reaped" <=> (Told(id) \/ (wpc \in Holding /\ rpid = id))

Inductive == WaitInv /\ PlaceInv /\ DeathInv

-----------------------------------------------------------------------------
(* What is told. *)

LEMMA EventsDiffer ==
  ASSUME NEW id, NEW x
  PROVE  /\ Spawn(x) # Termination(id)
         /\ CloseEvent # Termination(id)
         /\ Termination(x) = Termination(id) <=> x = id
  <1>1. Spawn(x).type = "spawn" /\ Termination(id).type = "termination" /\ CloseEvent.type = "close"
    BY DEF Spawn, Termination, CloseEvent
  <1>2. Termination(x).id = x /\ Termination(id).id = id
    BY DEF Termination
  <1> QED BY <1>1, <1>2

LEMMA ToldAppend ==
  ASSUME emitted \in Seq(Event), NEW e \in Event, emitted' = Append(emitted, e), NEW id
  PROVE  /\ emitted' \in Seq(Event)
         /\ Told(id)' <=> Told(id) \/ e = Termination(id)
  <1>1. /\ emitted' \in Seq(Event)
        /\ DOMAIN emitted = 1 .. Len(emitted)
        /\ DOMAIN emitted' = 1 .. (Len(emitted) + 1)
        /\ \A i \in 1 .. Len(emitted) : emitted'[i] = emitted[i]
        /\ emitted'[Len(emitted) + 1] = e
        /\ Len(emitted) \in Nat
    OBVIOUS
  <1>2. ASSUME Told(id) PROVE Told(id)'
    BY <1>1, <1>2 DEF Told
  <1>3. ASSUME e = Termination(id) PROVE Told(id)'
    BY <1>1, <1>3 DEF Told
  <1>4. ASSUME Told(id)', e # Termination(id) PROVE Told(id)
    <2>1. PICK i \in DOMAIN emitted' : emitted'[i] = Termination(id)
      BY <1>4 DEF Told
    <2>2. i \in 1 .. Len(emitted)
      BY <1>1, <1>4, <2>1
    <2> QED BY <1>1, <2>1, <2>2 DEF Told
  <1> QED BY <1>1, <1>2, <1>3, <1>4

LEMMA ToldUnchanged ==
  ASSUME UNCHANGED emitted, NEW id
  PROVE  Told(id)' <=> Told(id)
  BY DEF Told

LEMMA IdsAreNaturals == /\ Ids \subseteq Nat /\ Nothing \notin Ids /\ Interrupted \notin Ids
                        /\ Nothing # Interrupted
                        /\ \A n \in 0 .. N : n < N => n \in Ids /\ n + 1 \in 0 .. N
  BY SizesAssumption DEF Ids, Nothing, Interrupted

-----------------------------------------------------------------------------
(* The steps. *)

\* What a step of the reader, of the io thread, of the clock or of the group's
\* fate leaves alone.
MainAlone == UNCHANGED <<child, next, emitted>>

LEMMA WaitPartStep ==
  ASSUME Inductive, WaitStep, UNCHANGED <<pipeVars, clientVars, mainVars, ioVars, ownReadEnd, sigpipe>>
  PROVE  Inductive'
  <1> USE IdsAreNaturals
  <1>0. UNCHANGED <<pc, next, emitted, sigpipe>>
    BY DEF mainVars
  <1>t. \A id : Told(id)' <=> Told(id)
    BY <1>0, ToldUnchanged
  <1>1. CASE Enter
    BY <1>0, <1>t, <1>1 DEF Enter, Inductive, WaitInv, WaitStates, PlaceInv, DeathInv, Holding
  <1>2. CASE Arm
    BY <1>0, <1>t, <1>2 DEF Arm, Inductive, WaitInv, WaitStates, PlaceInv, DeathInv, Holding
  <1>3. ASSUME NEW id \in Ids, CollectChild(id) PROVE Inductive'
    <2>1. /\ wpc \in {"timedWait", "wait"} /\ wpc' \in {"again", "disable"}
          /\ wpc' = "again" => wpc = "wait"
          /\ child[id] = "zombie" /\ child' = [child EXCEPT ![id] = "reaped"]
          /\ rpid' = id /\ UNCHANGED <<late, timer, alarm>>
      BY <1>3 DEF CollectChild, Waiting, AfterWait
    <2>2. WaitInv' /\ PlaceInv'
      BY <1>0, <2>1 DEF Inductive, WaitInv, WaitStates, PlaceInv
    <2>3. DeathInv'
      BY <1>0, <1>t, <2>1 DEF Inductive, DeathInv, Holding
    <2> QED BY <2>2, <2>3 DEF Inductive
  <1>4. CASE WaitInterrupted
    BY <1>0, <1>t, <1>4 DEF WaitInterrupted, Waiting, AfterWait, Inductive, WaitInv, WaitStates,
       PlaceInv, DeathInv, Holding
  <1>5. CASE Disable
    BY <1>0, <1>t, <1>5 DEF Disable, Inductive, WaitInv, WaitStates, PlaceInv, DeathInv, Holding
  <1>6. CASE Check
    BY <1>0, <1>t, <1>6 DEF Check, AtTimeout, RetryInterrupted, Inductive, WaitInv, WaitStates,
       PlaceInv, DeathInv, Holding
  <1>7. CASE Again
    BY <1>0, <1>t, <1>7 DEF Again, RetryInterrupted, Inductive, WaitInv, WaitStates,
       PlaceInv, DeathInv, Holding
  <1> QED BY <1>1, <1>2, <1>3, <1>4, <1>5, <1>6, <1>7 DEF WaitStep

LEMMA MainStep ==
  ASSUME Inductive, Main
  PROVE  Inductive'
  <1> USE IdsAreNaturals
  <1>1. CASE StartProcess
    <2>1. /\ pc = "start" /\ next < N /\ wpc = "idle" /\ next \in Ids /\ next' = next + 1
          /\ UNCHANGED <<waitVars, pc, sigpipe>>
          /\ child' = [child EXCEPT ![next] = "running"]
          /\ emitted' = Append(emitted, Spawn(next))
      BY <1>1 DEF StartProcess, MoreToStart, Inductive, PlaceInv
    <2>e. Spawn(next) \in Event /\ emitted \in Seq(Event)
      BY <2>1 DEF Inductive, DeathInv, Event
    <2>2. \A id : Told(id)' <=> Told(id)
      BY <2>1, <2>e, ToldAppend, EventsDiffer
    <2>3. emitted' \in Seq(Event)
      BY <2>1, <2>e, ToldAppend
    <2>4. DeathInv'
      BY <2>1, <2>2, <2>3 DEF Inductive, DeathInv, Holding, waitVars
    <2> QED BY <2>1, <2>4 DEF Inductive, WaitInv, PlaceInv, waitVars
  <1>2. CASE Started \/ ClearPipes \/ SetUpSignals \/ LeaveLoop \/ StopIoService \/ JoinWorkers
    <2>1. /\ wpc = "idle" /\ UNCHANGED <<child, waitVars, next, emitted>>
          /\ sigpipe' = "kills" => sigpipe = "kills" /\ pc' \in {"start", "clearPipes", "signals"}
          /\ sigpipe' \in {"kills", "ignored"}
      BY <1>2 DEF Started, ClearPipes, SetUpSignals, SigpipeHandler, LeaveLoop, StopIoService,
         JoinWorkers, Inductive, PlaceInv
    <2>2. \A id : Told(id)' <=> Told(id)
      BY <2>1, ToldUnchanged
    <2> QED BY <2>1, <2>2 DEF Inductive, WaitInv, PlaceInv, DeathInv, Holding, waitVars
  <1>3. CASE LoopWaits \/ CollectWaits
    <2>1. /\ wpc = "idle" /\ pc \in {"loop", "collect"} /\ rpid' = Nothing
          /\ wpc' \in {"enter", "wait"}
          /\ UNCHANGED <<child, timer, pc, next, emitted, sigpipe>>
      BY <1>3 DEF LoopWaits, CollectWaits, WaitFor, WaitForEver, mainVars
    <2>2. \A id : Told(id)' <=> Told(id)
      BY <2>1, ToldUnchanged
    <2> QED BY <2>1, <2>2 DEF Inductive, WaitInv, WaitStates, PlaceInv, DeathInv, Holding
  <1>4. CASE Waits
    BY <1>4, WaitPartStep DEF Waits
  <1>5. CASE WaitReturned
    <2>1. /\ wpc = "returned" /\ wpc' = "idle" /\ pc \in {"loop", "collect"}
          /\ UNCHANGED <<child, late, timer, rpid, pc, next, sigpipe>>
      BY <1>5 DEF WaitReturned
    <2>2. CASE rpid \in Ids
      <3>1. emitted' = Append(emitted, Termination(rpid)) /\ Termination(rpid) \in Event
        BY <1>5, <2>2 DEF WaitReturned, Event
      <3>2. emitted' \in Seq(Event) /\ \A id : Told(id)' <=> Told(id) \/ rpid = id
        BY <3>1, ToldAppend, EventsDiffer DEF Inductive, DeathInv
      <3> QED BY <2>1, <3>2 DEF Inductive, WaitInv, WaitStates, PlaceInv, DeathInv, Holding
    <2>3. CASE rpid \notin Ids
      <3>1. UNCHANGED emitted
        BY <1>5, <2>3 DEF WaitReturned
      <3>2. \A id : Told(id)' <=> Told(id)
        BY <3>1, ToldUnchanged
      <3> QED BY <2>1, <2>3, <3>1, <3>2 DEF Inductive, WaitInv, WaitStates, PlaceInv, DeathInv, Holding
    <2> QED BY <2>2, <2>3
  <1>6. CASE AllTerminated
    <2>1. /\ wpc = "idle" /\ pc = "collect" /\ pc' = "stop"
          /\ UNCHANGED <<child, waitVars, next, sigpipe>>
          /\ emitted' = Append(emitted, CloseEvent) /\ CloseEvent \in Event
      BY <1>6 DEF AllTerminated, Event
    <2>2. emitted' \in Seq(Event) /\ \A id : Told(id)' <=> Told(id)
      BY <2>1, ToldAppend, EventsDiffer DEF Inductive, DeathInv
    <2> QED BY <2>1, <2>2 DEF Inductive, WaitInv, PlaceInv, DeathInv, Holding, waitVars
  <1> QED BY <1>1, <1>2, <1>3, <1>4, <1>5, <1>6 DEF Main

LEMMA OtherStep ==
  ASSUME Inductive,
         \/ LoopThrows \/ IoWrites \/ IoReturns
         \/ (\E id \in Ids : ProcessEnds(id)) \/ GroupIsOver \/ Ticks \/ Reads(Client) \/ UNCHANGED vars
  PROVE  Inductive'
  <1> USE IdsAreNaturals
  <1>1. UNCHANGED <<wpc, rpid, next, emitted, sigpipe>>
    BY DEF LoopThrows, IoWrites, IoReturns, ProcessEnds, GroupIsOver, Ticks, Clock, TimerExpires,
       AlarmIsMissed, UntilPasses, Reads, vars, waitVars, mainVars
  <1>2. \A id : Told(id)' <=> Told(id)
    BY <1>1, ToldUnchanged
  <1>3. /\ child' \in [Ids -> {"none", "running", "zombie", "reaped"}]
        /\ \A id \in Ids : /\ child[id] = "reaped" <=> child'[id] = "reaped"
                           /\ child[id] = "none" => child'[id] = "none"
    <2>1. CASE UNCHANGED child
      BY <2>1 DEF Inductive, DeathInv
    <2>2. ASSUME NEW id \in Ids, ProcessEnds(id)
          PROVE  child[id] = "running" /\ child' = [child EXCEPT ![id] = "zombie"]
      BY <2>2 DEF ProcessEnds
    <2>3. UNCHANGED child \/ \E id \in Ids : ProcessEnds(id)
      BY DEF LoopThrows, IoWrites, IoReturns, GroupIsOver, Ticks, Clock, TimerExpires,
         AlarmIsMissed, UntilPasses, Reads, vars
    <2> QED BY <2>1, <2>2, <2>3 DEF Inductive, DeathInv
  <1>4. (timer' => timer) /\ (late => late')
    BY DEF LoopThrows, IoWrites, IoReturns, ProcessEnds, GroupIsOver, Ticks, Clock, TimerExpires,
       AlarmIsMissed, UntilPasses, Reads, vars, waitVars
  <1>5. PlaceInv'
    <2>1. CASE UNCHANGED pc
      BY <1>1, <2>1 DEF Inductive, PlaceInv
    <2>2. CASE LoopThrows
      BY <1>1, <2>2 DEF LoopThrows, Inductive, PlaceInv
    <2>3. CASE IoWrites /\ ~UNCHANGED pc
      <3>1. sigpipe = "kills" /\ pc' = "killed"
        BY <2>3 DEF IoWrites, WriteEvent, WriteFails, WriteClose
      <3> QED BY <1>1, <3>1 DEF Inductive, PlaceInv
    <2> QED BY <2>1, <2>2, <2>3 DEF IoReturns, ProcessEnds, GroupIsOver, Ticks, Reads, vars, mainVars
  <1> QED BY <1>1, <1>2, <1>3, <1>4, <1>5 DEF Inductive, WaitInv, DeathInv

LEMMA InductiveInit == Init => Inductive
  <1> SUFFICES ASSUME Init PROVE Inductive
    OBVIOUS
  <1>1. emitted = <<>> /\ \A id : ~Told(id)
    BY DEF Init, Told
  <1> QED BY <1>1, SizesAssumption DEF Init, WaitInit, Inductive, WaitInv, WaitStates, PlaceInv,
        DeathInv, Holding

LEMMA InductiveStep == Inductive /\ [Next]_vars => Inductive'
  BY MainStep, OtherStep DEF Next, Ended

-----------------------------------------------------------------------------
(* The way of an event: emitted, written, read, delivered. *)

Early == {"start", "clearPipes", "signals", "loop", "collect"}

\* Nothing is written after the close event, which is the last; a reader that
\* is gone does not come back; and the io thread ends when all is collected.
WriterInv ==
  /\ emitted \in Seq(Event) /\ written \in 0 .. Len(emitted)
  /\ \A i \in DOMAIN emitted : emitted[i] = CloseEvent => i = Len(emitted) /\ pc \notin Early
  /\ ~writeEnd => ioThread # "running" \/ (written = Len(emitted) /\ pc \notin Early)
  /\ ~ownReadEnd => pc # "start"
  /\ ioThread # "running" => pc \in {"join", "done", "failed", "killed", "hung"}
  /\ pc \in {"stop", "join", "done"} => \A id \in Ids : Told(id)

IsRead(h) == h # "setClosed"
Buffered == IF \E i \in DOMAIN strand : strand[i] = "success" THEN 1 ELSE 0

\* One read is outstanding or queued at a time, and whoever closes the
\* descriptor has queued the flag before the read fails of it.
StrandInv ==
  /\ strand \in Seq(Handler)
  /\ \A i, j \in DOMAIN strand : IsRead(strand[i]) /\ IsRead(strand[j]) => i = j
  /\ \A i \in DOMAIN strand : strand[i] \in {"operation_aborted", "bad_descriptor"} =>
       closed \/ \E j \in DOMAIN strand : j < i /\ strand[j] = "setClosed"
  /\ closing # "no" => closed \/ \E j \in DOMAIN strand : strand[j] = "setClosed"

\* Nothing is read once an error was told, and what is told is true.
ReaderInv ==
  /\ StrandInv
  /\ reading \/ error # "none" => \A i \in DOMAIN strand : ~IsRead(strand[i])
  /\ error # "none" => ~reading
  /\ ~open => closing = "yes"
  /\ (error = "eof" \/ \E i \in DOMAIN strand : strand[i] = "eof") => pipe = <<>> /\ ~writeEnd
  /\ error \in {"none", "eof", "operation_aborted"}
  /\ error = "operation_aborted" => closed

\* The events that were written and not lost are in the slots, in the buffer
\* and in the pipe, in this order.  Only a reader that is gone loses any.
FlowInv ==
  /\ delivered \in Seq(Event) /\ pipe \in Seq(Event)
  /\ Len(delivered) + Buffered + Len(pipe) <= written
  /\ \A i \in 1 .. Len(delivered) : delivered[i] = emitted[i]
  /\ Buffered = 1 => inbound = emitted[Len(delivered) + 1]
  /\ \A i \in 1 .. Len(pipe) : pipe[i] = emitted[Len(delivered) + Buffered + i]
  /\ Len(delivered) + Buffered + Len(pipe) < written =>
       ~HasReader \/ (written = Len(emitted) /\ pc \notin Early)

Transport == Inductive /\ WriterInv /\ ReaderInv /\ FlowInv

LEMMA TailIs ==
  ASSUME NEW S, NEW q \in Seq(S), q # <<>>
  PROVE  /\ Tail(q) \in Seq(S) /\ Len(Tail(q)) = Len(q) - 1 /\ Len(q) \in Nat \ {0}
         /\ DOMAIN Tail(q) = 1 .. (Len(q) - 1) /\ DOMAIN q = 1 .. Len(q)
         /\ \A i \in 1 .. (Len(q) - 1) : Tail(q)[i] = q[i + 1]
         /\ Head(q) = q[1] /\ q[1] \in S
  OBVIOUS

LEMMA AppendIs ==
  ASSUME NEW S, NEW q \in Seq(S), NEW e \in S
  PROVE  /\ Append(q, e) \in Seq(S) /\ Len(Append(q, e)) = Len(q) + 1 /\ Len(q) \in Nat
         /\ DOMAIN Append(q, e) = 1 .. (Len(q) + 1) /\ DOMAIN q = 1 .. Len(q)
         /\ \A i \in 1 .. Len(q) : Append(q, e)[i] = q[i]
         /\ Append(q, e)[Len(q) + 1] = e
  OBVIOUS

LEMMA BufferedSame ==
  ASSUME UNCHANGED strand
  PROVE  Buffered' = Buffered
  BY DEF Buffered

LEMMA BufferedAppend ==
  ASSUME strand \in Seq(Handler), NEW h \in Handler, strand' = Append(strand, h)
  PROVE  /\ Buffered \in {0, 1}
         /\ h = "success" => Buffered' = 1
         /\ h # "success" => Buffered' = Buffered
  <1>1. /\ DOMAIN strand = 1 .. Len(strand) /\ DOMAIN strand' = 1 .. (Len(strand) + 1)
        /\ \A i \in 1 .. Len(strand) : strand'[i] = strand[i]
        /\ strand'[Len(strand) + 1] = h /\ Len(strand) \in Nat
    BY AppendIs
  <1>2. h = "success" => \E i \in DOMAIN strand' : strand'[i] = "success"
    BY <1>1
  <1>3. h # "success" => ((\E i \in DOMAIN strand' : strand'[i] = "success")
                           <=> \E i \in DOMAIN strand : strand[i] = "success")
    <2>1. ASSUME NEW i \in DOMAIN strand', strand'[i] = "success", h # "success"
          PROVE  i \in DOMAIN strand /\ strand[i] = "success"
      BY <1>1, <2>1
    <2>2. ASSUME NEW i \in DOMAIN strand, strand[i] = "success"
          PROVE  i \in DOMAIN strand' /\ strand'[i] = "success"
      BY <1>1, <2>2
    <2> QED BY <2>1, <2>2
  <1> QED BY <1>2, <1>3 DEF Buffered

LEMMA BufferedTail ==
  ASSUME strand \in Seq(Handler), strand # <<>>, strand' = Tail(strand)
  PROVE  /\ strand[1] # "success" => Buffered' = Buffered
         /\ (/\ strand[1] = "success"
             /\ \A i, j \in DOMAIN strand : IsRead(strand[i]) /\ IsRead(strand[j]) => i = j)
              => Buffered = 1 /\ Buffered' = 0
  <1>1. /\ DOMAIN strand = 1 .. Len(strand) /\ DOMAIN strand' = 1 .. (Len(strand) - 1)
        /\ \A i \in 1 .. (Len(strand) - 1) : strand'[i] = strand[i + 1]
        /\ Len(strand) \in Nat \ {0}
    BY TailIs
  <1>2. strand[1] # "success" => ((\E i \in DOMAIN strand' : strand'[i] = "success")
                                   <=> \E i \in DOMAIN strand : strand[i] = "success")
    <2>1. ASSUME NEW i \in DOMAIN strand', strand'[i] = "success"
          PROVE  i + 1 \in DOMAIN strand /\ strand[i + 1] = "success"
      BY <1>1, <2>1
    <2>2. ASSUME NEW i \in DOMAIN strand, strand[i] = "success", strand[1] # "success"
          PROVE  i - 1 \in DOMAIN strand' /\ strand'[i - 1] = "success"
      BY <1>1, <2>2
    <2> QED BY <2>1, <2>2
  <1>3. ASSUME strand[1] = "success",
               \A i, j \in DOMAIN strand : IsRead(strand[i]) /\ IsRead(strand[j]) => i = j
        PROVE  /\ \E i \in DOMAIN strand : strand[i] = "success"
               /\ ~ \E i \in DOMAIN strand' : strand'[i] = "success"
    <2>1. ASSUME NEW i \in DOMAIN strand', strand'[i] = "success"
          PROVE  FALSE
      <3>1. i + 1 \in DOMAIN strand /\ strand[i + 1] = "success" /\ 1 \in DOMAIN strand /\ i + 1 # 1
        BY <1>1, <2>1
      <3> QED BY <1>3, <3>1 DEF IsRead
    <2> QED BY <1>1, <1>3, <2>1
  <1> QED BY <1>2, <1>3 DEF Buffered

-----------------------------------------------------------------------------
(* The reader's steps. *)

\* A handler is queued.
LEMMA StrandAppend ==
  ASSUME StrandInv, NEW h \in Handler, strand' = Append(strand, h), UNCHANGED closed,
         IsRead(h) => \A i \in DOMAIN strand : ~IsRead(strand[i]),
         h \in {"operation_aborted", "bad_descriptor"} => closing # "no",
         UNCHANGED closing \/ h = "setClosed"
  PROVE  StrandInv'
  <1>1. /\ strand' \in Seq(Handler) /\ Len(strand) \in Nat
        /\ DOMAIN strand = 1 .. Len(strand) /\ DOMAIN strand' = 1 .. (Len(strand) + 1)
        /\ \A i \in 1 .. Len(strand) : strand'[i] = strand[i]
        /\ strand'[Len(strand) + 1] = h
    BY AppendIs DEF StrandInv
  <1>2. ASSUME NEW i \in DOMAIN strand', NEW j \in DOMAIN strand',
               IsRead(strand'[i]), IsRead(strand'[j])
        PROVE  i = j
    BY <1>1, <1>2 DEF StrandInv
  <1>3. ASSUME NEW i \in DOMAIN strand', strand'[i] \in {"operation_aborted", "bad_descriptor"}
        PROVE  closed' \/ \E j \in DOMAIN strand' : j < i /\ strand'[j] = "setClosed"
    <2>1. CASE i \in DOMAIN strand
      BY <1>1, <1>3, <2>1 DEF StrandInv
    <2>2. CASE i = Len(strand) + 1
      BY <1>1, <1>3, <2>2 DEF StrandInv
    <2> QED BY <1>1, <2>1, <2>2
  <1>4. closing' # "no" => closed' \/ \E j \in DOMAIN strand' : strand'[j] = "setClosed"
    BY <1>1 DEF StrandInv
  <1> QED BY <1>1, <1>2, <1>3, <1>4 DEF StrandInv

\* A handler that was queued runs; only setClosed may be what others wait for.
LEMMA StrandTail ==
  ASSUME StrandInv, strand # <<>>, strand' = Tail(strand),
         strand[1] = "setClosed" => closed',
         closed => closed', UNCHANGED closing \/ closed'
  PROVE  /\ StrandInv'
         /\ IsRead(strand[1]) => \A i \in DOMAIN strand' : ~IsRead(strand'[i])
         /\ \A i \in DOMAIN strand' : i + 1 \in DOMAIN strand /\ strand'[i] = strand[i + 1]
         /\ 1 \in DOMAIN strand
  <1>1. /\ strand' \in Seq(Handler) /\ Len(strand) \in Nat \ {0}
        /\ DOMAIN strand = 1 .. Len(strand) /\ DOMAIN strand' = 1 .. (Len(strand) - 1)
        /\ \A i \in 1 .. (Len(strand) - 1) : strand'[i] = strand[i + 1]
    BY TailIs DEF StrandInv
  <1>2. 1 \in DOMAIN strand /\ \A i \in DOMAIN strand' : i + 1 \in DOMAIN strand /\ strand'[i] = strand[i + 1]
                                                         /\ i \in Nat /\ i + 1 # 1
    BY <1>1
  <1>3. ASSUME NEW i \in DOMAIN strand', NEW j \in DOMAIN strand',
               IsRead(strand'[i]), IsRead(strand'[j])
        PROVE  i = j
    <2>1. i + 1 = j + 1
      BY <1>2, <1>3 DEF StrandInv
    <2> QED BY <1>1, <2>1
  <1>4. ASSUME NEW j \in DOMAIN strand, strand[j] = "setClosed", ~closed'
        PROVE  j - 1 \in DOMAIN strand' /\ strand'[j - 1] = "setClosed"
    BY <1>1, <1>4
  <1>5. ASSUME NEW i \in DOMAIN strand', strand'[i] \in {"operation_aborted", "bad_descriptor"}, ~closed'
        PROVE  \E j \in DOMAIN strand' : j < i /\ strand'[j] = "setClosed"
    <2>1. PICK j \in DOMAIN strand : j < i + 1 /\ strand[j] = "setClosed"
      BY <1>2, <1>5 DEF StrandInv
    <2>2. j - 1 \in DOMAIN strand' /\ strand'[j - 1] = "setClosed"
      BY <1>4, <1>5, <2>1
    <2>3. j - 1 < i
      BY <1>1, <2>1
    <2> QED BY <2>2, <2>3
  <1>6. closing' # "no" => closed' \/ \E j \in DOMAIN strand' : strand'[j] = "setClosed"
    BY <1>4 DEF StrandInv
  <1>7. IsRead(strand[1]) => \A i \in DOMAIN strand' : ~IsRead(strand'[i])
    BY <1>2 DEF StrandInv
  <1> QED BY <1>1, <1>2, <1>3, <1>5, <1>6, <1>7 DEF StrandInv

LEMMA ClientReader ==
  ASSUME ReaderInv, Client
  PROVE  ReaderInv'
  <1> USE DEF ReaderInv
  <1>1. CASE ReadEvent
    <2>1. /\ reading /\ ~reading' /\ strand' = Append(strand, "success") /\ "success" \in Handler
          /\ pipe # <<>> /\ UNCHANGED <<writeEnd, open, closed, closing, delivered, error>>
      BY <1>1 DEF ReadEvent, ReadUntilHandled, Handler
    <2>2. StrandInv'
      BY <2>1, StrandAppend
    <2>3. error = "none" /\ ~ \E i \in DOMAIN strand : strand[i] = "eof"
      BY <2>1
    <2>4. ~ \E i \in DOMAIN strand' : strand'[i] = "eof"
      BY <2>1, <2>3, AppendIs DEF StrandInv
    <2> QED BY <2>1, <2>2, <2>3, <2>4
  <1>2. CASE ReadFails
    <2>1. PICK h \in {"operation_aborted", "bad_descriptor", "eof"} :
            /\ strand' = Append(strand, h) /\ h \in Handler
            /\ h = "eof" => pipe = <<>> /\ ~writeEnd
            /\ h # "eof" => ~open
      BY <1>2 DEF ReadFails, Handler
    <2>2. reading /\ ~reading' /\ UNCHANGED <<pipe, writeEnd, open, inbound, closed, closing, delivered, error>>
      BY <1>2 DEF ReadFails
    <2>3. StrandInv'
      BY <2>1, <2>2, StrandAppend
    <2>4. error = "none" /\ ~ \E i \in DOMAIN strand : strand[i] = "eof"
      BY <2>2 DEF IsRead
    <2>5. (\E i \in DOMAIN strand' : strand'[i] = "eof") => h = "eof"
      BY <2>1, <2>4, AppendIs DEF StrandInv
    <2> QED BY <2>1, <2>2, <2>3, <2>4, <2>5
  <1>3. CASE HandleError
    <2>1. PICK ec \in Handler \ {"success", "setClosed"} :
            /\ strand # <<>> /\ strand[1] = ec /\ strand' = Tail(strand)
            /\ error' = ErrorCode(ec)
            /\ UNCHANGED <<pipe, writeEnd, reading, open, inbound, closed, closing, delivered>>
      BY <1>3, TailIs DEF HandleError, NextHandler, StrandInv
    <2>2. StrandInv' /\ 1 \in DOMAIN strand /\ \A i \in DOMAIN strand' : ~IsRead(strand'[i])
      BY <2>1, StrandTail DEF IsRead
    <2>3. ~reading
      BY <2>1, <2>2 DEF IsRead
    <2>4. ~ \E i \in DOMAIN strand' : strand'[i] = "eof"
      BY <2>2 DEF IsRead
    <2>5. ec # "eof" => closed
      <3>1. DOMAIN strand = 1 .. Len(strand)
        BY DEF StrandInv
      <3>2. ~ \E j \in DOMAIN strand : j < 1
        BY <3>1
      <3> QED BY <2>1, <2>2, <3>2 DEF StrandInv, Handler
    <2>6. ec = "eof" => pipe = <<>> /\ ~writeEnd
      BY <2>1, <2>2
    <2> QED BY <2>1, <2>2, <2>3, <2>4, <2>5, <2>6 DEF ErrorCode, Handler
  <1>4. CASE HandleEvent
    <2>1. /\ strand # <<>> /\ strand[1] = "success" /\ strand' = Tail(strand)
          /\ UNCHANGED <<pipe, writeEnd, inbound, error>>
          /\ closed => closed'
          /\ (UNCHANGED closing) \/ closed'
          /\ ~open' => closing' = "yes"
      BY <1>4, TailIs DEF HandleEvent, NextHandler, StrandInv
    <2>2. StrandInv' /\ 1 \in DOMAIN strand /\ \A i \in DOMAIN strand' : ~IsRead(strand'[i])
      <3>1. /\ StrandInv' /\ 1 \in DOMAIN strand
            /\ IsRead(strand[1]) => \A i \in DOMAIN strand' : ~IsRead(strand'[i])
        <4>1. CASE UNCHANGED <<closed, closing>>
          BY <2>1, <4>1, StrandTail
        <4>2. CASE closed' = TRUE
          BY <2>1, <4>2, StrandTail
        <4> QED BY <1>4, <4>1, <4>2 DEF HandleEvent
      <3> QED BY <2>1, <3>1 DEF IsRead
    <2>3. error = "none"
      BY <2>1, <2>2 DEF IsRead
    <2>4. ~ \E i \in DOMAIN strand' : strand'[i] = "eof"
      BY <2>2 DEF IsRead
    <2> QED BY <2>1, <2>2, <2>3, <2>4
  <1>5. CASE SetClosed
    <2>1. /\ strand # <<>> /\ strand[1] = "setClosed" /\ strand' = Tail(strand) /\ closed'
          /\ UNCHANGED <<pipe, writeEnd, reading, open, inbound, closing, delivered, error>>
      BY <1>5, TailIs DEF SetClosed, NextHandler, StrandInv
    <2>2. /\ StrandInv'
          /\ \A i \in DOMAIN strand' : i + 1 \in DOMAIN strand /\ strand'[i] = strand[i + 1]
      BY <2>1, StrandTail
    <2> QED BY <2>1, <2>2
  <1>6. CASE Close
    <2>1. UNCHANGED <<pipe, writeEnd, reading, inbound, closed, delivered, error>>
      BY <1>6 DEF Close
    <2>2. CASE DispatchClosed
      <3>1. /\ strand' = Append(strand, "setClosed") /\ "setClosed" \in Handler
            /\ closing = "no" /\ closing' = "queued" /\ UNCHANGED open
        BY <2>2 DEF DispatchClosed, Handler
      <3>2. StrandInv'
        BY <2>1, <3>1, StrandAppend DEF IsRead
      <3>3. \A i \in DOMAIN strand' : strand'[i] = "setClosed" \/ (i \in DOMAIN strand /\ strand'[i] = strand[i])
        BY <3>1, AppendIs DEF StrandInv
      <3> QED BY <2>1, <3>1, <3>2, <3>3 DEF IsRead
    <2>3. CASE CloseDescriptor
      BY <2>1, <2>3 DEF CloseDescriptor, StrandInv
    <2> QED BY <1>6, <2>2, <2>3 DEF Close
  <1> QED BY <1>1, <1>2, <1>3, <1>4, <1>5, <1>6 DEF Client, IoService

\* Reading moves events on, the next one first.
LEMMA ClientFlow ==
  ASSUME ReaderInv, FlowInv, WriterInv, Reads(Client)
  PROVE  FlowInv'
  <1>1. /\ HasReader' /\ Client
        /\ UNCHANGED <<child, emitted, written, pc, ownReadEnd>>
    BY DEF Reads, mainVars, ioVars, HasReader
  <1>2. /\ delivered \in Seq(Event) /\ pipe \in Seq(Event) /\ emitted \in Seq(Event)
        /\ Len(delivered) \in Nat /\ Len(pipe) \in Nat /\ written \in Nat
        /\ strand \in Seq(Handler)
        /\ Len(delivered) + Buffered + Len(pipe) <= written /\ written <= Len(emitted)
        /\ \A i \in 1 .. Len(delivered) : delivered[i] = emitted[i]
        /\ Buffered = 1 => inbound = emitted[Len(delivered) + 1]
        /\ \A i \in 1 .. Len(pipe) : pipe[i] = emitted[Len(delivered) + Buffered + i]
        /\ Buffered \in {0, 1}
    BY DEF FlowInv, WriterInv, ReaderInv, StrandInv, Buffered
  <1>3. Len(delivered) + Buffered + Len(pipe) < written => written = Len(emitted) /\ pc \notin Early
    BY <1>1 DEF FlowInv, HasReader
  <1>4. ASSUME UNCHANGED <<delivered, pipe>>, Buffered' = Buffered, UNCHANGED inbound
        PROVE  FlowInv'
    BY <1>1, <1>2, <1>3, <1>4 DEF FlowInv
  <1>5. CASE ReadEvent
    <2>1. /\ strand' = Append(strand, "success") /\ "success" \in Handler
          /\ pipe # <<>> /\ inbound' = Head(pipe) /\ pipe' = Tail(pipe) /\ UNCHANGED delivered
          /\ \A i \in DOMAIN strand : ~IsRead(strand[i])
      BY <1>5 DEF ReadEvent, Handler, ReaderInv
    <2>2. Buffered = 0 /\ Buffered' = 1
      BY <1>2, <2>1, BufferedAppend DEF Buffered, IsRead
    <2>3. /\ pipe' \in Seq(Event) /\ Len(pipe') = Len(pipe) - 1 /\ inbound' = pipe[1] /\ Len(pipe) > 0
          /\ \A i \in 1 .. (Len(pipe) - 1) : pipe'[i] = pipe[i + 1]
      BY <1>2, <2>1, TailIs
    <2>4. inbound' = emitted'[Len(delivered') + 1]
      <3>1. pipe[1] = emitted[Len(delivered) + 0 + 1]
        BY <1>2, <2>2, <2>3
      <3>2. Len(delivered) + 0 + 1 = Len(delivered) + 1
        BY <1>2
      <3> QED BY <1>1, <2>1, <2>3, <3>1, <3>2
    <2>5. ASSUME NEW i \in 1 .. Len(pipe') PROVE pipe'[i] = emitted'[Len(delivered') + Buffered' + i]
      <3>1. i + 1 \in 1 .. Len(pipe) /\ i \in 1 .. (Len(pipe) - 1)
        BY <1>2, <2>3
      <3>2. pipe'[i] = emitted[Len(delivered) + 0 + (i + 1)]
        BY <1>2, <2>2, <2>3, <3>1
      <3>3. Len(delivered) + 0 + (i + 1) = Len(delivered) + 1 + i
        BY <1>2, <3>1
      <3> QED BY <1>1, <2>1, <2>2, <3>2, <3>3
    <2>6. Len(delivered') + Buffered' + Len(pipe') = Len(delivered) + Buffered + Len(pipe)
      BY <1>2, <2>1, <2>2, <2>3
    <2> QED BY <1>1, <1>2, <1>3, <2>1, <2>3, <2>4, <2>5, <2>6 DEF FlowInv
  <1>6. CASE ReadFails
    <2>1. PICK h \in Handler : strand' = Append(strand, h) /\ h # "success"
      BY <1>6 DEF ReadFails, Handler
    <2> QED BY <1>2, <1>4, <1>6, <2>1, BufferedAppend DEF ReadFails
  <1>7. CASE HandleError
    <2>1. /\ strand # <<>> /\ strand[1] # "success" /\ strand' = Tail(strand)
          /\ UNCHANGED <<delivered, pipe, inbound>>
      BY <1>2, <1>7, TailIs DEF HandleError, NextHandler
    <2> QED BY <1>2, <1>4, <2>1, BufferedTail
  <1>8. CASE HandleEvent
    <2>1. /\ strand # <<>> /\ strand[1] = "success" /\ strand' = Tail(strand)
          /\ delivered' = Append(delivered, inbound) /\ UNCHANGED <<pipe, inbound>>
      BY <1>2, <1>8, TailIs DEF HandleEvent, NextHandler
    <2>2. Buffered = 1 /\ Buffered' = 0
      BY <1>2, <2>1, BufferedTail DEF ReaderInv, StrandInv
    <2>3. inbound = emitted[Len(delivered) + 1] /\ inbound \in Event
      BY <1>2, <2>2
    <2>4. /\ delivered' \in Seq(Event) /\ Len(delivered') = Len(delivered) + 1
          /\ \A i \in 1 .. Len(delivered) : delivered'[i] = delivered[i]
          /\ delivered'[Len(delivered) + 1] = inbound
      BY <1>2, <2>1, <2>3, AppendIs
    <2>5. ASSUME NEW i \in 1 .. Len(delivered') PROVE delivered'[i] = emitted'[i]
      <3>1. CASE i = Len(delivered) + 1
        BY <1>1, <2>3, <2>4, <3>1
      <3>2. CASE i # Len(delivered) + 1
        <4>1. i \in 1 .. Len(delivered)
          BY <1>2, <2>4, <3>2
        <4> QED BY <1>1, <1>2, <2>4, <4>1
      <3> QED BY <3>1, <3>2
    <2>6. ASSUME NEW i \in 1 .. Len(pipe')
          PROVE  pipe'[i] = emitted'[Len(delivered') + Buffered' + i]
      <3>1. i \in 1 .. Len(pipe) /\ pipe'[i] = emitted[Len(delivered) + 1 + i]
        BY <1>2, <2>1, <2>2
      <3>2. Len(delivered') + Buffered' + i = Len(delivered) + 1 + i
        BY <1>2, <2>2, <2>4, <3>1
      <3> QED BY <1>1, <3>1, <3>2
    <2>7. Len(delivered') + Buffered' + Len(pipe') = Len(delivered) + Buffered + Len(pipe)
      BY <1>2, <2>1, <2>2, <2>4
    <2> QED BY <1>1, <1>2, <1>3, <2>1, <2>2, <2>4, <2>5, <2>6, <2>7 DEF FlowInv
  <1>9. CASE SetClosed
    <2>1. /\ strand # <<>> /\ strand[1] # "success" /\ strand' = Tail(strand)
          /\ UNCHANGED <<delivered, pipe, inbound>>
      BY <1>2, <1>9, TailIs DEF SetClosed, NextHandler
    <2> QED BY <1>2, <1>4, <2>1, BufferedTail
  <1>10. CASE Close
    <2>1. UNCHANGED strand \/ (strand' = Append(strand, "setClosed") /\ "setClosed" \in Handler)
      BY <1>10 DEF Close, DispatchClosed, CloseDescriptor, Handler
    <2>2. Buffered' = Buffered
      BY <1>2, <2>1, BufferedAppend, BufferedSame
    <2> QED BY <1>4, <1>10, <2>2 DEF Close
  <1> QED BY <1>1, <1>5, <1>6, <1>7, <1>8, <1>9, <1>10 DEF Client, IoService

-----------------------------------------------------------------------------
(* The other steps of the transport. *)

\* A step of the main thread, a process or the clock: it may hand over one more
\* event, close the pipe at the end, and no process that is gone comes back.
LEMMA QuietStep ==
  ASSUME Inductive, WriterInv, ReaderInv, FlowInv, WriterInv',
         UNCHANGED <<pipe, clientVars, written>>,
         UNCHANGED emitted \/ \E e \in Event : emitted' = Append(emitted, e) /\ pc \in Early,
         pc \notin Early => pc' \notin Early,
         HasReader' => HasReader,
         ~writeEnd => ~writeEnd'
  PROVE  ReaderInv' /\ FlowInv'
  <1>1. ReaderInv'
    BY DEF ReaderInv, StrandInv, clientVars
  <1>2. Buffered' = Buffered /\ Buffered \in {0, 1}
    BY BufferedSame DEF clientVars, Buffered
  <1>3. /\ Len(delivered) \in Nat /\ Len(pipe) \in Nat /\ written \in Nat
        /\ written <= Len(emitted) /\ Len(emitted) \in Nat
        /\ UNCHANGED <<pipe, delivered, inbound, written>>
    BY DEF FlowInv, WriterInv, clientVars
  <1>4. /\ \A i \in 1 .. Len(emitted) : emitted'[i] = emitted[i]
        /\ emitted' # emitted => pc \in Early
    BY AppendIs DEF WriterInv
  <1>5. \A i \in 1 .. Len(delivered) : delivered'[i] = emitted'[i]
    BY <1>2, <1>3, <1>4 DEF FlowInv
  <1>6. ASSUME Buffered = 1 PROVE inbound' = emitted'[Len(delivered) + 1]
    <2>1. Len(delivered) + 1 \in 1 .. Len(emitted)
      BY <1>3, <1>6 DEF FlowInv
    <2>2. inbound = emitted[Len(delivered) + 1]
      BY <1>6 DEF FlowInv
    <2> QED BY <1>3, <1>4, <2>1, <2>2
  <1>7. ASSUME NEW i \in 1 .. Len(pipe) PROVE pipe'[i] = emitted'[Len(delivered) + Buffered + i]
    <2>1. Len(delivered) + Buffered + i \in 1 .. Len(emitted)
      BY <1>2, <1>3 DEF FlowInv
    <2> QED BY <1>3, <1>4, <2>1 DEF FlowInv
  <1>8. Len(delivered) + Buffered + Len(pipe) < written =>
          ~HasReader' \/ (written = Len(emitted') /\ pc' \notin Early)
    BY <1>4 DEF FlowInv
  <1>9. FlowInv'
    BY <1>2, <1>3, <1>5, <1>6, <1>7, <1>8 DEF FlowInv
  <1> QED BY <1>1, <1>9

\* Told() only grows.
LEMMA ToldStays ==
  ASSUME emitted \in Seq(Event), NEW id, Told(id),
         UNCHANGED emitted \/ \E e \in Event : emitted' = Append(emitted, e)
  PROVE  Told(id)'
  BY ToldAppend, ToldUnchanged

\* One more event, not yet the last.
LEMMA EmitStep ==
  ASSUME WriterInv, NEW e \in Event, emitted' = Append(emitted, e), e # CloseEvent,
         pc \in Early, pc' = pc,
         UNCHANGED <<written, writeEnd, ownReadEnd, ioThread>>
  PROVE  WriterInv'
  <1>1. /\ emitted' \in Seq(Event) /\ Len(emitted') = Len(emitted) + 1 /\ Len(emitted) \in Nat
        /\ DOMAIN emitted = 1 .. Len(emitted) /\ DOMAIN emitted' = 1 .. (Len(emitted) + 1)
        /\ \A i \in 1 .. Len(emitted) : emitted'[i] = emitted[i]
        /\ emitted'[Len(emitted) + 1] = e
    BY AppendIs DEF WriterInv
  <1>2. \A i \in DOMAIN emitted : emitted[i] # CloseEvent
    BY DEF WriterInv
  <1>3. \A i \in DOMAIN emitted' : emitted'[i] # CloseEvent
    BY <1>1, <1>2
  <1>4. pc \notin {"join", "done", "failed", "killed", "hung", "stop"}
    BY DEF Early
  <1>5. ioThread = "running" /\ writeEnd
    BY <1>4 DEF WriterInv
  <1>6. written' \in 0 .. Len(emitted')
    <2>1. written \in 0 .. Len(emitted) /\ UNCHANGED written
      BY DEF WriterInv
    <2> QED BY <1>1, <2>1
  <1>7. ~ownReadEnd' => pc' # "start"
    BY DEF WriterInv
  <1> QED BY <1>1, <1>3, <1>4, <1>5, <1>6, <1>7 DEF WriterInv

\* The main thread goes on without an event.
LEMMA GoOnStep ==
  ASSUME WriterInv, UNCHANGED <<emitted, written, writeEnd>>,
         pc \notin Early => pc' \notin Early,
         ioThread' = ioThread \/ pc' \in {"join", "done", "failed", "killed", "hung"},
         ioThread # "running" => pc' \in {"join", "done", "failed", "killed", "hung"},
         ~ownReadEnd' => pc' # "start",
         pc' \in {"stop", "join", "done"} => \A id \in Ids : Told(id),
         ioThread # "running" => ioThread' # "running"
  PROVE  WriterInv'
  BY ToldUnchanged DEF WriterInv

LEMMA MainTransport ==
  ASSUME Transport, Main
  PROVE  Transport'
  <1>1. Inductive'
    BY MainStep DEF Transport
  <1>0. UNCHANGED <<pipe, clientVars, written>>
    BY DEF Main, StartProcess, Started, ClearPipes, SetUpSignals, LoopWaits, LeaveLoop,
       CollectWaits, Waits, WaitReturned, AllTerminated, StopIoService, JoinWorkers, pipeVars, ioVars
  <1>2. CASE StartProcess
    <2>1. /\ pc = "start" /\ UNCHANGED <<writeEnd, pc, ioThread, ownReadEnd>>
          /\ emitted' = Append(emitted, Spawn(next)) /\ next \in Ids
      BY <1>2, IdsAreNaturals DEF StartProcess, MoreToStart, Transport, Inductive, PlaceInv, pipeVars, ioVars
    <2>2. Spawn(next) \in Event /\ Spawn(next) # CloseEvent
      BY <2>1 DEF Event, Spawn, CloseEvent
    <2>3. WriterInv'
      BY <1>0, <2>1, <2>2, EmitStep DEF Transport, Early
    <2>4. HasReader
      BY <2>1 DEF Transport, WriterInv, HasReader
    <2> QED BY <1>0, <1>1, <2>1, <2>2, <2>3, <2>4, QuietStep DEF Transport, Early
  <1>3. CASE WaitReturned
    <2>1. /\ pc \in {"loop", "collect"} /\ UNCHANGED <<child, writeEnd, pc, ioThread, ownReadEnd>>
      BY <1>3 DEF WaitReturned, pipeVars, ioVars
    <2>2. HasReader' => HasReader
      BY <2>1 DEF HasReader
    <2>3. CASE rpid \in Ids
      <3>1. emitted' = Append(emitted, Termination(rpid))
        BY <1>3, <2>3 DEF WaitReturned
      <3>2. Termination(rpid) \in Event /\ Termination(rpid) # CloseEvent
        BY <2>3 DEF Event, Termination, CloseEvent
      <3>3. WriterInv'
        BY <1>0, <2>1, <3>1, <3>2, EmitStep DEF Transport, Early
      <3> QED BY <1>0, <1>1, <2>1, <2>2, <3>1, <3>2, <3>3, QuietStep DEF Transport, Early
    <2>4. CASE rpid \notin Ids
      <3>1. UNCHANGED emitted
        BY <1>3, <2>4 DEF WaitReturned
      <3>2. WriterInv'
        BY <1>0, <2>1, <3>1, GoOnStep DEF Transport, WriterInv
      <3> QED BY <1>0, <1>1, <2>1, <2>2, <3>1, <3>2, QuietStep DEF Transport
    <2> QED BY <2>3, <2>4
  <1>4. CASE AllTerminated
    <2>1. /\ pc = "collect" /\ pc' = "stop" /\ UNCHANGED <<child, written, writeEnd, ioThread, ownReadEnd>>
          /\ emitted' = Append(emitted, CloseEvent) /\ CloseEvent \in Event
          /\ \A id \in Ids : Told(id)
      BY <1>4 DEF AllTerminated, ToCollect, Running, Event, pipeVars, ioVars
    <2>2. /\ emitted' \in Seq(Event) /\ Len(emitted') = Len(emitted) + 1 /\ Len(emitted) \in Nat
          /\ DOMAIN emitted = 1 .. Len(emitted) /\ DOMAIN emitted' = 1 .. (Len(emitted) + 1)
          /\ \A i \in 1 .. Len(emitted) : emitted'[i] = emitted[i]
      BY <2>1, AppendIs DEF Transport, WriterInv
    <2>3. \A i \in DOMAIN emitted' : emitted'[i] = CloseEvent => i = Len(emitted')
      BY <2>1, <2>2 DEF Transport, WriterInv, Early
    <2>4. \A id \in Ids : Told(id)'
      BY <2>1, ToldStays DEF Transport, WriterInv
    <2>5. ioThread = "running" /\ writeEnd /\ pc' \notin Early
      BY <2>1 DEF Transport, WriterInv, Early
    <2>6. WriterInv'
      BY <2>1, <2>2, <2>3, <2>4, <2>5 DEF Transport, WriterInv
    <2>7. HasReader' => HasReader
      BY <2>1 DEF HasReader
    <2> QED BY <1>0, <1>1, <2>1, <2>5, <2>6, <2>7, QuietStep DEF Transport, Early
  <1>5. CASE JoinWorkers
    <2>1. /\ pc = "join" /\ pc' = "done" /\ ioThread = "returned" /\ ~writeEnd'
          /\ UNCHANGED <<child, emitted, written, ioThread, ownReadEnd>>
      BY <1>5 DEF JoinWorkers, ioVars
    <2>2. WriterInv'
      BY <2>1, ToldUnchanged DEF Transport, WriterInv, Early
    <2>3. HasReader' => HasReader
      BY <2>1 DEF HasReader
    <2> QED BY <1>0, <1>1, <2>1, <2>2, <2>3, QuietStep DEF Transport, Early
  <1>6. CASE Started \/ ClearPipes \/ SetUpSignals \/ LoopWaits \/ LeaveLoop \/ CollectWaits \/ Waits
    <2>1. /\ pc \in Early /\ pc' \in Early /\ UNCHANGED <<emitted, writeEnd, ioThread>>
          /\ ownReadEnd' \/ pc' # "start"
          /\ ownReadEnd' => ownReadEnd
      <3>1. CASE Waits
        <4>1. wpc # "idle"
          BY <3>1 DEF Waits, WaitStep, Enter, Arm, CollectChild, WaitInterrupted, Waiting, Disable,
             Check, Again
        <4> QED BY <3>1, <4>1 DEF Waits, Transport, Inductive, PlaceInv, WriterInv, Early, pipeVars,
             mainVars, ioVars
      <3>2. CASE ~Waits
        BY <1>6, <3>2 DEF Started, ClearPipes, SetUpSignals, LoopWaits, LeaveLoop, CollectWaits,
           Transport, WriterInv, Early, pipeVars, mainVars, ioVars
      <3> QED BY <3>1, <3>2
    <2>2. WriterInv'
      BY <1>0, <2>1, ToldUnchanged DEF Transport, WriterInv, Early
    <2>3. HasReader' => HasReader
      <3>1. child'[Reader] = "running" => child[Reader] = "running"
        <4>1. UNCHANGED child \/ \E id \in Ids : child' = [child EXCEPT ![id] = "reaped"]
          BY <1>6 DEF Started, ClearPipes, SetUpSignals, LoopWaits, LeaveLoop, CollectWaits, Waits,
             WaitFor, WaitForEver, WaitStep, Enter, Arm, CollectChild, WaitInterrupted, Disable,
             Check, Again
        <4> QED BY <4>1, SizesAssumption DEF Transport, Inductive, DeathInv, Ids, Reader
      <3> QED BY <2>1, <3>1 DEF HasReader
    <2> QED BY <1>0, <1>1, <2>1, <2>2, <2>3, QuietStep DEF Transport, Early
  <1>7. CASE StopIoService
    <2>1. /\ pc = "stop" /\ pc' = "join" /\ ioThread' = "stopping"
          /\ UNCHANGED <<child, emitted, written, writeEnd, ownReadEnd>>
      BY <1>7 DEF StopIoService, pipeVars
    <2>2. WriterInv'
      BY <2>1, ToldUnchanged DEF Transport, WriterInv, Early
    <2>3. HasReader' => HasReader
      BY <2>1 DEF HasReader
    <2> QED BY <1>0, <1>1, <2>1, <2>2, <2>3, QuietStep DEF Transport, Early
  <1> QED BY <1>2, <1>3, <1>4, <1>5, <1>6, <1>7 DEF Main

\* One event leaves the queue.
LEMMA IoTransport ==
  ASSUME Transport, IoWrites
  PROVE  Transport'
  <1>1. Inductive'
    BY OtherStep DEF Transport
  <1>2. /\ ioThread = "running" /\ written < Len(emitted) /\ written' = written + 1
        /\ UNCHANGED <<child, clientVars, emitted, ownReadEnd>>
        /\ written + 1 \in 1 .. Len(emitted) /\ NextEvent \in Event
        /\ written \in Nat /\ Len(emitted) \in Nat /\ DOMAIN emitted = 1 .. Len(emitted)
        /\ written + 1 \in 0 .. Len(emitted)
    BY DEF IoWrites, Transport, WriterInv, NextEvent
  <1>3. writeEnd /\ written # Len(emitted)
    <2>1. ~writeEnd => ioThread # "running" \/ written = Len(emitted)
      BY DEF Transport, WriterInv
    <2>2. written # Len(emitted) /\ ioThread = "running"
      <3> DEFINE n == Len(emitted)
      <3>1. written < n /\ written \in Nat /\ n \in Nat /\ ioThread = "running"
        BY <1>2
      <3> HIDE DEF n
      <3>2. written # n
        BY <3>1
      <3> QED BY <3>1, <3>2 DEF n
    <2> QED BY <2>1, <2>2
  <1>4. Buffered' = Buffered /\ Buffered \in {0, 1} /\ HasReader' = HasReader
    BY <1>2, BufferedSame DEF clientVars, Buffered, HasReader
  <1>5. CASE WriteEvent
    <2>1. /\ NextEvent # CloseEvent /\ HasReader /\ pipe' = Append(pipe, NextEvent)
          /\ UNCHANGED <<writeEnd, pc, ioThread>>
      BY <1>5 DEF WriteEvent
    <2>2. WriterInv'
      BY <1>2, <1>3, <2>1, ToldUnchanged DEF Transport, WriterInv
    <2>3. ReaderInv'
      <3>1. error # "eof" /\ ~ \E i \in DOMAIN strand : strand[i] = "eof"
        BY <1>3 DEF Transport, ReaderInv
      <3> QED BY <1>2, <2>1, <3>1 DEF Transport, ReaderInv, StrandInv, clientVars
    <2>4. /\ Len(delivered) \in Nat /\ Len(pipe) \in Nat
          /\ Len(delivered) + Buffered + Len(pipe) = written
      <3>1. Len(delivered) \in Nat /\ Len(pipe) \in Nat
        BY DEF Transport, FlowInv
      <3>2. /\ Len(delivered) + Buffered + Len(pipe) <= written
            /\ ~(Len(delivered) + Buffered + Len(pipe) < written)
        <4>1. HasReader /\ FlowInv
          BY <2>1 DEF Transport
        <4> QED BY <1>3, <4>1 DEF FlowInv
      <3> QED BY <1>2, <1>4, <3>1, <3>2
    <2>5. /\ pipe' \in Seq(Event) /\ Len(pipe') = Len(pipe) + 1
          /\ \A i \in 1 .. Len(pipe) : pipe'[i] = pipe[i]
          /\ pipe'[Len(pipe) + 1] = emitted[written + 1]
      <3>1. pipe \in Seq(Event) /\ NextEvent \in Event
        BY <1>2 DEF Transport, FlowInv
      <3>2. NextEvent = emitted[written + 1]
        BY DEF NextEvent
      <3> QED BY <2>1, <3>1, <3>2, AppendIs
    <2>6. ASSUME NEW i \in 1 .. Len(pipe')
          PROVE  pipe'[i] = emitted'[Len(delivered') + Buffered' + i]
      <3>1. UNCHANGED delivered
        BY <1>2 DEF clientVars
      <3>2. CASE i = Len(pipe) + 1
        <4>1. Len(delivered) + Buffered + i = written + 1
          BY <1>4, <2>4, <3>2
        <4> QED BY <1>2, <1>4, <2>5, <3>1, <3>2, <4>1
      <3>3. CASE i # Len(pipe) + 1
        <4>1. i \in 1 .. Len(pipe)
          BY <2>4, <2>5, <3>3
        <4> QED BY <1>2, <1>4, <2>5, <3>1, <4>1 DEF Transport, FlowInv
      <3> QED BY <3>2, <3>3
    <2>7. FlowInv'
      <3>1. UNCHANGED <<delivered, inbound, emitted>>
        BY <1>2 DEF clientVars
      <3>2. Len(delivered') + Buffered' + Len(pipe') = written'
        BY <1>2, <1>4, <2>4, <2>5, <3>1
      <3>3. /\ delivered' \in Seq(Event)
            /\ \A i \in 1 .. Len(delivered') : delivered'[i] = emitted'[i]
            /\ Buffered' = 1 => inbound' = emitted'[Len(delivered') + 1]
        BY <1>4, <3>1 DEF Transport, FlowInv
      <3>4. written' \in Nat
        BY <1>2
      <3> QED BY <2>5, <2>6, <3>2, <3>3, <3>4 DEF FlowInv
    <2> QED BY <1>1, <2>2, <2>3, <2>7 DEF Transport
  <1>6. CASE WriteFails \/ WriteClose
    <2>1. /\ UNCHANGED <<pipe, clientVars, emitted>>
          /\ ~HasReader \/ (written' = Len(emitted) /\ pc \notin Early)
      BY <1>2, <1>6 DEF WriteFails, WriteClose, Transport, WriterInv, NextEvent
    <2>2. pc' = pc \/ (pc' = "killed" /\ ioThread' = "returned")
      BY <1>6 DEF WriteFails, WriteClose
    <2>3. WriterInv'
      <3>1. CASE WriteFails /\ sigpipe = "kills"
        BY <1>2, <3>1, ToldUnchanged DEF WriteFails, Transport, WriterInv, Early
      <3>2. CASE WriteFails /\ sigpipe # "kills"
        BY <1>2, <1>3, <3>2, ToldUnchanged DEF WriteFails, Transport, WriterInv
      <3>3. CASE WriteClose
        <4>1. written + 1 = Len(emitted) /\ pc \notin Early
          BY <1>2, <3>3 DEF WriteClose, Transport, WriterInv, NextEvent
        <4> QED BY <1>2, <3>3, <4>1, ToldUnchanged DEF WriteClose, Transport, WriterInv
      <3> QED BY <1>6, <3>1, <3>2, <3>3
    <2>4. ReaderInv'
      <3>1. error # "eof" /\ ~ \E i \in DOMAIN strand : strand[i] = "eof"
        BY <1>3 DEF Transport, ReaderInv
      <3> QED BY <2>1, <3>1 DEF Transport, ReaderInv, StrandInv, clientVars
    <2>5. pc \notin Early => pc' \notin Early
      BY <2>2 DEF Early
    <2>6. FlowInv'
      <3>1. UNCHANGED <<delivered, inbound, emitted, pipe>>
        BY <2>1 DEF clientVars
      <3>2. /\ delivered' \in Seq(Event) /\ pipe' \in Seq(Event)
            /\ \A i \in 1 .. Len(delivered') : delivered'[i] = emitted'[i]
            /\ Buffered' = 1 => inbound' = emitted'[Len(delivered') + 1]
            /\ \A i \in 1 .. Len(pipe') : pipe'[i] = emitted'[Len(delivered') + Buffered' + i]
        BY <1>4, <3>1 DEF Transport, FlowInv
      <3>3. Len(delivered') + Buffered' + Len(pipe') <= written'
        <4>1. Len(delivered) + Buffered + Len(pipe) <= written
          BY DEF Transport, FlowInv
        <4>2. Len(delivered) \in Nat /\ Len(pipe) \in Nat /\ Buffered \in Nat
          BY <1>4 DEF Transport, FlowInv
        <4>3. written \in Nat /\ written' = written + 1
          BY <1>2
        <4>4. Len(delivered) + Buffered + Len(pipe) <= written + 1
          BY <4>1, <4>2, <4>3
        <4> QED BY <1>4, <3>1, <4>3, <4>4
      <3>4. ~HasReader' \/ (written' = Len(emitted') /\ pc' \notin Early)
        BY <1>4, <2>1, <2>5
      <3> QED BY <3>2, <3>3, <3>4 DEF FlowInv
    <2> QED BY <1>1, <2>3, <2>4, <2>6 DEF Transport
  <1> QED BY <1>5, <1>6 DEF IoWrites

LEMMA OtherTransport ==
  ASSUME Transport,
         \/ LoopThrows \/ IoReturns \/ (\E id \in Ids : ProcessEnds(id)) \/ GroupIsOver \/ Ticks
         \/ UNCHANGED vars
  PROVE  Transport'
  <1>1. Inductive'
    BY OtherStep DEF Transport
  <1>2. UNCHANGED <<pipe, clientVars, written, emitted, ownReadEnd>>
    BY DEF LoopThrows, IoReturns, ProcessEnds, GroupIsOver, Ticks, vars, pipeVars, mainVars, ioVars
  <1>3. HasReader' => HasReader
    <2>1. UNCHANGED child \/ \E id \in Ids : child' = [child EXCEPT ![id] = "zombie"]
      BY DEF LoopThrows, IoReturns, ProcessEnds, GroupIsOver, Ticks, Clock, TimerExpires,
         AlarmIsMissed, UntilPasses, vars
    <2>2. child'[Reader] = "running" => child[Reader] = "running"
      BY <2>1, SizesAssumption DEF Transport, Inductive, DeathInv, Ids, Reader
    <2> QED BY <1>2, <2>2 DEF HasReader
  <1>4. CASE LoopThrows
    <2>1. pc \in Early /\ pc' \in {"failed", "hung"} /\ ioThread' = "returned" /\ ioThread = "running"
          /\ writeEnd
      BY <1>4 DEF LoopThrows, Transport, WriterInv, Early
    <2>2. WriterInv'
      BY <1>2, <2>1, ToldUnchanged DEF Transport, WriterInv, Early
    <2> QED BY <1>1, <1>2, <1>3, <2>1, <2>2, QuietStep DEF Transport
  <1>5. CASE IoReturns
    <2>1. ioThread = "stopping" /\ ioThread' = "returned" /\ UNCHANGED <<pc, writeEnd>>
      BY <1>5 DEF IoReturns, RunReturns, pipeVars, mainVars
    <2>2. WriterInv'
      BY <1>2, <2>1, ToldUnchanged DEF Transport, WriterInv
    <2> QED BY <1>1, <1>2, <1>3, <2>1, <2>2, QuietStep DEF Transport
  <1>6. CASE (\E id \in Ids : ProcessEnds(id)) \/ GroupIsOver \/ Ticks \/ UNCHANGED vars
    <2>1. UNCHANGED <<pc, writeEnd, ioThread>>
      BY <1>6 DEF ProcessEnds, GroupIsOver, Ticks, vars, pipeVars, mainVars, ioVars
    <2>2. WriterInv'
      BY <1>2, <2>1, ToldUnchanged DEF Transport, WriterInv
    <2> QED BY <1>1, <1>2, <1>3, <2>1, <2>2, QuietStep DEF Transport
  <1> QED BY <1>4, <1>5, <1>6

LEMMA ReadsTransport ==
  ASSUME Transport, Reads(Client)
  PROVE  Transport'
  <1>1. Inductive' /\ ReaderInv' /\ FlowInv'
    BY OtherStep, ClientReader, ClientFlow DEF Transport, Reads
  <1>2. UNCHANGED <<writeEnd, emitted, written, ioThread, pc, ownReadEnd>>
    BY DEF Reads, Client, IoService, ReadEvent, ReadFails, HandleError, HandleEvent, SetClosed, Close,
       mainVars, ioVars
  <1>3. WriterInv'
    BY <1>2, ToldUnchanged DEF Transport, WriterInv
  <1> QED BY <1>1, <1>3 DEF Transport

LEMMA TransportInit == Init => Transport
  <1> SUFFICES ASSUME Init PROVE Transport
    OBVIOUS
  <1>1. Buffered = 0
    BY DEF Init, ClientInit, Buffered
  <1>2. Inductive
    BY InductiveInit
  <1>3. WriterInv
    BY DEF Init, ClientInit, WriterInv
  <1>4. ReaderInv
    BY DEF Init, ClientInit, ReaderInv, StrandInv
  <1>5. FlowInv
    BY <1>1 DEF Init, ClientInit, FlowInv
  <1> QED BY <1>2, <1>3, <1>4, <1>5 DEF Transport

LEMMA TransportStep == Transport /\ [Next]_vars => Transport'
  BY MainTransport, IoTransport, OtherTransport, ReadsTransport DEF Next, Ended

-----------------------------------------------------------------------------
(* How many events there are, and how many handlers are queued. *)

Deaths == {id \in Ids : Told(id)}

\* At most one event of each start and each end, and the close event.
SizeInv ==
  /\ Inductive
  /\ wpc \in Holding /\ rpid \in Ids => ~Told(rpid)
  /\ Len(emitted) <= next + Cardinality(Deaths) + (IF pc \in Early THEN 0 ELSE 1)

LEMMA DeathsFinite ==
  /\ IsFiniteSet(Deaths) /\ Cardinality(Deaths) \in Nat /\ Cardinality(Deaths) <= N
  /\ IsFiniteSet(Deaths') /\ Cardinality(Deaths') \in Nat
<1>1. 0 \in Int /\ N - 1 \in Int /\ N \in Nat
  BY SizesAssumption
<1>2. IsFiniteSet(Ids) /\ Cardinality(Ids) = N
  BY <1>1, FS_Interval DEF Ids
<1>3. Deaths \subseteq Ids /\ Deaths' \subseteq Ids
  BY DEF Deaths
<1> QED  BY <1>2, <1>3, FS_Subset, FS_CardinalityType

LEMMA SizeInit == Init => SizeInv
<1> SUFFICES ASSUME Init PROVE SizeInv
  OBVIOUS
<1>1. emitted = <<>> /\ next = 0 /\ wpc = "idle" /\ pc = "start" /\ Len(emitted) = 0
  BY DEF Init, WaitInit
<1>2. Len(emitted) <= next + Cardinality(Deaths) + 0
  BY <1>1, DeathsFinite
<1> QED  BY <1>1, <1>2, InductiveInit DEF SizeInv, Holding, Early

\* A step that emits nothing.
LEMMA SizeSilent ==
  ASSUME SizeInv, Inductive', UNCHANGED <<emitted, next>>, pc' \in Early => pc \in Early,
         wpc' \in Holding /\ rpid' \in Ids => \/ wpc \in Holding /\ rpid' = rpid
                                              \/ child[rpid'] # "reaped"
  PROVE  SizeInv'
<1>1. \A id : Told(id)' <=> Told(id)
  BY ToldUnchanged
<1>2. Deaths' = Deaths
  BY <1>1 DEF Deaths
<1>3. Len(emitted') <= next' + Cardinality(Deaths') + (IF pc' \in Early THEN 0 ELSE 1)
  <2>1. Len(emitted) \in Nat /\ next \in Nat /\ Cardinality(Deaths) \in Nat
    BY DeathsFinite, SizesAssumption DEF SizeInv, Inductive, DeathInv, PlaceInv
  <2>2. Len(emitted) <= next + Cardinality(Deaths) + (IF pc \in Early THEN 0 ELSE 1)
    BY DEF SizeInv
  <2>3. Len(emitted) = Len(emitted') /\ Cardinality(Deaths') = Cardinality(Deaths) /\ next' = next
    BY <1>2
  <2> QED  BY <2>1, <2>2, <2>3
<1>4. ASSUME wpc' \in Holding, rpid' \in Ids  PROVE ~(Told(rpid)')
  <2>1. ~Told(rpid')
    BY <1>4 DEF SizeInv, Inductive, DeathInv
  <2> QED  BY <1>1, <2>1
<1> QED  BY <1>3, <1>4 DEF SizeInv

LEMMA SizeStep == SizeInv /\ [Next]_vars => SizeInv'
<1> SUFFICES ASSUME SizeInv, [Next]_vars  PROVE SizeInv'
  OBVIOUS
<1>0. Inductive /\ Inductive' /\ Len(emitted) \in Nat /\ next \in Nat /\ emitted \in Seq(Event)
  BY InductiveStep, SizesAssumption DEF SizeInv, Inductive, DeathInv, PlaceInv
<1>2. CASE StartProcess
  <2>1. /\ emitted' = Append(emitted, Spawn(next)) /\ next' = next + 1 /\ pc' = pc /\ next \in Ids
        /\ UNCHANGED <<rpid, wpc>> /\ wpc = "idle"
    BY <1>0, <1>2, IdsAreNaturals DEF StartProcess, MoreToStart, waitVars, Inductive, PlaceInv
  <2>2. Spawn(next) \in Event /\ \A id : Told(id)' <=> Told(id)
    BY <1>0, <2>1, ToldAppend, EventsDiffer DEF Event
  <2>3. Deaths' = Deaths
    BY <2>2 DEF Deaths
  <2>4. Len(emitted') = Len(emitted) + 1
    BY <1>0, <2>1, <2>2
  <2>5. Len(emitted') <= next' + Cardinality(Deaths') + (IF pc' \in Early THEN 0 ELSE 1)
    BY <1>0, <2>1, <2>3, <2>4, DeathsFinite DEF SizeInv
  <2> QED  BY <1>0, <2>1, <2>5 DEF SizeInv, Holding
<1>3. CASE WaitReturned /\ rpid \in Ids
  <2>1. /\ emitted' = Append(emitted, Termination(rpid)) /\ wpc' = "idle" /\ wpc = "returned"
        /\ UNCHANGED <<rpid, pc, next>> /\ Termination(rpid) \in Event
    BY <1>3 DEF WaitReturned, Event
  <2>2. rpid \notin Deaths
    BY <1>3, <2>1 DEF SizeInv, Deaths, Holding
  <2>3. Deaths' = Deaths \cup {rpid}
    <3>1. \A id : Told(id)' <=> Told(id) \/ rpid = id
      BY <1>0, <2>1, ToldAppend, EventsDiffer
    <3> QED  BY <1>3, <3>1 DEF Deaths
  <2>4. Cardinality(Deaths') = Cardinality(Deaths) + 1
    BY <2>2, <2>3, DeathsFinite, FS_AddElement
  <2>5. Len(emitted') = Len(emitted) + 1
    BY <1>0, <2>1
  <2>6. Len(emitted') <= next' + Cardinality(Deaths') + (IF pc' \in Early THEN 0 ELSE 1)
    BY <1>0, <2>1, <2>4, <2>5, DeathsFinite DEF SizeInv
  <2> QED  BY <1>0, <2>1, <2>6 DEF SizeInv, Holding
<1>4. CASE AllTerminated
  <2>1. /\ emitted' = Append(emitted, CloseEvent) /\ CloseEvent \in Event /\ wpc' = "idle"
        /\ next' = next /\ pc \in Early /\ pc' \notin Early
    BY <1>4 DEF AllTerminated, Event, Early, waitVars
  <2>2. \A id : Told(id)' <=> Told(id)
    BY <1>0, <2>1, ToldAppend, EventsDiffer
  <2>3. Deaths' = Deaths
    BY <2>2 DEF Deaths
  <2>4. Len(emitted') = Len(emitted) + 1
    BY <1>0, <2>1
  <2>5. Len(emitted') <= next' + Cardinality(Deaths') + (IF pc' \in Early THEN 0 ELSE 1)
    BY <1>0, <2>1, <2>3, <2>4, DeathsFinite DEF SizeInv
  <2> QED  BY <1>0, <2>1, <2>5 DEF SizeInv, Holding
<1>5. CASE Waits
  <2>1. UNCHANGED <<pc, next, emitted>>
    BY <1>5 DEF Waits, mainVars
  <2>2. wpc' \in Holding /\ rpid' \in Ids => (wpc \in Holding /\ rpid' = rpid) \/ child[rpid'] # "reaped"
    BY <1>0, <1>5, IdsAreNaturals DEF Waits, WaitStep, Enter, Arm, CollectChild, WaitInterrupted, Waiting, AfterWait,
       Disable, Check, Again, RetryInterrupted, AtTimeout, Holding, Inductive, WaitInv
  <2> QED  BY <1>0, <2>1, <2>2, SizeSilent
<1>6. CASE UNCHANGED emitted /\ ~Waits /\ ~StartProcess
  <2>1. UNCHANGED next
    BY <1>6 DEF Next, Main, Started, ClearPipes, SetUpSignals, LoopWaits, LeaveLoop, CollectWaits,
       WaitReturned, AllTerminated, StopIoService, JoinWorkers, LoopThrows, IoWrites, IoReturns,
       ProcessEnds, GroupIsOver, Ticks, Reads, Ended, vars, mainVars
  <2>2. pc' \in Early => pc \in Early
    BY <1>6 DEF Next, Main, Started, ClearPipes, SetUpSignals, LoopWaits, LeaveLoop, CollectWaits,
       WaitReturned, AllTerminated, StopIoService, JoinWorkers, LoopThrows, IoWrites, WriteEvent,
       WriteFails, WriteClose, IoReturns,
       ProcessEnds, GroupIsOver, Ticks, Reads, Ended, vars, mainVars, Early
  <2>3. wpc' \in Holding => wpc \in Holding /\ rpid' = rpid
    BY <1>6 DEF Next, Main, Started, ClearPipes, SetUpSignals, LoopWaits, LeaveLoop, CollectWaits,
       WaitFor, WaitForEver,
       WaitReturned, AllTerminated, StopIoService, JoinWorkers, LoopThrows, IoWrites, IoReturns,
       ProcessEnds, GroupIsOver, Ticks, Clock, TimerExpires, AlarmIsMissed, UntilPasses, Reads,
       Ended, vars, waitVars, Holding
  <2> QED  BY <1>0, <1>6, <2>1, <2>2, <2>3, SizeSilent
<1>7. StartProcess \/ (WaitReturned /\ rpid \in Ids) \/ AllTerminated \/ Waits \/ UNCHANGED emitted
  BY DEF Next, Main, Started, ClearPipes, SetUpSignals, LoopWaits, LeaveLoop, CollectWaits,
     WaitReturned, StopIoService, JoinWorkers, LoopThrows, IoWrites, IoReturns,
     ProcessEnds, GroupIsOver, Ticks, Reads, Ended, vars, mainVars
<1> QED  BY <1>2, <1>3, <1>4, <1>5, <1>6, <1>7

\* close() queues its function once.
QueueInv ==
  /\ \A i, j \in DOMAIN strand : strand[i] = "setClosed" /\ strand[j] = "setClosed" => i = j
  /\ closing = "no" => \A i \in DOMAIN strand : strand[i] # "setClosed"

\* What else TypeOK says.
RangeInv ==
  /\ pc \in {"start", "clearPipes", "signals", "loop", "collect", "stop", "join",
             "done", "failed", "killed", "hung"}
  /\ late \in BOOLEAN /\ timer \in BOOLEAN /\ alarm \in BOOLEAN /\ over \in BOOLEAN
  /\ rpid \in Ids \cup {Nothing, Interrupted}
  /\ reading \in BOOLEAN /\ open \in BOOLEAN /\ closed \in BOOLEAN
  /\ closing \in {"no", "queued", "yes"}
  /\ ioThread \in {"running", "stopping", "returned"} /\ ownReadEnd \in BOOLEAN
  /\ Len(pipe) <= Capacity

TypeInv == Transport /\ SizeInv /\ QueueInv /\ RangeInv

LEMMA QueueStep ==
  ASSUME QueueInv, strand \in Seq(Handler), [Next]_vars
  PROVE  QueueInv'
<1>1. CASE UNCHANGED <<strand, closing>>
  BY <1>1 DEF QueueInv
<1>2. ASSUME NEW h \in Handler, strand' = Append(strand, h),
             h = "setClosed" => closing = "no" /\ closing' # "no",
             h # "setClosed" => closing' = closing
      PROVE  QueueInv'
  <2>1. /\ DOMAIN strand = 1 .. Len(strand) /\ DOMAIN strand' = 1 .. (Len(strand) + 1)
        /\ \A i \in 1 .. Len(strand) : strand'[i] = strand[i]
        /\ strand'[Len(strand) + 1] = h /\ Len(strand) \in Nat
    BY <1>2, AppendIs
  <2>2. ASSUME NEW i \in DOMAIN strand', strand'[i] = "setClosed"
        PROVE  \/ i \in DOMAIN strand /\ strand[i] = "setClosed"
               \/ i = Len(strand) + 1 /\ h = "setClosed"
    BY <2>1, <2>2
  <2> QED  BY <1>2, <2>1, <2>2 DEF QueueInv
<1>3. ASSUME strand # <<>>, strand' = Tail(strand), closing' = "no" => closing = "no"
      PROVE  QueueInv'
  <2>1. /\ DOMAIN strand = 1 .. Len(strand) /\ DOMAIN strand' = 1 .. (Len(strand) - 1)
        /\ \A i \in 1 .. (Len(strand) - 1) : strand'[i] = strand[i + 1] /\ Len(strand) \in Nat
    BY <1>3, TailIs
  <2>2. ASSUME NEW i \in DOMAIN strand'  PROVE i + 1 \in DOMAIN strand /\ strand'[i] = strand[i + 1] /\ i \in Nat
    BY <2>1
  <2>3. ASSUME NEW i \in DOMAIN strand', NEW j \in DOMAIN strand', strand'[i] = "setClosed", strand'[j] = "setClosed"
        PROVE  i = j
    <3>1. i + 1 = j + 1
      BY <2>2, <2>3 DEF QueueInv
    <3> QED  BY <2>2, <3>1
  <2> QED  BY <1>3, <2>2, <2>3 DEF QueueInv
<1>4. CASE Reads(Client) /\ ~UNCHANGED <<strand, closing>>
  <2>1. CASE ReadEvent
    BY <1>2, <2>1 DEF ReadEvent, Handler
  <2>2. CASE ReadFails
    <3>1. PICK h \in {"operation_aborted", "bad_descriptor", "eof"} : strand' = Append(strand, h)
      BY <2>2 DEF ReadFails
    <3> QED  BY <1>2, <2>2, <3>1 DEF ReadFails, Handler
  <2>3. CASE HandleError
    BY <1>3, <2>3 DEF HandleError, NextHandler
  <2>4. CASE HandleEvent
    BY <1>3, <2>4 DEF HandleEvent, NextHandler
  <2>5. CASE SetClosed
    BY <1>3, <2>5 DEF SetClosed, NextHandler
  <2>6. CASE Close
    BY <1>2, <2>6 DEF Close, DispatchClosed, CloseDescriptor, Handler, QueueInv
  <2> QED  BY <1>4, <2>1, <2>2, <2>3, <2>4, <2>5, <2>6 DEF Reads, Client, IoService
<1> QED
  BY <1>1, <1>4 DEF Next, Main, StartProcess, Started, ClearPipes, SetUpSignals, LoopWaits, LeaveLoop,
     CollectWaits, Waits, WaitReturned, AllTerminated, StopIoService, JoinWorkers, LoopThrows, IoWrites,
     IoReturns, ProcessEnds, GroupIsOver, Ticks, Ended, vars, clientVars

LEMMA RangeStep ==
  ASSUME RangeInv, Transport, SizeInv', [Next]_vars
  PROVE  RangeInv'
<1> USE DEF RangeInv
<1>1. CASE StartProcess \/ Started \/ ClearPipes \/ SetUpSignals \/ LeaveLoop \/ WaitReturned
           \/ AllTerminated \/ StopIoService \/ JoinWorkers \/ LoopThrows
  <2>1. /\ UNCHANGED <<late, timer, alarm, rpid, reading, open, closed, closing, pipe, over>>
        /\ ownReadEnd' = FALSE \/ ownReadEnd' = ownReadEnd
    BY <1>1 DEF StartProcess, Started, ClearPipes, SetUpSignals, LeaveLoop, WaitReturned, AllTerminated,
       StopIoService, JoinWorkers, LoopThrows, waitVars, pipeVars, clientVars, mainVars, ioVars
  <2>2. /\ pc' \in {"start", "clearPipes", "signals", "loop", "collect", "stop", "join",
                    "done", "failed", "killed", "hung"}
        /\ ioThread' \in {"running", "stopping", "returned"}
    BY <1>1 DEF StartProcess, Started, ClearPipes, SetUpSignals, LeaveLoop, WaitReturned, AllTerminated,
       StopIoService, JoinWorkers, LoopThrows, ioVars
  <2> QED  BY <2>1, <2>2
<1>8. CASE GroupIsOver
  BY <1>8 DEF GroupIsOver, waitVars, pipeVars, clientVars, mainVars, ioVars
<1>2. CASE LoopWaits \/ CollectWaits
  <2>1. /\ UNCHANGED <<timer, alarm, reading, open, closed, closing, pipe, over, ownReadEnd, pc, ioThread>>
        /\ late' = FALSE \/ late' = late
        /\ rpid' = Nothing
    BY <1>2 DEF LoopWaits, CollectWaits, WaitFor, WaitForEver, pipeVars, clientVars, mainVars, ioVars
  <2>2. late' \in BOOLEAN
    BY <2>1, Zenon
  <2> QED  BY <2>1, <2>2
<1>3. CASE Waits
  <2>1. UNCHANGED <<pipe, reading, open, closed, closing, pc, over, ioThread, ownReadEnd>>
    BY <1>3 DEF Waits, pipeVars, clientVars, mainVars, ioVars
  <2>2. CASE Arm
    <3>1. PICK duration \in Remaining : timer' = (TimerValue(duration) # 0)
      BY <2>2 DEF Arm
    <3>2. timer' \in BOOLEAN
      BY ONLY <3>1, Zenon
    <3> QED  BY <2>1, <2>2, <3>2 DEF Arm
  <2>3. CASE Enter \/ (\E id \in Ids : CollectChild(id)) \/ WaitInterrupted \/ Disable \/ Check \/ Again
    <3>1. /\ late' = late /\ (timer' = FALSE \/ timer' = timer) /\ (alarm' = FALSE \/ alarm' = alarm)
          /\ rpid' \in Ids \cup {Nothing, Interrupted}
      BY <2>3 DEF Enter, CollectChild, WaitInterrupted, Disable, Check, AtTimeout, Again
    <3>2. late' \in BOOLEAN /\ timer' \in BOOLEAN /\ alarm' \in BOOLEAN
      BY <3>1, Zenon
    <3> QED  BY <2>1, <3>1, <3>2
  <2> QED  BY <1>3, <2>2, <2>3 DEF Waits, WaitStep
<1>4. CASE IoWrites
  <2>1. /\ UNCHANGED <<late, timer, alarm, rpid, reading, open, closed, closing, over, ownReadEnd>>
        /\ pc' = pc \/ pc' = "killed"
        /\ ioThread' = ioThread \/ ioThread' = "returned"
        /\ pipe' = pipe \/ (Len(pipe) < Capacity /\ pipe' = Append(pipe, NextEvent))
    BY <1>4 DEF IoWrites, WriteEvent, WriteFails, WriteClose, waitVars, clientVars
  <2>2. Len(pipe') <= Capacity
    BY <2>1, SizesAssumption DEF Transport, FlowInv
  <2> QED  BY <2>1, <2>2
<1>5. CASE IoReturns \/ (\E id \in Ids : ProcessEnds(id)) \/ UNCHANGED vars
  BY <1>5 DEF IoReturns, ProcessEnds, vars, waitVars, pipeVars, clientVars, mainVars, ioVars
<1>6. CASE Ticks
  <2>1. /\ UNCHANGED <<rpid, reading, open, closed, closing, pipe, over, ownReadEnd, pc, ioThread>>
        /\ late' = TRUE \/ late' = late
        /\ timer' = TRUE \/ timer' = timer
        /\ alarm' = TRUE \/ alarm' = FALSE \/ alarm' = alarm
    BY <1>6 DEF Ticks, Clock, TimerExpires, ArmedAgain, AlarmIsMissed, UntilPasses, pipeVars, clientVars,
       mainVars, ioVars
  <2>2. late' \in BOOLEAN /\ timer' \in BOOLEAN /\ alarm' \in BOOLEAN
    BY <2>1, Zenon
  <2> QED  BY <2>1, <2>2
<1>7. CASE Reads(Client)
  <2>1. UNCHANGED <<late, timer, alarm, rpid, pc, over, ioThread, ownReadEnd>>
    BY <1>7 DEF Reads, waitVars, mainVars, ioVars
  <2>2. /\ reading' \in BOOLEAN /\ open' \in BOOLEAN /\ closed' \in BOOLEAN
        /\ closing' \in {"no", "queued", "yes"}
    BY <1>7 DEF Reads, Client, IoService, ReadEvent, ReadUntilHandled, ReadFails, HandleError, HandleEvent, SetClosed,
       Close, DispatchClosed, CloseDescriptor
  <2>3. pipe' = pipe \/ (pipe # <<>> /\ pipe' = Tail(pipe))
    BY <1>7 DEF Reads, Client, IoService, ReadEvent, ReadFails, HandleError, HandleEvent, SetClosed,
       Close
  <2>4. Len(pipe') <= Capacity
    <3>1. pipe \in Seq(Event)
      BY DEF Transport, FlowInv
    <3> QED  BY <2>3, <3>1, TailIs, SizesAssumption
  <2> QED  BY <2>1, <2>2, <2>4
<1> QED  BY <1>1, <1>2, <1>3, <1>4, <1>5, <1>6, <1>7, <1>8 DEF Next, Main, Ended

-----------------------------------------------------------------------------
(* The theorems. *)

\* The strengthening is an invariant of the composed system.
THEOREM InductiveInvariant == Spec => []Inductive
  BY InductiveInit, InductiveStep, PTL DEF Spec

\* Whatever SIGALRM interrupts or misses, waitFor returns nothing only when the
\* time is over, and leaves no timer behind.
THEOREM WaitCorrect == Spec => []WaitTellsTruth
  <1>1. Inductive => WaitTellsTruth
    BY DEF Inductive, WaitInv, WaitTellsTruth
  <1> QED BY <1>1, InductiveInvariant, PTL

\* A termination event is emitted for each process that was reaped, and for no other.
THEOREM DeathsAreTold == Spec => []EveryDeathIsTold
  <1>1. Inductive => EveryDeathIsTold
    BY DEF Inductive, DeathInv, Holding, EveryDeathIsTold
  <1> QED BY <1>1, InductiveInvariant, PTL

\* The invariant of the way from the monitor to the slots.
THEOREM TransportInvariant == Spec => []Transport
  BY TransportInit, TransportStep, PTL DEF Spec

\* For any number of processes and any capacity of the pipe the slots are
\* called with the events in order, none twice and none left out.
THEOREM OrderCorrect == Spec => []DeliveredInOrder
  <1>1. Transport => DeliveredInOrder
    <2> SUFFICES ASSUME Transport PROVE DeliveredInOrder
      OBVIOUS
    <2>1. /\ delivered \in Seq(Event) /\ emitted \in Seq(Event)
          /\ Len(delivered) <= Len(emitted)
          /\ \A i \in 1 .. Len(delivered) : delivered[i] = emitted[i]
      <3>1. Buffered \in {0, 1} /\ Len(delivered) \in Nat /\ Len(pipe) \in Nat /\ Len(emitted) \in Nat
        BY DEF Transport, FlowInv, WriterInv, Buffered
      <3> QED BY <3>1 DEF Transport, FlowInv, WriterInv
    <2>2. SubSeq(delivered, 1, Len(delivered)) = SubSeq(emitted, 1, Len(delivered))
      BY <2>1
    <2> QED BY <2>1, <2>2 DEF DeliveredInOrder, IsPrefix
  <1> QED BY <1>1, TransportInvariant, PTL

\* The error is the last thing the slots hear and says what happened, whoever
\* calls close() and whatever is in flight then.
THEOREM ErrorCorrect == Spec => []ErrorIsLastAndTrue
  <1>1. Transport => ErrorIsLastAndTrue
    BY DEF Transport, ReaderInv, IsRead, ErrorIsLastAndTrue
  <1> QED BY <1>1, TransportInvariant, PTL

\* When the io thread is stopped no process of the group is left to hear what
\* was still queued.
THEOREM AbandonedCorrect == Spec => []AbandonedUnheard
  <1>1. Transport => AbandonedUnheard
    <2> SUFFICES ASSUME Transport, ioThread # "running", pc # "hung", ~Gone
                 PROVE  child[Reader] = "reaped"
      BY DEF AbandonedUnheard
    <2>1. Reader \in Ids
      BY SizesAssumption DEF Reader, Ids
    <2>2. Told(Reader)
      BY <2>1 DEF Transport, WriterInv, Gone
    <2> QED BY <2>1, <2>2 DEF Transport, Inductive, DeathInv
  <1> QED BY <1>1, TransportInvariant, PTL

\* The types, and two bounds no queue in the code states: the writer is handed
\* one event for each start and each end and the close event, so what
\* EventWriter queues is bounded by the task, and of the reader's handlers there
\* are never more than the one of the read and the one of close().
THEOREM TypeCorrect == Spec => []TypeOK
<1>1. Init => TypeInv
  <2> SUFFICES ASSUME Init PROVE TypeInv
    OBVIOUS
  <2>1. QueueInv
    BY DEF Init, ClientInit, QueueInv
  <2>2. RangeInv
    <3>1. /\ pc = "start" /\ late = FALSE /\ timer = FALSE /\ alarm = FALSE /\ over = FALSE
          /\ rpid = Nothing /\ reading = TRUE /\ open = TRUE /\ closed = FALSE /\ closing = "no"
          /\ ioThread = "running" /\ ownReadEnd = TRUE /\ pipe = <<>>
      BY DEF Init, WaitInit, ClientInit
    <3>2. Len(pipe) <= Capacity
      BY <3>1, SizesAssumption
    <3> QED  BY <3>1, <3>2 DEF RangeInv
  <2> QED  BY <2>1, <2>2, TransportInit, SizeInit DEF TypeInv
<1>2. TypeInv /\ [Next]_vars => TypeInv'
  <2> SUFFICES ASSUME TypeInv, [Next]_vars  PROVE TypeInv'
    OBVIOUS
  <2>1. Transport' /\ SizeInv'
    BY TransportStep, SizeStep DEF TypeInv
  <2>2. QueueInv'
    BY QueueStep DEF TypeInv, Transport, ReaderInv, StrandInv
  <2>3. RangeInv'
    BY <2>1, RangeStep DEF TypeInv
  <2> QED  BY <2>1, <2>2, <2>3 DEF TypeInv
<1>3. TypeInv => TypeOK
  <2> SUFFICES ASSUME TypeInv  PROVE TypeOK
    OBVIOUS
  <2>1. WaitTypeOK
    BY DEF TypeInv, SizeInv, Inductive, DeathInv, WaitInv, WaitStates, RangeInv, WaitTypeOK
  <2>2. Len(strand) <= 2
    <3>1. DOMAIN strand = 1 .. Len(strand) /\ Len(strand) \in Nat
      BY DEF TypeInv, Transport, ReaderInv, StrandInv
    <3>2. \A i, j \in DOMAIN strand : (IsRead(strand[i]) <=> IsRead(strand[j])) => i = j
      BY DEF TypeInv, QueueInv, Transport, ReaderInv, StrandInv, IsRead
    <3>3. ASSUME Len(strand) > 2  PROVE FALSE
      <4>1. 1 \in DOMAIN strand /\ 2 \in DOMAIN strand /\ 3 \in DOMAIN strand
        BY <3>1, <3>3
      <4>2. \/ IsRead(strand[1]) <=> IsRead(strand[2])
            \/ IsRead(strand[1]) <=> IsRead(strand[3])
            \/ IsRead(strand[2]) <=> IsRead(strand[3])
        BY DEF IsRead
      <4> QED  BY <3>2, <4>1, <4>2
    <3> QED  BY <3>1, <3>3
  <2>3. ClientTypeOK
    BY <2>2 DEF TypeInv, RangeInv, Transport, ReaderInv, StrandInv, ClientTypeOK
  <2>4. Len(emitted) <= 2 * N + 1
    <3>1. next \in 0 .. N /\ Len(emitted) \in Nat
      BY DEF TypeInv, SizeInv, Inductive, PlaceInv, DeathInv
    <3> QED  BY <3>1, DeathsFinite, SizesAssumption DEF TypeInv, SizeInv
  <2>5. next \in 0 .. N /\ sigpipe \in {"kills", "ignored"} /\ written \in 0 .. Len(emitted)
    BY DEF TypeInv, Transport, Inductive, PlaceInv, WriterInv
  <2> QED  BY <2>1, <2>3, <2>4, <2>5 DEF TypeInv, RangeInv, TypeOK
<1> QED  BY <1>1, <1>2, <1>3, PTL DEF Spec
=============================================================================
