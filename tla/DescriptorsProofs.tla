-------------------------- MODULE DescriptorsProofs --------------------------
(***************************************************************************)
(* For every task that names descriptor 0, with any descriptors, pipes and   *)
(* aliases, no stream is lost on its way to the process.  Descriptor 0 is    *)
(* needed because fdMap_ takes 0 for "not moved".                            *)
(***************************************************************************)
EXTENDS Descriptors, FiniteSetTheorems, WellFoundedInduction, TLAPS

-----------------------------------------------------------------------------
(* Lowest, and what an object can be. *)

LEMMA LowestIs ==
  ASSUME NEW S \in SUBSET Fds, S # {}
  PROVE  Lowest(S) \in S /\ \A fd \in S : Lowest(S) <= fd
  <1>1. S \subseteq Nat
    BY TargetsAssumption DEF Fds
  <1>2. PICK x \in S : \A y \in S : ~(<<y, x>> \in OpToRel(<, Nat))
    BY <1>1, WFMin, NatLessThanWellFounded, Zenon
  <1>3. ASSUME NEW y \in S PROVE x <= y
    <2>1. y < x => <<y, x>> \in {ss \in Nat \X Nat : ss[1] < ss[2]}
      BY <1>1
    <2>2. OpToRel(<, Nat) = {ss \in Nat \X Nat : ss[1] < ss[2]}
      BY Zenon DEF OpToRel
    <2>3. ~(y < x)
      BY <1>2, <2>1, <2>2, Zenon
    <2> QED BY <1>1, <2>3
  <1> QED BY <1>3, Zenon DEF Lowest

LEMMA Objects ==
  /\ None # Own /\ None \notin PipeEnd /\ Own \notin PipeEnd
  /\ \A t : File(t) # None /\ File(t) # Own /\ File(t) \notin PipeEnd
  /\ <<"file">> \notin PipeEnd /\ <<"file">> \notin Alias
  /\ \A s \in Alias : s \notin PipeEnd
  <1>1. None[1] = "none" /\ Own[1] = "own" /\ \A t : File(t)[1] = "file"
    BY DEF None, Own, File
  <1>2. \A p \in PipeEnd : p[1] \in {"READ", "WRITE"}
    BY DEF PipeEnd
  <1>3. \A s \in Alias : s[1] = "alias"
    BY DEF Alias
  <1>4. <<"file">>[1] = "file"
    OBVIOUS
  <1> QED BY <1>1, <1>2, <1>3, <1>4

\* An alias that was resolved named a stream of the task that is none itself.
Sound(t) == IsAlias(t) => GoodAlias(t)

LEMMA WantedIs ==
  ASSUME TypeOK, NEW t \in required
  PROVE  /\ ~IsAlias(t) => Wanted(t) = IF streams[t] = <<"file">> THEN File(t) ELSE streams[t]
         /\ IsAlias(t) /\ Sound(t) => /\ streams[t][2] \in required
                                      /\ ~IsAlias(streams[t][2])
                                      /\ Wanted(t) = Wanted(streams[t][2])
         /\ Sound(t) => Wanted(t) \in Object /\ Wanted(t) # None /\ Wanted(t) # Own
  <1>1. ASSUME NEW u \in required, ~IsAlias(u)
        PROVE  /\ Wanted(u) = IF streams[u] = <<"file">> THEN File(u) ELSE streams[u]
               /\ streams[u] = <<"file">> \/ streams[u] \in PipeEnd
               /\ Wanted(u) \in Object /\ Wanted(u) # None /\ Wanted(u) # Own
    <2>1. Wanted(u) = IF streams[u] = <<"file">> THEN File(u) ELSE streams[u]
      BY <1>1 DEF Wanted
    <2>2. streams[u] = <<"file">> \/ streams[u] \in PipeEnd
      BY <1>1 DEF TypeOK, Stream, IsAlias
    <2> QED BY <2>1, <2>2, Objects DEF Object, TypeOK
  <1>2. ASSUME IsAlias(t), Sound(t)
        PROVE  /\ streams[t][2] \in required /\ ~IsAlias(streams[t][2])
               /\ Wanted(t) = Wanted(streams[t][2])
    BY <1>2 DEF Sound, GoodAlias, Wanted
  <1> QED BY <1>1, <1>2

-----------------------------------------------------------------------------
(* The invariant, phase by phase. *)

\* Which streams are resolved and which are still to be.
ResolvedInv ==
  /\ pc = "resolve" => /\ todo \cap DOMAIN descriptors = {} /\ todo \cap Aliases = {}
                       /\ todo \cup DOMAIN descriptors = required \ Aliases
  /\ pc = "aliases" => /\ todo \cap DOMAIN descriptors = {} /\ todo \subseteq Aliases
                       /\ todo \cup DOMAIN descriptors = required
  /\ \A t \in DOMAIN descriptors : Sound(t) /\ descriptors[t] # 0

\* Each stream has a descriptor of its own that refers to what was asked for.
PlacedInv ==
  /\ \A t \in DOMAIN descriptors : table[descriptors[t]] = Wanted(t)
  /\ \A t, u \in DOMAIN descriptors : descriptors[t] = descriptors[u] => t = u

\* What else the control process has open.
ParentInv ==
  /\ \A fd \in Std : table[fd] = Own
  /\ \A p \in PipeEnd : \E fd \in Fds : table[fd] = p
  /\ \A fd \in Fds : table[fd] # None =>
       fd \in Std \/ table[fd] \in PipeEnd \/ fd \in Range(descriptors)

\* What the monitor knows of the child's table while it rearranges.
MonitorInv ==
  /\ used = {Place(t) : t \in required}
  /\ \A t, u \in required : Place(t) = Place(u) => t = u
  /\ \A t \in required : Place(t) \in Fds /\ table[Place(t)] = Wanted(t)
  /\ \A fd \in Fds : table[fd] # None => fd \in used

\* Descriptors below freeFd are not looked at again, so what closeFd marks as
\* free there does no harm; above there are as many as streams are in the way.
Ahead == {fd \in free : freeFd # -1 /\ fd >= freeFd}

FreeInv ==
  /\ conflict = used \cap required
  /\ RoomToMove => Cardinality(conflict) <= Cardinality(Ahead)
  /\ \A fd \in Fds : fdMap[fd] # 0 => fdMap[fd] \notin required
  /\ freeFd # -1 => /\ freeFd >= 1 /\ freeFd \in free /\ freeFd \notin used \cup required
                    /\ \A fd \in free : fd > freeFd => fd \notin used \cup required

Inductive ==
  /\ TypeOK /\ Always \subseteq required
  /\ ResolvedInv
  /\ \A fd \in Fds : pc \in {"resolve", "aliases", "setup"} => fdMap[fd] = 0
  /\ pc \in {"resolve", "aliases"} => PlacedInv /\ ParentInv
  /\ pc = "setup" => PlacedInv /\ \A fd \in Fds : table[fd] # None => fd \in Range(descriptors)
  /\ pc \in {"setup", "free", "move", "exec"} => \A t \in required : Sound(t)
  /\ pc \in {"setup", "free", "move", "exec"} =>
       \A t, u \in required : descriptors[t] = descriptors[u] => t = u
  /\ pc \in {"free", "move"} => MonitorInv
  /\ pc = "free" => FreeInv
  /\ pc = "move" => \A t \in todo : Place(t) \notin required
  /\ StreamsArrive
  /\ SetUpSucceeds

-----------------------------------------------------------------------------
(* The constructor of ProcessStarter. *)

\* A step that leaves the task alone leaves alone what it asks for.
LEMMA TaskStays ==
  ASSUME UNCHANGED streams
  PROVE  /\ required' = required /\ Aliases' = Aliases
         /\ \A t : /\ Wanted(t)' = Wanted(t) /\ Sound(t)' = Sound(t) /\ IsAlias(t)' = IsAlias(t)
                   /\ GoodAlias(t)' = GoodAlias(t)
         /\ NamesPipeEndTwice' = NamesPipeEndTwice /\ RoomToMove' = RoomToMove
  BY DEF required, RoomToMove, Aliases, Wanted, Sound, IsAlias, GoodAlias, NamesPipeEndTwice

\* What addStream does for a stream that is none of the resolved ones.
LEMMA AddStreamStep ==
  ASSUME Inductive, NEW t \in required, pc \in {"resolve", "aliases"}, t \in todo,
         Sound(t), IsAlias(t) <=> pc = "aliases", AddStream(t)
  PROVE  Inductive'
  <1> DEFINE fd == GetFd(t)
  <1> DEFINE D == DOMAIN descriptors
  <1>1. /\ UNCHANGED <<streams, used, free, conflict, freeFd, fdMap>> /\ todo' = todo \ {t}
        /\ table' = [table EXCEPT ![fd] = Opened(t)]
        /\ descriptors' = [x \in D \cup {t} |-> IF x = t THEN fd ELSE descriptors[x]]
        /\ pc' = IF fd \in Range(descriptors) THEN "asserted" ELSE pc
        /\ streams[t] \in PipeEnd \/ Closed # {}
    BY DEF AddStream
  <1>2. /\ PlacedInv /\ ParentInv /\ ResolvedInv /\ TypeOK
    BY DEF Inductive
  <1>3. t \notin D /\ D \subseteq required /\ D \in SUBSET Targets /\ descriptors \in [D -> Fds]
    BY <1>2 DEF ResolvedInv, TypeOK
  <1>4. Range(descriptors) = {descriptors[x] : x \in D}
    BY DEF Range
  <1> DEFINE Found == /\ fd \in Fds /\ Opened(t) = Wanted(t) /\ table[fd] \in {None, Wanted(t)}
                      /\ fd \in Range(descriptors) => NamesPipeEndTwice
  <1>5. ASSUME streams[t] \in PipeEnd PROVE Found
    <2>1. fd \in Fds /\ table[fd] = streams[t]
      <3>1. \E x \in Fds : table[x] = streams[t]
        BY <1>2, <1>5 DEF ParentInv
      <3> QED BY <1>5, <3>1, Zenon DEF GetFd
    <2>2. ~IsAlias(t) /\ Wanted(t) = streams[t] /\ Opened(t) = streams[t]
      <3>1. ~IsAlias(t) /\ streams[t] # <<"file">>
        BY <1>5, Objects DEF IsAlias
      <3> QED BY <1>2, <1>5, <3>1, WantedIs, Zenon DEF Opened
    <2>3. ASSUME fd \in Range(descriptors) PROVE NamesPipeEndTwice
      <3>1. PICK u \in D : descriptors[u] = fd
        BY <1>4, <2>3
      <3>2. ~IsAlias(u) /\ u # t /\ u \in required
        BY <1>2, <1>3, <2>2, <3>1 DEF ResolvedInv, Aliases
      <3>3. Wanted(u) = streams[t]
        BY <1>2, <2>1, <3>1 DEF PlacedInv
      <3>4. streams[u] = streams[t]
        BY <1>2, <1>5, <3>2, <3>3, WantedIs, Objects
      <3> QED BY <1>5, <3>2, <3>4 DEF NamesPipeEndTwice
    <2> HIDE DEF fd
    <2> QED BY <2>1, <2>2, <2>3
  <1>6. ASSUME streams[t] \notin PipeEnd PROVE Found
    <2>1. fd \in Fds /\ table[fd] = None
      <3>1. fd = Lowest(Closed) /\ Closed # {} /\ Closed \in SUBSET Fds
        BY <1>1, <1>6 DEF GetFd, Closed
      <3> QED BY <3>1, LowestIs DEF Closed
    <2>2. Opened(t) = Wanted(t)
      <3>1. CASE ~IsAlias(t)
        <4>1. streams[t] = <<"file">>
          BY <1>2, <1>6, <3>1 DEF TypeOK, Stream, IsAlias
        <4>2. Opened(t) = File(t)
          BY <1>6, <3>1, <4>1, Zenon DEF Opened
        <4> QED BY <1>2, <3>1, <4>1, <4>2, WantedIs
      <3>2. CASE IsAlias(t)
        <4>1. streams[t] # <<"file">>
          BY <3>2, Objects DEF IsAlias
        <4>2. Opened(t) = table[descriptors[streams[t][2]]]
          BY <1>6, <3>2, <4>1, Zenon DEF Opened
        <4>3. streams[t][2] \in D
          BY <1>2, <3>2, WantedIs DEF ResolvedInv, Aliases
        <4> QED BY <1>2, <3>2, <4>2, <4>3, WantedIs DEF PlacedInv
      <3> QED BY <3>1, <3>2
    <2>3. \A u \in D : table[descriptors[u]] # None
      BY <1>2, <1>3, WantedIs DEF PlacedInv, ResolvedInv
    <2> HIDE DEF fd
    <2>4. fd \notin Range(descriptors)
      BY <1>4, <2>1, <2>3
    <2> QED BY <2>1, <2>2, <2>4
  <1>7. Found
    BY <1>5, <1>6
  <1> HIDE DEF fd
  <1>8. Wanted(t) \in Object /\ Wanted(t) # None /\ Wanted(t) # Own
    BY <1>2, WantedIs
  <1>9. /\ DOMAIN descriptors' = D \cup {t} /\ descriptors'[t] = fd
        /\ \A u \in D : descriptors'[u] = descriptors[u]
        /\ descriptors' \in [D \cup {t} -> Fds]
    BY <1>1, <1>3, <1>7
  <1>10. /\ table' \in [Fds -> Object] /\ table'[fd] = Wanted(t)
         /\ \A x \in Fds : x # fd => table'[x] = table[x]
         /\ \A x \in Fds : table[x] # None => table'[x] = table[x]
    BY <1>1, <1>2, <1>7, <1>8 DEF TypeOK
  <1>11. ResolvedInv'
    <2>1. fd # 0
      BY <1>2, <1>7, <1>8, Objects DEF ParentInv, Std
    <2> QED BY <1>1, <1>2, <1>3, <1>9, <2>1, TaskStays DEF ResolvedInv, Aliases
  <1>12. TypeOK'
    BY <1>1, <1>2, <1>3, <1>9, <1>10, TaskStays DEF TypeOK
  <1>13. CASE fd \in Range(descriptors)
    BY <1>1, <1>7, <1>11, <1>12, <1>13, TaskStays DEF Inductive, StreamsArrive, SetUpSucceeds
  <1>14. CASE fd \notin Range(descriptors)
    <2>1. PlacedInv'
      <3>1. ASSUME NEW u \in D PROVE table'[descriptors[u]] = Wanted(u) /\ descriptors[u] # fd
        <4>1. table[descriptors[u]] = Wanted(u) /\ Wanted(u) # None /\ descriptors[u] \in Fds
          BY <1>2, <1>3, WantedIs DEF PlacedInv, ResolvedInv
        <4> QED BY <1>4, <1>10, <1>14, <4>1
      <3> QED BY <1>1, <1>2, <1>9, <1>10, <3>1, TaskStays DEF PlacedInv
    <2>2. ParentInv'
      <3>1. \A x \in Std : x \in Fds /\ table'[x] = Own
        BY <1>2, <1>10, TargetsAssumption, Objects DEF ParentInv, Std, Fds
      <3>2. \A p \in PipeEnd : \E x \in Fds : table'[x] = p
        BY <1>2, <1>10, Objects DEF ParentInv
      <3>3. Range(descriptors') = Range(descriptors) \cup {fd}
        BY <1>4, <1>9 DEF Range
      <3>4. \A x \in Fds : table'[x] # None =>
              x \in Std \/ table'[x] \in PipeEnd \/ x \in Range(descriptors)'
        BY <1>2, <1>10, <3>3 DEF ParentInv
      <3> QED BY <3>1, <3>2, <3>4 DEF ParentInv
    <2>3. pc' = pc /\ fdMap' = fdMap /\ required' = required /\ pc' \in {"resolve", "aliases"}
      BY <1>1, <1>14, TaskStays
    <2>4. (\A x \in Fds : fdMap[x] = 0) /\ Always \subseteq required
      BY DEF Inductive
    <2>5. StreamsArrive' /\ SetUpSucceeds'
      BY <2>3 DEF StreamsArrive, SetUpSucceeds
    <2> QED BY <1>11, <1>12, <2>1, <2>2, <2>3, <2>4, <2>5 DEF Inductive
  <1> QED BY <1>13, <1>14

-----------------------------------------------------------------------------
(* The initial state, the ends of the loops, and the fork. *)

\* Every end of a pipe has one of the descriptors after the standard streams.
LEMMA InitInductive == Init => Inductive
  <1> SUFFICES ASSUME Init PROVE Inductive
    OBVIOUS
  <1>1. /\ pc = "resolve" /\ todo = required \ Aliases /\ descriptors = <<>>
        /\ used = {} /\ free = {} /\ conflict = {} /\ freeFd = -1
        /\ fdMap = [fd \in Fds |-> 0]
        /\ required \subseteq Targets /\ streams \in [required -> Stream]
        /\ Always \subseteq required
    BY DEF Init, required, Aliases
  <1>2. DOMAIN descriptors = {} /\ descriptors \in [DOMAIN descriptors -> Fds]
    BY <1>1
  <1> DEFINE End(fd) == <<IF fd % 2 = 1 THEN "READ" ELSE "WRITE", (fd - 3) \div 2>>
  <1>3. ASSUME NEW fd \in Fds
        PROVE  table[fd] = IF fd \in Std THEN Own
                           ELSE IF fd \in 3 .. (2 + 2 * NPipes) THEN End(fd) ELSE None
    <2>1. table[fd] = CASE fd \in Std -> Own
                        [] fd \in 3 .. (2 + 2 * NPipes) -> End(fd)
                        [] OTHER -> None
      BY <1>3 DEF Init
    <2>2. ~(fd \in Std /\ fd \in 3 .. (2 + 2 * NPipes))
      BY DEF Std
    <2> HIDE DEF End
    <2>3. CASE fd \in Std
      BY <2>1, <2>2, <2>3, Zenon
    <2>4. CASE fd \notin Std /\ fd \in 3 .. (2 + 2 * NPipes)
      BY <2>1, <2>4, Zenon
    <2>5. CASE fd \notin Std /\ fd \notin 3 .. (2 + 2 * NPipes)
      BY <2>1, <2>5, Zenon
    <2> QED BY <2>3, <2>4, <2>5
  <1>4. \A fd \in 3 .. (2 + 2 * NPipes) : End(fd) \in PipeEnd
    BY TargetsAssumption DEF PipeEnd
  <1>5. ASSUME NEW p \in PipeEnd PROVE \E fd \in Fds : table[fd] = p
    <2>1. PICK w \in {"READ", "WRITE"}, k \in 0 .. (NPipes - 1) : p = <<w, k>>
      BY DEF PipeEnd
    <2> DEFINE fd == IF w = "READ" THEN 3 + 2 * k ELSE 4 + 2 * k
    <2>2. fd \in Fds /\ fd \in 3 .. (2 + 2 * NPipes) /\ fd \notin Std
      BY TargetsAssumption DEF Fds, Std
    <2>3. End(fd) = p
      <3>1. CASE w = "READ"
        BY <2>1, <3>1
      <3>2. CASE w = "WRITE"
        BY <2>1, <3>2
      <3> QED BY <3>1, <3>2
    <2> QED BY <1>3, <2>2, <2>3
  <1> HIDE DEF End
  <1>6. table \in [Fds -> Object]
    <2>1. \E f : table = [fd \in Fds |-> f[fd]]
      <3>1. table = [fd \in Fds |-> table[fd]]
        BY DEF Init
      <3> QED BY <3>1
    <2> QED BY <1>3, <1>4, <2>1 DEF Object
  <1>7. ParentInv
    <2>1. \A fd \in Std : fd \in Fds /\ table[fd] = Own
      BY <1>3, TargetsAssumption DEF Std, Fds
    <2> QED BY <1>3, <1>4, <1>5, <2>1 DEF ParentInv
  <1>8. TypeOK
    BY <1>1, <1>2, <1>6, TargetsAssumption DEF TypeOK, Fds
  <1> QED BY <1>1, <1>2, <1>7, <1>8 DEF Inductive, ResolvedInv, PlacedInv, StreamsArrive,
                                        SetUpSucceeds

LEMMA ResolveDoneStep == Inductive /\ ResolveDone => Inductive'
  <1> SUFFICES ASSUME Inductive, ResolveDone PROVE Inductive'
    OBVIOUS
  <1>1. pc = "resolve" /\ pc' = "aliases" /\ todo = {} /\ todo' = Aliases
        /\ UNCHANGED <<streams, table, descriptors, used, free, conflict, freeFd, fdMap>>
    BY DEF ResolveDone
  <1>2. TypeOK'
    BY <1>1 DEF Inductive, TypeOK, required, Aliases
  <1>3. ResolvedInv'
    BY <1>1, TaskStays DEF Inductive, ResolvedInv, Aliases
  <1>4. PlacedInv' /\ ParentInv'
    BY <1>1, TaskStays DEF Inductive, PlacedInv, ParentInv
  <1> QED BY <1>1, <1>2, <1>3, <1>4, TaskStays DEF Inductive, StreamsArrive, SetUpSucceeds

\* No process is started for a task that asks for what cannot be opened.
LEMMA FailStep ==
  ASSUME Inductive, pc' = "failed",
         UNCHANGED <<streams, todo, table, descriptors, used, free, conflict, freeFd, fdMap>>
  PROVE  Inductive'
  <1>1. TypeOK'
    BY DEF Inductive, TypeOK, required
  <1>2. ResolvedInv'
    BY TaskStays DEF Inductive, ResolvedInv
  <1> QED BY <1>1, <1>2, TaskStays DEF Inductive, StreamsArrive, SetUpSucceeds

\* What the child closes is none of the descriptors its streams are resolved to.
LEMMA ChildCloseFdsStep == Inductive /\ ChildCloseFds => Inductive'
  <1> SUFFICES ASSUME Inductive, ChildCloseFds PROVE Inductive'
    OBVIOUS
  <1>1. /\ pc = "aliases" /\ todo = {} /\ pc' = "setup"
        /\ table' = [fd \in Fds |-> IF fd \in ToClose THEN None ELSE table[fd]]
        /\ UNCHANGED <<streams, todo, descriptors, used, free, conflict, freeFd, fdMap>>
    BY DEF ChildCloseFds
  <1>2. TypeOK /\ ResolvedInv /\ PlacedInv /\ ParentInv
    BY <1>1 DEF Inductive
  <1>3. DOMAIN descriptors = required /\ descriptors \in [required -> Fds]
    BY <1>1, <1>2 DEF ResolvedInv, TypeOK
  <1>4. Range(descriptors) = {descriptors[t] : t \in required}
    BY <1>3 DEF Range
  <1>5. ASSUME NEW t \in required PROVE table'[descriptors[t]] = Wanted(t) /\ Sound(t)
    <2>1. Sound(t) /\ table[descriptors[t]] = Wanted(t) /\ descriptors[t] \in Fds
      BY <1>2, <1>3 DEF ResolvedInv, PlacedInv
    <2>2. Wanted(t) # Own
      BY <1>2, <2>1, WantedIs
    <2>3. descriptors[t] \notin Std
      BY <1>2, <2>1, <2>2 DEF ParentInv
    <2>4. descriptors[t] \notin ToClose
      BY <1>4, <2>3 DEF ToClose
    <2> QED BY <1>1, <2>1, <2>4
  <1>6. ASSUME NEW fd \in Fds, table'[fd] # None PROVE fd \in Range(descriptors)
    <2>1. fd \notin ToClose /\ table[fd] # None
      BY <1>1, <1>6
    <2> QED BY <1>2, <2>1 DEF ParentInv, ToClose
  <1>7. table' \in [Fds -> Object]
    BY <1>1, <1>2 DEF TypeOK, Object
  <1>8. TypeOK'
    BY <1>1, <1>2, <1>3, <1>7, TaskStays DEF TypeOK
  <1>9. ResolvedInv' /\ PlacedInv'
    BY <1>1, <1>2, <1>3, <1>5, TaskStays DEF ResolvedInv, PlacedInv
  <1>10. \A t, u \in required : descriptors[t] = descriptors[u] => t = u
    BY <1>2, <1>3 DEF PlacedInv
  <1> QED BY <1>1, <1>5, <1>6, <1>8, <1>9, <1>10, TaskStays
          DEF Inductive, StreamsArrive, SetUpSucceeds

-----------------------------------------------------------------------------
(* The child's rearrangement. *)

\* Before anything is moved each stream is where it was resolved to; descriptor
\* 0 is required, so the first free one is above it.
LEMMA SetUpMonitorStep ==
  ASSUME Inductive, SetUpMonitor, 0 \in Always PROVE Inductive'
  <1>1. /\ pc = "setup" /\ pc' = "free"
        /\ used' = Range(descriptors) /\ free' = Fds \ (required \cup Range(descriptors))
        /\ conflict' = used' \cap required
        /\ freeFd' = IF free' = {} THEN -1 ELSE Lowest(free')
        /\ UNCHANGED <<streams, todo, table, descriptors, fdMap>>
    BY DEF SetUpMonitor, NeitherRequiredNorUsed
  <1>2. TypeOK /\ PlacedInv /\ 0 \in required /\ \A fd \in Fds : fdMap[fd] = 0
    BY <1>1 DEF Inductive
  <1>3. DOMAIN descriptors = required /\ descriptors \in [required -> Fds]
    BY <1>1, <1>2 DEF TypeOK
  <1>4. Range(descriptors) = {descriptors[t] : t \in required} /\ Range(descriptors) \subseteq Fds
    BY <1>3 DEF Range
  <1>5. \A t \in required : Place(t)' = descriptors[t]
    BY <1>1, <1>2, <1>3 DEF Place, GetMappedFd
  <1>6. freeFd' # -1 => freeFd' \in free' /\ freeFd' \in Fds /\ freeFd' >= 1
    <2>1. free' \in SUBSET Fds /\ 0 \notin free'
      BY <1>1, <1>2
    <2>2. free' # {} => Lowest(free') \in free'
      BY <2>1, LowestIs
    <2> QED BY <1>1, <2>1, <2>2, TargetsAssumption DEF Fds
  <1>6a. RoomToMove => Cardinality(conflict') <= Cardinality(Ahead')
    <2>1. /\ IsFiniteSet(Fds) /\ IsFiniteSet(required) /\ IsFiniteSet(used')
          /\ required \subseteq Fds /\ used' \subseteq Fds
      <3>1. IsFiniteSet(Fds)
        BY FS_Interval, TargetsAssumption DEF Fds
      <3>2. required \in SUBSET Fds /\ used' \in SUBSET Fds
        BY <1>1, <1>2, <1>4, TargetsAssumption DEF TypeOK, Fds
      <3> QED BY <3>1, <3>2, FS_Subset
    <2>2. Cardinality(used') <= Cardinality(required)
      <3>1. descriptors \in Surjection(required, Range(descriptors))
        BY <1>3, <1>4 DEF Surjection
      <3> QED BY <1>1, <2>1, <3>1, FS_Surjection
    <2>3. /\ IsFiniteSet(required \cup used')
          /\ Cardinality(required \cup used')
               = Cardinality(required) + Cardinality(used') - Cardinality(required \cap used')
      BY <2>1, FS_Union
    <2>4. Cardinality(free') = Cardinality(Fds) - Cardinality(required \cup used')
      <3>1. free' = Fds \ (required \cup used') /\ Fds = free' \cup (required \cup used')
            /\ free' \cap (required \cup used') = {}
        BY <1>1, <2>1
      <3>2. IsFiniteSet(free')
        BY <2>1, <3>1, FS_Subset
      <3>3. Cardinality(Fds) = Cardinality(free') + Cardinality(required \cup used') - 0
        BY <2>3, <3>1, <3>2, FS_Union, FS_EmptySet
      <3> QED BY <2>3, <3>2, <3>3, FS_CardinalityType
    <2>5. Ahead' = free'
      <3>1. free' \in SUBSET Fds
        BY <1>1
      <3>2. CASE free' = {}
        BY <3>2 DEF Ahead
      <3>3. CASE free' # {}
        <4>1. freeFd' \in free' /\ \A fd \in free' : freeFd' <= fd
          BY <1>1, <3>1, <3>3, LowestIs
        <4>2. free' \subseteq Nat
          BY <3>1, TargetsAssumption DEF Fds
        <4>3. freeFd' # -1 /\ \A fd \in free' : fd >= freeFd'
          <5> DEFINE first == freeFd'
          <5>1. first \in Nat /\ \A fd \in free' : fd \in Nat /\ first <= fd
            BY <4>1, <4>2
          <5> HIDE DEF first
          <5>2. first # -1 /\ \A fd \in free' : fd >= first
            BY <5>1
          <5> QED BY <5>2 DEF first
        <4> QED BY <4>3 DEF Ahead
      <3> QED BY <3>2, <3>3
    <2>6. /\ Cardinality(required) \in Nat /\ Cardinality(used') \in Nat /\ Cardinality(Fds) \in Nat
          /\ Cardinality(required \cap used') \in Nat
      <3>1. IsFiniteSet(required \cap used')
        BY <2>1, FS_Subset
      <3> QED BY <2>1, <3>1, FS_CardinalityType
    <2>7. conflict' = required \cap used'
      BY <1>1
    <2> QED BY <2>2, <2>3, <2>4, <2>5, <2>6, <2>7 DEF RoomToMove
  <1>7. TypeOK'
    BY <1>1, <1>2, <1>3, <1>4, <1>6, TaskStays DEF TypeOK
  <1>8. MonitorInv'
    <2>1. used' = {Place(t)' : t \in required}
      BY <1>1, <1>4, <1>5
    <2>2. ASSUME NEW t \in required
          PROVE  Place(t)' \in Fds /\ table'[Place(t)'] = Wanted(t)'
      BY <1>1, <1>2, <1>3, <1>5, TaskStays DEF PlacedInv
    <2>3. \A fd \in Fds : table'[fd] # None => fd \in used'
      BY <1>1 DEF Inductive
    <2>4. \A t, u \in required : Place(t)' = Place(u)' => t = u
      BY <1>2, <1>3, <1>5 DEF PlacedInv
    <2> QED BY <1>1, <2>1, <2>2, <2>3, <2>4, TaskStays DEF MonitorInv
  <1>9. FreeInv'
    BY <1>1, <1>2, <1>6, <1>6a, TaskStays DEF FreeInv
  <1>10. \A t \in required : Sound(t)
    BY <1>1 DEF Inductive
  <1>11. \A t, u \in required : descriptors[t] = descriptors[u] => t = u
    BY <1>1 DEF Inductive
  <1>12. ResolvedInv' /\ Always \subseteq required
    BY <1>1, TaskStays DEF Inductive, ResolvedInv
  <1> QED BY <1>1, <1>7, <1>8, <1>9, <1>10, <1>11, <1>12, TaskStays
          DEF Inductive, StreamsArrive, SetUpSucceeds

\* The stream that stands in the way has not been moved yet, and it goes where
\* nothing is and nothing is asked for.
LEMMA FreeNextStep ==
  ASSUME Inductive, FreeNext, 0 \in Always PROVE Inductive'
  <1> DEFINE i == Lowest(conflict)
             above == {fd \in FreeAfterMove(i, freeFd) : fd > freeFd}
  <1>b. /\ pc = "free" /\ conflict # {} /\ freeFd # -1
        /\ pc' = IF freeFd \in required THEN "asserted" ELSE MoveResult(i, freeFd)
        /\ MoveFd(i, freeFd)
    BY DEF FreeNext
  <1>a. pc' = "free"
    <2>1. TypeOK /\ MonitorInv /\ FreeInv /\ \A t \in required : Sound(t)
      BY <1>b DEF Inductive
    <2>2. i \in conflict
      <3>1. conflict \in SUBSET Fds
        BY <2>1 DEF TypeOK
      <3> QED BY <1>b, <3>1, LowestIs
    <2>3. i \in used /\ freeFd \in free /\ freeFd \notin required
      BY <1>b, <2>1, <2>2 DEF FreeInv
    <2> HIDE DEF i
    <2>4. table[i] # None
      BY <2>1, <2>3, WantedIs DEF MonitorInv
    <2> QED BY <1>b, <2>3, <2>4 DEF MoveResult
  <1>1. /\ pc = "free" /\ pc' = "free" /\ conflict # {} /\ freeFd # -1
        /\ table' = [table EXCEPT ![freeFd] = table[i], ![i] = None]
        /\ used' = (used \cup {freeFd}) \ {i}
        /\ free' = FreeAfterMove(i, freeFd)
        /\ fdMap' = [fdMap EXCEPT ![i] = freeFd]
        /\ conflict' = conflict \ {i}
        /\ freeFd' = IF above = {} THEN -1 ELSE Lowest(above)
        /\ UNCHANGED <<streams, todo, descriptors>>
    BY <1>b, <1>a DEF FreeNext, MoveFd
  <1>2. TypeOK /\ MonitorInv /\ FreeInv
    BY <1>1 DEF Inductive
  <1>3. /\ i \in conflict /\ i \in used /\ i \in required /\ i \in Fds
        /\ conflict \subseteq Fds /\ used \subseteq Fds /\ free \subseteq Fds
    <2>1. conflict \in SUBSET Fds
      BY <1>2 DEF TypeOK
    <2> QED BY <1>1, <1>2, <2>1, LowestIs DEF TypeOK, FreeInv
  <1>4. free' = (free \ {freeFd}) \cup {0}
    BY <1>1, <1>3 DEF FreeAfterMove
  <1>5. /\ freeFd \in Fds /\ freeFd >= 1 /\ freeFd \notin used \cup required
        /\ freeFd # i
    BY <1>1, <1>2, <1>3 DEF TypeOK, FreeInv
  <1>6. Fds \subseteq Nat /\ 0 \in Fds
    BY TargetsAssumption DEF Fds
  <1>7. DOMAIN descriptors = required /\ descriptors \in [required -> Fds] /\ fdMap \in [Fds -> Fds]
        /\ table \in [Fds -> Object]
    BY <1>1, <1>2 DEF TypeOK
  <1>8. \A t \in required : Place(t) = GetMappedFd(descriptors[t])
    BY <1>1 DEF Place
  <1>9. PICK s \in required : Place(s) = i
    BY <1>2, <1>3 DEF MonitorInv
  <1> HIDE DEF i
  <1>10. descriptors[s] = i /\ fdMap[i] = 0
    BY <1>2, <1>3, <1>7, <1>8, <1>9 DEF FreeInv, GetMappedFd
  <1>11. \A t, u \in required : descriptors[t] = descriptors[u] => t = u
    BY <1>1 DEF Inductive
  <1>12. Place(s)' = freeFd /\ \A t \in required : t # s => Place(t)' = Place(t)
    <2>1. \A t \in required : Place(t)' = IF fdMap'[descriptors[t]] # 0 THEN fdMap'[descriptors[t]]
                                          ELSE descriptors[t]
      BY <1>1 DEF Place, GetMappedFd
    <2>2. fdMap'[i] = freeFd /\ \A fd \in Fds : fd # i => fdMap'[fd] = fdMap[fd]
      BY <1>1, <1>3, <1>7
    <2> QED BY <1>5, <1>7, <1>8, <1>10, <1>11, <2>1, <2>2 DEF GetMappedFd
  <1>13. /\ table' \in [Fds -> Object] /\ table'[freeFd] = table[i] /\ table'[i] = None
         /\ \A fd \in Fds : fd # i /\ fd # freeFd => table'[fd] = table[fd]
    <2>1. None \in Object
      BY DEF Object
    <2> QED BY <1>1, <1>3, <1>5, <1>7, <2>1
  <1>14. \A t \in required : /\ Place(t) \in used /\ Place(t) \in Fds
                             /\ (t # s => Place(t) # i /\ Place(t) # freeFd)
    BY <1>2, <1>5, <1>9 DEF MonitorInv
  <1>15. MonitorInv'
    <2>1. used' = {Place(t)' : t \in required}
      BY <1>1, <1>2, <1>5, <1>9, <1>12, <1>14 DEF MonitorInv
    <2>2. \A t, u \in required : Place(t)' = Place(u)' => t = u
      BY <1>2, <1>12, <1>14 DEF MonitorInv
    <2>3. ASSUME NEW t \in required
          PROVE  Place(t)' \in Fds /\ table'[Place(t)'] = Wanted(t)'
      <3>1. table[Place(t)] = Wanted(t) /\ Wanted(t)' = Wanted(t)
        BY <1>1, <1>2, TaskStays DEF MonitorInv
      <3> QED BY <1>5, <1>9, <1>12, <1>13, <1>14, <3>1
    <2>4. ASSUME NEW fd \in Fds, table'[fd] # None PROVE fd \in used'
      BY <1>1, <1>2, <1>13, <2>4 DEF MonitorInv
    <2> QED BY <1>1, <2>1, <2>2, <2>3, <2>4, TaskStays DEF MonitorInv
  <1>16. freeFd' # -1 => /\ freeFd' \in above /\ freeFd' > freeFd /\ freeFd' \in free'
                         /\ freeFd' \in Fds
    <2>1. above \in SUBSET Fds /\ above \subseteq free'
      BY <1>1, <1>3, <1>4, <1>6
    <2>2. \A fd \in above : fd > freeFd
      OBVIOUS
    <2> HIDE DEF above
    <2>3. above # {} => Lowest(above) \in above
      BY <2>1, LowestIs
    <2> QED BY <1>1, <2>1, <2>2, <2>3
  <1> HIDE DEF above
  <1>16a. RoomToMove => Cardinality(conflict') <= Cardinality(Ahead')
    <2>1. IsFiniteSet(Fds)
      BY FS_Interval, TargetsAssumption DEF Fds
    <2>2. IsFiniteSet(conflict) /\ IsFiniteSet(free)
      BY <1>3, <2>1, FS_Subset
    <2>3. IsFiniteSet(Ahead) /\ freeFd \in Ahead
      <3>1. Ahead \in SUBSET free /\ freeFd \in Ahead
        BY <1>1, <1>2, <1>5, <1>6 DEF Ahead, FreeInv
      <3> QED BY <2>2, <3>1, FS_Subset
    <2>4. Ahead' = Ahead \ {freeFd}
      <3>1. above = {fd \in free : fd > freeFd}
        <4>1. above = {fd \in free' : fd > freeFd}
          BY <1>1 DEF above
        <4> QED BY <1>3, <1>4, <1>5, <1>6, <4>1
      <3>2. above = Ahead \ {freeFd}
        BY <1>1, <1>3, <1>5, <1>6, <3>1 DEF Ahead
      <3>3. Ahead' = {fd \in above : TRUE}
        <4>1. CASE above = {}
          BY <1>1, <4>1 DEF Ahead
        <4>2. CASE above # {}
          <5>1. above \in SUBSET Fds
            BY <1>3, <3>1
          <5>2. /\ freeFd' \in above /\ freeFd' # -1 /\ \A fd \in above : freeFd' <= fd
                /\ \A fd \in free' : fd > freeFd => fd \in above
            BY <1>1, <1>6, <4>2, <5>1, LowestIs DEF above
          <5>3. \A fd \in above : fd \in free' /\ fd > freeFd
            BY <1>1 DEF above
          <5>4. free' \subseteq Nat /\ freeFd \in Nat /\ above \subseteq Nat
            BY <1>3, <1>4, <1>5, <1>6, <5>1
          <5>5. \A fd \in free' : fd >= freeFd' <=> fd \in above
            <6> DEFINE next == freeFd'
            <6>1. /\ next \in above /\ next \in Nat /\ next > freeFd
                  /\ \A fd \in above : next <= fd /\ fd \in Nat
              BY <5>2, <5>3, <5>4
            <6> HIDE DEF next
            <6>2. ASSUME NEW fd \in free' PROVE fd >= next <=> fd \in above
              <7>1. fd \in Nat
                BY <5>4
              <7>2. fd >= next => fd > freeFd
                BY <5>4, <6>1, <7>1
              <7> QED BY <5>2, <6>1, <7>1, <7>2
            <6> QED BY <6>2 DEF next
          <5>6. above \subseteq free'
            BY <5>3
          <5> HIDE DEF above
          <5> QED BY <5>2, <5>5, <5>6 DEF Ahead
        <4> QED BY <4>1, <4>2
      <3> QED BY <3>2, <3>3
    <2>5. /\ Cardinality(conflict') = Cardinality(conflict) - 1
          /\ Cardinality(Ahead') = Cardinality(Ahead) - 1
      BY <1>1, <1>3, <2>2, <2>3, <2>4, FS_RemoveElement
    <2>6. Cardinality(conflict) \in Nat /\ Cardinality(Ahead) \in Nat
      BY <2>2, <2>3, FS_CardinalityType
    <2> QED BY <1>2, <2>5, <2>6 DEF FreeInv
  <1>17. \A fd \in free' : fd > freeFd => fd \notin used \cup required /\ fd \notin used'
    <2>1. ASSUME NEW fd \in free', fd > freeFd PROVE fd \in free /\ fd # freeFd
      BY <1>3, <1>4, <1>5, <1>6, <2>1
    <2> QED BY <1>1, <1>2, <2>1 DEF FreeInv
  <1>18. FreeInv'
    <2>1. conflict' = used' \cap required
      BY <1>1, <1>2, <1>5 DEF FreeInv
    <2>2. \A fd \in Fds : fdMap'[fd] # 0 => fdMap'[fd] \notin required
      BY <1>1, <1>2, <1>3, <1>5, <1>7 DEF FreeInv
    <2>3. freeFd' # -1 => /\ freeFd' >= 1 /\ freeFd' \in free' /\ freeFd' \notin used' \cup required
                          /\ \A fd \in free' : fd > freeFd' => fd \notin used' \cup required
      <3> DEFINE next == freeFd'
      <3>1. next # -1 => next \in Fds /\ next > freeFd /\ next \in free'
        BY <1>16
      <3>2. freeFd \in Int /\ free' \subseteq Int /\ Fds \subseteq Int
        BY <1>3, <1>4, <1>5, <1>6
      <3> HIDE DEF next
      <3>3. ASSUME next # -1, NEW fd \in free', fd > next PROVE fd > freeFd
        <4>1. fd \in Int /\ next \in Int /\ next > freeFd
          BY <3>1, <3>2, <3>3
        <4> QED BY <3>2, <3>3, <4>1
      <3>4. ASSUME next # -1 PROVE next >= 1 /\ next \notin used' \cup required
        <4>1. next \in Int /\ next > freeFd
          BY <3>1, <3>2, <3>4
        <4>2. next >= 1
          BY <1>5, <3>2, <4>1
        <4> QED BY <1>17, <3>1, <3>4, <4>1, <4>2
      <3> QED BY <1>17, <3>1, <3>3, <3>4 DEF next
    <2> QED BY <1>1, <1>16a, <2>1, <2>2, <2>3, TaskStays DEF FreeInv
  <1>19. TypeOK'
    <2>1. /\ used' \subseteq Fds /\ free' \subseteq Fds /\ conflict' \subseteq Fds
          /\ freeFd' \in Fds \cup {-1}
      BY <1>1, <1>3, <1>4, <1>5, <1>6, <1>16
    <2>2. fdMap' \in [Fds -> Fds]
      BY <1>1, <1>5, <1>7
    <2> QED BY <1>1, <1>2, <1>7, <1>13, <2>1, <2>2, TaskStays DEF TypeOK
  <1>20. (\A t \in required : Sound(t)) /\ Always \subseteq required
    BY <1>1 DEF Inductive
  <1>21. ResolvedInv'
    BY <1>1, TaskStays DEF Inductive, ResolvedInv
  <1> QED BY <1>1, <1>11, <1>15, <1>18, <1>19, <1>20, <1>21, TaskStays
          DEF Inductive, StreamsArrive, SetUpSucceeds

\* With room to move there is a free descriptor while streams are in the way.
LEMMA NoneFreeStep == Inductive /\ NoneFree => Inductive'
  <1> SUFFICES ASSUME Inductive, NoneFree PROVE Inductive'
    OBVIOUS
  <1>1. /\ pc = "free" /\ pc' = "asserted" /\ conflict # {} /\ freeFd = -1
        /\ UNCHANGED <<streams, todo, table, descriptors, used, free, conflict, freeFd, fdMap>>
    BY DEF NoneFree
  <1>2. TypeOK /\ FreeInv
    BY <1>1 DEF Inductive
  <1>3. ~RoomToMove
    <2>1. IsFiniteSet(conflict) /\ Ahead = {}
      <3>1. IsFiniteSet(Fds) /\ conflict \in SUBSET Fds
        <4>1. IsFiniteSet(Fds)
          BY FS_Interval, TargetsAssumption DEF Fds
        <4> QED BY <1>2, <4>1 DEF TypeOK
      <3> QED BY <1>1, <3>1, FS_Subset DEF Ahead
    <2> QED BY <1>1, <1>2, <2>1, FS_EmptySet, FS_CardinalityType DEF FreeInv
  <1>4. TypeOK' /\ ResolvedInv'
    BY <1>1, <1>2, TaskStays DEF Inductive, TypeOK, ResolvedInv
  <1> QED BY <1>1, <1>3, <1>4, TaskStays DEF Inductive, StreamsArrive, SetUpSucceeds

\* Nothing is left in the way: the assertion of freeRequiredFds holds.
LEMMA FreeDoneStep == Inductive /\ FreeDone => Inductive'
  <1> SUFFICES ASSUME Inductive, FreeDone PROVE Inductive'
    OBVIOUS
  <1>1. /\ pc = "free" /\ conflict = {} /\ todo' = required
        /\ pc' = IF used \cap required = {} THEN "move" ELSE "asserted"
        /\ UNCHANGED <<streams, table, descriptors, used, free, conflict, freeFd, fdMap>>
    BY DEF FreeDone
  <1>2. TypeOK /\ MonitorInv /\ FreeInv
    BY <1>1 DEF Inductive
  <1>3. pc' = "move" /\ used \cap required = {}
    BY <1>1, <1>2 DEF FreeInv
  <1>4. \A t \in required : Place(t)' = Place(t)
    BY <1>1, <1>3 DEF Place, GetMappedFd
  <1>5. MonitorInv'
    <2>1. used' = {Place(t)' : t \in required}
      BY <1>1, <1>2, <1>4 DEF MonitorInv
    <2>2. \A t, u \in required : Place(t)' = Place(u)' => t = u
      BY <1>2, <1>4 DEF MonitorInv
    <2>3. \A t \in required : Place(t)' \in Fds /\ table'[Place(t)'] = Wanted(t)'
      BY <1>1, <1>2, <1>4, TaskStays DEF MonitorInv
    <2> QED BY <1>1, <1>2, <2>1, <2>2, <2>3, TaskStays DEF MonitorInv
  <1>6. \A t \in todo' : Place(t)' \notin required
    BY <1>1, <1>2, <1>3, <1>4 DEF MonitorInv
  <1>7. TypeOK' /\ ResolvedInv'
    BY <1>1, <1>2, <1>3, TaskStays DEF Inductive, TypeOK, ResolvedInv
  <1>8. (\A t \in required : Sound(t)) /\ Always \subseteq required
        /\ \A t, u \in required : descriptors[t] = descriptors[u] => t = u
    BY <1>1 DEF Inductive
  <1> QED BY <1>1, <1>3, <1>5, <1>6, <1>7, <1>8, TaskStays
          DEF Inductive, StreamsArrive, SetUpSucceeds

\* A stream is moved to the descriptor asked for, where no other one is.
LEMMA MoveMappedStep ==
  ASSUME Inductive, NEW t \in Targets, MoveMapped(t) PROVE Inductive'
  <1> DEFINE old == GetMappedFd(descriptors[t])
  <1>1. /\ pc = "move" /\ t \in todo /\ todo' = todo \ {t}
        /\ UNCHANGED <<streams, descriptors, conflict, freeFd, fdMap>>
    BY DEF MoveMapped
  <1>2. TypeOK /\ MonitorInv /\ \A u \in todo : Place(u) \notin required
    BY <1>1 DEF Inductive
  <1>3. t \in required /\ old = Place(t)
    BY <1>1, <1>2 DEF TypeOK, Place
  <1>4. (\A u \in required : Sound(u)) /\ Always \subseteq required
        /\ \A u, v \in required : descriptors[u] = descriptors[v] => u = v
    BY <1>1 DEF Inductive
  <1>5. old \in Fds /\ old \notin required /\ table[old] = Wanted(t) /\ table[old] # None
        /\ t \in Fds /\ t # old
    <2>1. Wanted(t) # None
      BY <1>2, <1>3, <1>4, WantedIs
    <2> QED BY <1>1, <1>2, <1>3, <2>1, TargetsAssumption DEF MonitorInv, Fds
  <1>6. /\ table' = [table EXCEPT ![t] = table[old], ![old] = None]
        /\ used' = (used \cup {t}) \ {old}
        /\ free' = FreeAfterMove(old, t)
        /\ pc' = "move"
    <2>1. descriptors[t] # 0 /\ old \in used
      BY <1>1, <1>2, <1>3 DEF Inductive, ResolvedInv, TypeOK, MonitorInv
    <2>2. /\ pc' = IF descriptors[t] = 0 THEN "asserted" ELSE MoveResult(old, t)
          /\ MoveFd(old, t)
      BY DEF MoveMapped
    <2> HIDE DEF old
    <2>3. MoveResult(old, t) = pc
      BY <1>3, <1>5, <2>1 DEF MoveResult
    <2> QED BY <1>1, <2>1, <2>2, <2>3 DEF MoveFd
  <1> HIDE DEF old
  <1>7. /\ table' \in [Fds -> Object] /\ table'[t] = Wanted(t) /\ table'[old] = None
        /\ \A fd \in Fds : fd # t /\ fd # old => table'[fd] = table[fd]
    BY <1>2, <1>5, <1>6 DEF TypeOK, Object
  <1>8. Place(t)' = t /\ \A u \in required : u # t => Place(u)' = Place(u)
    BY <1>1, <1>3, <1>6 DEF Place, GetMappedFd
  <1>9. \A u \in required : /\ Place(u) \in used /\ Place(u) \in Fds
                            /\ (u # t => Place(u) # old /\ Place(u) # t)
    <2>1. ASSUME NEW u \in required, u # t PROVE Place(u) # t
      <3>1. CASE u \in todo
        BY <1>2, <1>3, <3>1
      <3>2. CASE u \notin todo
        BY <1>1, <2>1, <3>2 DEF Place
      <3> QED BY <3>1, <3>2
    <2> QED BY <1>2, <1>3, <2>1 DEF MonitorInv
  <1>10. MonitorInv'
    <2>1. used' = {Place(u)' : u \in required}
      BY <1>2, <1>3, <1>5, <1>6, <1>8, <1>9 DEF MonitorInv
    <2>2. \A u, v \in required : Place(u)' = Place(v)' => u = v
      BY <1>2, <1>8, <1>9 DEF MonitorInv
    <2>3. ASSUME NEW u \in required
          PROVE  Place(u)' \in Fds /\ table'[Place(u)'] = Wanted(u)'
      <3>1. table[Place(u)] = Wanted(u) /\ Wanted(u)' = Wanted(u)
        BY <1>1, <1>2, TaskStays DEF MonitorInv
      <3> QED BY <1>5, <1>7, <1>8, <1>9, <3>1
    <2>4. ASSUME NEW fd \in Fds, table'[fd] # None PROVE fd \in used'
      BY <1>2, <1>6, <1>7, <2>4 DEF MonitorInv
    <2> QED BY <1>1, <2>1, <2>2, <2>3, <2>4, TaskStays DEF MonitorInv
  <1>11. \A u \in todo' : Place(u)' \notin required
    BY <1>1, <1>2, <1>8 DEF TypeOK
  <1>12. TypeOK'
    <2>1. {0, 1} \subseteq Fds
      BY TargetsAssumption DEF Fds
    <2>2. used' \subseteq Fds /\ free' \subseteq Fds
      BY <1>2, <1>5, <1>6, <2>1 DEF TypeOK, FreeAfterMove
    <2> QED BY <1>1, <1>2, <1>6, <1>7, <2>2, TaskStays DEF TypeOK
  <1>13. ResolvedInv'
    BY <1>1, <1>6, TaskStays DEF Inductive, ResolvedInv
  <1> QED BY <1>1, <1>4, <1>6, <1>10, <1>11, <1>12, <1>13, TaskStays
          DEF Inductive, StreamsArrive, SetUpSucceeds

\* Everything has been moved to its place: the assertion of ~DescriptorMonitor
\* holds, and the program is started.
LEMMA MoveDoneStep == Inductive /\ MoveDone => Inductive'
  <1> SUFFICES ASSUME Inductive, MoveDone PROVE Inductive'
    OBVIOUS
  <1>1. /\ pc = "move" /\ todo = {} /\ pc' = IF used = required THEN "exec" ELSE "asserted"
        /\ UNCHANGED <<streams, todo, table, descriptors, used, free, conflict, freeFd, fdMap>>
    BY DEF MoveDone
  <1>2. TypeOK /\ MonitorInv
    BY <1>1 DEF Inductive
  <1>3. \A t \in required : Place(t) = t
    BY <1>1 DEF Place
  <1>4. used = required /\ pc' = "exec"
    BY <1>1, <1>2, <1>3 DEF MonitorInv
  <1>5. StreamsArrive'
    <2>1. ASSUME NEW fd \in Fds
          PROVE  table[fd] = IF fd \in required THEN Wanted(fd) ELSE None
      BY <1>2, <1>3, <1>4 DEF MonitorInv
    <2>2. table = [fd \in Fds |-> table[fd]]
      BY <1>2 DEF TypeOK
    <2>3. table = [fd \in Fds |-> IF fd \in required THEN Wanted(fd) ELSE None]
      BY <2>1, <2>2
    <2> QED BY <1>1, <2>3, TaskStays DEF StreamsArrive
  <1>6. TypeOK' /\ ResolvedInv'
    BY <1>1, <1>2, <1>4, TaskStays DEF Inductive, TypeOK, ResolvedInv
  <1>7. (\A t \in required : Sound(t)) /\ Always \subseteq required
        /\ \A t, u \in required : descriptors[t] = descriptors[u] => t = u
    BY <1>1 DEF Inductive
  <1> QED BY <1>1, <1>4, <1>5, <1>6, <1>7, TaskStays DEF Inductive, SetUpSucceeds

-----------------------------------------------------------------------------
(* The theorems. *)

LEMMA InductiveHolds ==
  ASSUME 0 \in Always PROVE Spec => []Inductive
  <1>1. ASSUME Inductive, [Next]_vars PROVE Inductive'
    <2>1. ASSUME NEW t \in Targets, Resolve(t) PROVE Inductive'
      <3>1. pc = "resolve" /\ t \in todo /\ AddStream(t)
        BY <2>1 DEF Resolve
      <3>2. t \in required /\ ~IsAlias(t)
        BY <1>1, <3>1 DEF Inductive, TypeOK, ResolvedInv, Aliases
      <3> QED BY <1>1, <3>1, <3>2, AddStreamStep DEF Sound
    <2>2. ASSUME NEW t \in Targets, ResolveAlias(t) PROVE Inductive'
      <3>1. pc = "aliases" /\ t \in todo /\ GoodAlias(t) /\ AddStream(t)
        BY <2>2 DEF ResolveAlias
      <3>2. t \in required /\ IsAlias(t)
        BY <1>1, <3>1 DEF Inductive, TypeOK, ResolvedInv, Aliases
      <3> QED BY <1>1, <3>1, <3>2, AddStreamStep DEF Sound
    <2>3. ASSUME NEW t \in Targets, AliasFails(t) \/ OpenFails(t) PROVE Inductive'
      BY <1>1, <2>3, FailStep DEF AliasFails, OpenFails
    <2>4. CASE Ended \/ UNCHANGED vars
      <3>1. UNCHANGED vars
        BY <2>4 DEF Ended
      <3>2. TypeOK' /\ ResolvedInv'
        BY <1>1, <3>1 DEF vars, Inductive, TypeOK, ResolvedInv, required, Aliases, IsAlias, Sound,
                          GoodAlias
      <3>3. PlacedInv' <=> PlacedInv
        BY <3>1, TaskStays DEF vars, PlacedInv
      <3>4. ParentInv' <=> ParentInv
        BY <3>1, TaskStays DEF vars, ParentInv
      <3>5. \A t : Place(t)' = Place(t)
        BY <3>1 DEF vars, Place, GetMappedFd
      <3>6. MonitorInv' <=> MonitorInv
        BY <3>1, <3>5, TaskStays DEF vars, MonitorInv
      <3>7. FreeInv' <=> FreeInv
        BY <3>1, TaskStays DEF vars, FreeInv, Ahead
      <3>8. StreamsArrive' /\ SetUpSucceeds'
        BY <1>1, <3>1, TaskStays DEF vars, Inductive, StreamsArrive, SetUpSucceeds
      <3> QED BY <1>1, <3>1, <3>2, <3>3, <3>4, <3>5, <3>6, <3>7, <3>8, TaskStays DEF vars, Inductive
    <2> QED BY <1>1, <2>1, <2>2, <2>3, <2>4, ResolveDoneStep, ChildCloseFdsStep, SetUpMonitorStep,
               FreeNextStep, NoneFreeStep, FreeDoneStep, MoveMappedStep, MoveDoneStep DEF Next
  <1> QED BY <1>1, InitInductive, PTL DEF Spec

\* Streams are resolved to descriptors, and descriptors are tracked, as declared.
THEOREM TypeCorrect ==
  ASSUME 0 \in Always PROVE Spec => []TypeOK
  <1>1. Inductive => TypeOK
    BY DEF Inductive
  <1> QED BY <1>1, InductiveHolds, PTL

\* ProcessStarter and DescriptorMonitor lose no stream while they rearrange the
\* child's descriptors, whatever they are and however many there are.
THEOREM StreamsKept ==
  ASSUME 0 \in Always PROVE Spec => []NoStreamLost
  <1>1. Inductive => NoStreamLost
    <2> SUFFICES ASSUME Inductive, pc \in {"setup", "free", "move"}, NEW t \in required
                 PROVE  table[Place(t)] = Wanted(t)
      BY DEF NoStreamLost
    <2>1. CASE pc = "setup"
      <3>1. t \in DOMAIN descriptors /\ descriptors[t] \in Fds /\ table[descriptors[t]] = Wanted(t)
        BY <2>1 DEF Inductive, TypeOK, PlacedInv
      <3>2. Place(t) = descriptors[t]
        BY <2>1, <3>1 DEF Inductive, Place, GetMappedFd
      <3> QED BY <3>1, <3>2
    <2>2. CASE pc \in {"free", "move"}
      BY <2>2 DEF Inductive, MonitorInv
    <2> QED BY <2>1, <2>2
  <1> QED BY <1>1, InductiveHolds, PTL

\* What is executed has the streams its task asked for and no other descriptor.
THEOREM ArriveCorrect ==
  ASSUME 0 \in Always PROVE Spec => []StreamsArrive
  <1>1. Inductive => StreamsArrive
    BY DEF Inductive
  <1> QED BY <1>1, InductiveHolds, PTL

\* A dup2 never meets a closed descriptor; of the assertions of ProcessStarter and
\* DescriptorMonitor only two can fail: the one against naming a pipe end twice, and,
\* for a task that names more than half of the descriptors there are, the one that a
\* free descriptor is left.
THEOREM SetUpCorrect ==
  ASSUME 0 \in Always PROVE Spec => []SetUpSucceeds
  <1>1. Inductive => SetUpSucceeds
    BY DEF Inductive
  <1> QED BY <1>1, InductiveHolds, PTL
=============================================================================
