----------------------------- MODULE Descriptors -----------------------------
(***************************************************************************)
(* How the descriptors a task asks for reach a process: ProcessStarter's    *)
(* constructor resolves each stream to a descriptor of the control process, *)
(* then the forked child closes what it does not use, moves what stands in  *)
(* the way (DescriptorMonitor) and puts every stream in its place.  The     *)
(* descriptor table is the kernel's: the control process's up to the fork,  *)
(* the child's from there on.                                               *)
(***************************************************************************)
EXTENDS Integers, FiniteSets, Functions

CONSTANTS
  MaxFd,      \* bound: descriptors are 0 .. MaxFd (getdtablesize)
  Targets,    \* the descriptors a task may name
  Always,     \* the ones every task names (a container's defaults: 0, 1, 2)
  NPipes      \* pipes of the task, allocated before any process is started

ASSUME TargetsAssumption ==
  /\ MaxFd \in Nat /\ NPipes \in Nat /\ 2 + 2 * NPipes <= MaxFd
  /\ Always \subseteq Targets /\ Targets \subseteq 0 .. MaxFd

VARIABLES
  streams,      \* process.descriptors (the task; never changes)
  pc,           \* control point
  todo,         \* descriptors a for loop has still to visit
  table,        \* the kernel's descriptor table: what each descriptor refers to
  descriptors,  \* descriptors_: target |-> descriptor it is resolved to
  used, free,   \* usedFds_, freeFds_ of the DescriptorMonitor
  conflict,     \* mustBeFreedFds
  freeFd,       \* loop variable of freeRequiredFds
  fdMap         \* fdMap_: where a descriptor was moved, 0 if nowhere

vars == <<streams, pc, todo, table, descriptors, used, free, conflict, freeFd, fdMap>>

-----------------------------------------------------------------------------
Fds == 0 .. MaxFd
Std == 0 .. 2

\* What a descriptor can refer to.  File t is the one opened for target t.
None == <<"none">>
Own == <<"own">>
File(t) == <<"file", t>>
PipeEnd == {"READ", "WRITE"} \X (0 .. (NPipes - 1))
Object == {None, Own} \cup {File(t) : t \in Targets} \cup PipeEnd

\* boost::variant<Pipe::End, File, FdAlias>.
Alias == {"alias"} \X Targets
Stream == {<<"file">>} \cup PipeEnd \cup Alias
IsAlias(t) == streams[t] \in Alias

Lowest(S) == CHOOSE fd \in S : \A x \in S : fd <= x
Closed == {fd \in Fds : table[fd] = None}

required == DOMAIN streams

TypeOK ==
  /\ required \subseteq Targets /\ streams \in [required -> Stream]
  /\ pc \in {"resolve", "aliases", "setup", "free", "move", "exec",
             "failed", "startFailed", "asserted"}
  /\ todo \subseteq required
  /\ table \in [Fds -> Object]
  /\ descriptors \in [DOMAIN descriptors -> Fds] /\ DOMAIN descriptors \subseteq required
  /\ pc \in {"setup", "free", "move", "exec"} => DOMAIN descriptors = required
  /\ used \subseteq Fds /\ free \subseteq Fds /\ conflict \subseteq Fds
  /\ freeFd \in Fds \cup {-1}
  /\ fdMap \in [Fds -> Fds]

\* The control process: its own standard streams, then the pipes in order.
Init ==
  /\ \E T \in SUBSET Targets : Always \subseteq T /\ streams \in [T -> Stream]
  /\ pc = "resolve"
  /\ todo = {t \in required : ~IsAlias(t)}
  /\ table = [fd \in Fds |->
       CASE fd \in Std -> Own
         [] fd \in 3 .. (2 + 2 * NPipes) ->
              <<IF fd % 2 = 1 THEN "READ" ELSE "WRITE", (fd - 3) \div 2>>
         [] OTHER -> None]
  /\ descriptors = <<>>
  /\ used = {} /\ free = {} /\ conflict = {} /\ freeFd = -1
  /\ fdMap = [fd \in Fds |-> 0]

-----------------------------------------------------------------------------
(* ProcessStarter's constructor, in the control process. *)

\* Streams::getFd: a file or the copy for an alias is allocated, a pipe end
\* has its descriptor already.
GetFd(t) ==
  IF streams[t] \in PipeEnd
    THEN CHOOSE fd \in Fds : table[fd] = streams[t]
    ELSE Lowest(Closed)

\* Slip: the alias is copied by its number, not by what it was resolved to.
OpenedByNumber(t) ==
  CASE streams[t] = <<"file">>   -> File(t)
    [] streams[t] \in PipeEnd    -> streams[t]
    [] IsAlias(t)                -> table[streams[t][2]]

\* What is opened or copied there.
Opened(t) ==
  CASE streams[t] = <<"file">>   -> File(t)
    [] streams[t] \in PipeEnd    -> streams[t]
    [] IsAlias(t)                -> table[descriptors[streams[t][2]]]

\* addStream: a descriptor must not be the answer to two streams.
AddStream(t) ==
  LET fd == GetFd(t)
  IN  /\ streams[t] \in PipeEnd \/ Closed # {}
      /\ table' = [table EXCEPT ![fd] = Opened(t)]
      /\ descriptors' = [x \in DOMAIN descriptors \cup {t} |->
                           IF x = t THEN fd ELSE descriptors[x]]
      /\ pc' = IF fd \in Range(descriptors) THEN "asserted" ELSE pc
      /\ todo' = todo \ {t}
      /\ UNCHANGED <<streams, used, free, conflict, freeFd, fdMap>>

Resolve(t) == pc = "resolve" /\ t \in todo /\ AddStream(t)

\* open() or dup() throws: no such file, or no descriptor left.
OpenFails(t) ==
  /\ pc \in {"resolve", "aliases"} /\ t \in todo /\ streams[t] \notin PipeEnd
  /\ pc' = "failed"
  /\ UNCHANGED <<streams, todo, table, descriptors, used, free, conflict, freeFd, fdMap>>

\* Slip: aliases are forgotten.
NoAliases == {}

Aliases == {t \in required : IsAlias(t)}

\* The second loop over the descriptors resolves the aliases.
ResolveDone ==
  /\ pc = "resolve" /\ todo = {}
  /\ pc' = "aliases" /\ todo' = Aliases
  /\ UNCHANGED <<streams, table, descriptors, used, free, conflict, freeFd, fdMap>>

GoodAlias(t) == streams[t][2] \in required /\ ~IsAlias(streams[t][2])

ResolveAlias(t) == pc = "aliases" /\ t \in todo /\ GoodAlias(t) /\ AddStream(t)

\* UnresolvedFdAliasError, InvalidTargetFdAliasError: no process is started.
AliasFails(t) ==
  /\ pc = "aliases" /\ t \in todo /\ ~GoodAlias(t)
  /\ pc' = "failed"
  /\ UNCHANGED <<streams, todo, table, descriptors, used, free, conflict, freeFd, fdMap>>

-----------------------------------------------------------------------------
(* fork() and childSetUpFds, in the child. *)

\* childCloseFds_: the control process's own streams and unused pipe ends.
ToClose == Std \cup {fd \in Fds : table[fd] \in PipeEnd /\ fd \notin Range(descriptors)}

ChildCloseFds ==
  /\ pc = "aliases" /\ todo = {}
  /\ table' = [fd \in Fds |-> IF fd \in ToClose THEN None ELSE table[fd]]
  /\ pc' = "setup"
  /\ UNCHANGED <<streams, todo, descriptors, used, free, conflict, freeFd, fdMap>>

\* Slip: a descriptor in use is taken for a free one.
NotRequired == Fds \ required

\* What setRequired and setUsed leave of freeFds_.
NeitherRequiredNorUsed == Fds \ (required \cup Range(descriptors))

\* setRequired and setUsed for every descriptor, and the head of the loop in
\* freeRequiredFds.
SetUpMonitor ==
  /\ pc = "setup"
  /\ used' = Range(descriptors)
  /\ free' = NeitherRequiredNorUsed
  /\ conflict' = used' \cap required
  /\ freeFd' = IF free' = {} THEN -1 ELSE Lowest(free')
  /\ pc' = "free"
  /\ UNCHANGED <<streams, todo, table, descriptors, fdMap>>

\* freeFds_ after moveFd(old, new).  closeFd hands dynamic_bitset::set a truth
\* value where it expects a position: bit 0 or 1 is set, not the bit of old.
FreeAfterMove(old, new) == (free \ {new}) \cup {IF old \in required THEN 0 ELSE 1}

\* The assertions of copyFd and closeFd; between them dup2 of a closed
\* descriptor throws.
MoveResult(old, new) ==
  CASE new \notin free \cup required                        -> "asserted"
    [] new \in free \cup required /\ table[old] = None      -> "startFailed"
    [] OTHER -> IF old \in used THEN pc ELSE "asserted"

\* moveFd: dup2 and close, when no assertion is in the way.
MoveFd(old, new) ==
  IF pc' = pc
    THEN /\ table' = [table EXCEPT ![new] = table[old], ![old] = None]
         /\ used' = (used \cup {new}) \ {old}
         /\ free' = FreeAfterMove(old, new)
    ELSE UNCHANGED <<table, used, free>>

\* One round of freeRequiredFds: the move, then the next free descriptor above
\* the last one.
FreeNext ==
  LET i == Lowest(conflict)
      above == {fd \in FreeAfterMove(i, freeFd) : fd > freeFd}
  IN  /\ pc = "free" /\ conflict # {} /\ freeFd # -1
      /\ pc' = IF freeFd \in required THEN "asserted" ELSE MoveResult(i, freeFd)
      /\ MoveFd(i, freeFd)
      /\ fdMap' = [fdMap EXCEPT ![i] = freeFd]
      /\ conflict' = conflict \ {i}
      /\ freeFd' = IF above = {} THEN -1 ELSE Lowest(above)
      /\ UNCHANGED <<streams, todo, descriptors>>

\* A stream stands in the way and no free descriptor is left above the last one:
\* BOOST_ASSERT(freeFd != npos).
NoneFree ==
  /\ pc = "free" /\ conflict # {} /\ freeFd = -1
  /\ pc' = "asserted"
  /\ UNCHANGED <<streams, todo, table, descriptors, used, free, conflict, freeFd, fdMap>>

FreeDone ==
  /\ pc = "free" /\ conflict = {}
  /\ pc' = IF used \cap required = {} THEN "move" ELSE "asserted"
  /\ todo' = required
  /\ UNCHANGED <<streams, table, descriptors, used, free, conflict, freeFd, fdMap>>

\* Slip: the descriptor's old place is asked for.
GetFdUnmapped(fd) == fd

GetMappedFd(fd) == IF fdMap[fd] # 0 THEN fdMap[fd] ELSE fd

\* moveMappedFd(resolved, target); getMappedFd asserts 0 < resolved.
MoveMapped(t) ==
  LET old == GetMappedFd(descriptors[t])
  IN  /\ pc = "move" /\ t \in todo
      /\ pc' = IF descriptors[t] = 0 THEN "asserted" ELSE MoveResult(old, t)
      /\ MoveFd(old, t)
      /\ todo' = todo \ {t}
      /\ UNCHANGED <<streams, descriptors, conflict, freeFd, fdMap>>

\* ~DescriptorMonitor, then exec.
MoveDone ==
  /\ pc = "move" /\ todo = {}
  /\ pc' = IF used = required THEN "exec" ELSE "asserted"
  /\ UNCHANGED <<streams, todo, table, descriptors, used, free, conflict, freeFd, fdMap>>

Ended == pc \in {"exec", "failed", "startFailed", "asserted"} /\ UNCHANGED vars

Next ==
  \/ (\E t \in Targets : Resolve(t)) \/ ResolveDone
  \/ (\E t \in Targets : ResolveAlias(t) \/ AliasFails(t) \/ OpenFails(t))
  \/ ChildCloseFds \/ SetUpMonitor \/ FreeNext \/ NoneFree \/ FreeDone
  \/ (\E t \in Targets : MoveMapped(t)) \/ MoveDone \/ Ended

Spec == Init /\ [][Next]_vars

-----------------------------------------------------------------------------
(* Properties. *)

\* The object a task asks for at descriptor t; an alias names another target.
Wanted(t) ==
  LET s == streams[t]
      of(x) == IF streams[x] = <<"file">> THEN File(x) ELSE streams[x]
  IN  IF IsAlias(t) THEN of(s[2]) ELSE of(t)

\* Where the child keeps the object of target t while it rearranges.
Place(t) == IF pc = "move" /\ t \notin todo THEN t ELSE GetMappedFd(descriptors[t])

\* While descriptors are moved about, every stream still has its object: no
\* dup2 of freeRequiredFds or moveMappedFd overwrites one that is still needed.
NoStreamLost ==
  pc \in {"setup", "free", "move"} => \A t \in required : table[Place(t)] = Wanted(t)

\* The program starts with every descriptor of its task referring to what the
\* task says, also where aliases, files and pipes ask for each other's numbers,
\* and with nothing else ("we do not want child process to interfere with
\* parent"): no stream of the control process, nor an end that keeps a pipe open.
StreamsArrive ==
  pc = "exec" => table = [fd \in Fds |-> IF fd \in required THEN Wanted(fd) ELSE None]

NamesPipeEndTwice ==
  \E t, u \in required : t # u /\ streams[t] \in PipeEnd /\ streams[t] = streams[u]

\* Moving needs room: the task names at most half of the descriptors there are.
RoomToMove == 2 * Cardinality(required) <= Cardinality(Fds)

\* Once the streams are open nothing fails: no dup2 meets a closed descriptor, and
\* no assertion of ProcessStarter and DescriptorMonitor fails but for a task that
\* names a pipe end twice or more than half of the descriptors there are.
SetUpSucceeds ==
  /\ pc # "startFailed"
  /\ pc = "asserted" => NamesPipeEndTwice \/ ~RoomToMove

\* The assertion of ~DescriptorMonitor, which runs also when moving throws: the
\* used descriptors are the required ones.
MonitorEndsTidy == pc = "startFailed" => used = required
=============================================================================
