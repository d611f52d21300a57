-------------------------------- MODULE Task --------------------------------
(***************************************************************************)
(* AsyncProcessGroup::Task and how ProcessGroup and Process build it.  A     *)
(* field holds where its value came from: "struct", its initialiser,         *)
(* "default", the settings of the configuration, "replaced", other settings, *)
(* or "asked", a setter.  Ids count from 0, indices of sequences from 1.     *)
(***************************************************************************)
EXTENDS Integers, SequencesExt, Maps

\* What process::DefaultSettings sets, and what else a Process lets be set.
Defaulted == {"resourceLimits", "environment", "currentPath", "ownerId"}
Fields == Defaulted \cup {"arguments", "name", "groupWaitsForTermination", "terminateGroupOnCrash"}

\* Stream: a variant of File, Pipe::End and FdAlias.
File(path, accessMode) == [path |-> path, accessMode |-> accessMode]
End(pipeId, end) == [pipeId |-> pipeId, end |-> end]
ReadEnd(pipeId) == End(pipeId, "READ")
WriteEnd(pipeId) == End(pipeId, "WRITE")
FdAlias(fd) == [fd |-> fd]

IsEnd(stream) == "pipeId" \in DOMAIN stream

NewProcess(id) ==
  [id |-> id, fields |-> [f \in Fields |-> "struct"], descriptors |-> <<>>]

\* A ProcessGroup: task_, what the client was given and what it has set.
NewGroup ==
  [processes |-> <<>>, pipesNumber |-> 0, notifiers |-> <<>>, resourceLimits |-> "struct",
   processDefaults |-> "struct", ends |-> {}, wanted |-> <<>>]

-----------------------------------------------------------------------------
(* Process: every call goes to the task of its group by the process's id. *)

SetField(g, id, field, value) ==
  [g EXCEPT !.processes[id + 1].fields[field] = value,
            !.wanted = Put(@, <<id, field>>, value)]

\* setStream, setNonPipeStream and closeStream.
SetStream(g, id, fd, stream) == [g EXCEPT !.processes[id + 1].descriptors = Put(@, fd, stream)]
CloseStream(g, id, fd) ==
  [g EXCEPT !.processes[id + 1].descriptors = [x \in DOMAIN @ \ {fd} |-> @[x]]]

DevNull == File("/dev/null", "READ_WRITE")

\* DefaultSettings::setUpProcess; defaults says whose settings they are.
SetUpProcess(p, defaults) ==
  [p EXCEPT !.fields = [f \in Fields |-> IF f \in Defaulted THEN defaults ELSE @[f]],
            !.descriptors = Over([fd \in 0 .. 2 |-> DevNull], @)]

-----------------------------------------------------------------------------
(* ProcessGroup. *)

\* ProcessGroup::create: DefaultSettings::setUpProcessGroup.
CreateGroup == [NewGroup EXCEPT !.resourceLimits = "default", !.processDefaults = "default"]

SetProcessDefaultSettings(g) == [g EXCEPT !.processDefaults = "replaced"]

\* In wanted, beside the ids of processes.
TheGroup == -1

SetGroupLimits(g, value) ==
  [g EXCEPT !.resourceLimits = value, !.wanted = Put(@, <<TheGroup, "resourceLimits">>, value)]

CreateProcess(g) ==
  LET id == Len(g.processes)
  IN  [g EXCEPT !.processes = Append(@, SetUpProcess(NewProcess(id), g.processDefaults)),
                !.wanted = Over([key \in {id} \X Defaulted |-> g.processDefaults], @)]

\* Slip: the counter is raised before the pipe is named.
PipeFromOne(g) == g.pipesNumber + 1

NewPipe(g) == g.pipesNumber

\* Both ends of the pipe are the client's to give away.
CreatePipe(g) ==
  [g EXCEPT !.pipesNumber = @ + 1, !.ends = @ \cup {ReadEnd(NewPipe(g)), WriteEnd(NewPipe(g))}]

\* addNotifier(NotificationStream) and the overloads with an end: no end is refused.
AddNotifierTo(g, end) == [g EXCEPT !.notifiers = Append(@, end)]

\* addNotifier() and addNotifier(Protocol): the client gets the read end only.
AddNotifier(g) ==
  AddNotifierTo([g EXCEPT !.pipesNumber = @ + 1, !.ends = @ \cup {ReadEnd(NewPipe(g))}],
                WriteEnd(NewPipe(g)))

\* IllegalSinkError comes before OutOfRangeError; both leave the group alone.
SetNotifier(g, id, end) ==
  IF end.end # "WRITE" \/ id >= Len(g.notifiers) THEN g ELSE [g EXCEPT !.notifiers[id + 1] = end]

\* start(): the task as it is then; what is set later is not sent.
Task(g) == [processes |-> g.processes, pipesNumber |-> g.pipesNumber,
            notifiers |-> g.notifiers, resourceLimits |-> g.resourceLimits]

-----------------------------------------------------------------------------
\* The ends a task names.
EndsOf(task) ==
  ToSet(task.notifiers)
  \cup UNION {{s \in {p.descriptors[fd] : fd \in DOMAIN p.descriptors} : IsEnd(s)} :
              p \in ToSet(task.processes)}
=============================================================================
