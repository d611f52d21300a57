-------------------------------- MODULE Cli --------------------------------
(***************************************************************************)
(* The clients of the library and what they do with a container: "files"     *)
(* calls its filesystem(), "builder" builds a task and starts it,            *)
(* "holder" only has it, "cli" is the command line program, a script from    *)
(* options to exit code.                                                     *)
(***************************************************************************)
EXTENDS Container, Task

CONSTANTS
  Roles,      \* casts: who plays what, "none" for a client that does nothing
  MaxBuild,   \* bound: calls that build a task
  Inputs, Outputs   \* local files named by --stdin, --stdout and --stderr

VARIABLES
  role,      \* the cast of a behaviour
  group,     \* ProcessGroup
  sent,      \* the group as it was when started; {} before
  builds,    \* calls that built it
  step,      \* cli: where main() is
  options,   \* cli: what the command line asks for
  exit,      \* cli: exit code
  result     \* cli: what the control process says of the program, if it has

groupVars == <<group, sent, builds>>
cliVars == <<step, options, exit, result>>
vars == <<containerVars, role, groupVars, cliVars>>

-----------------------------------------------------------------------------
\* "" stands for the default, /dev/null.
NoFile == <<>>

ASSUME StreamsAssumption == \A f \in Inputs \cup Outputs : f = NoFile \/ IsHostPath(f)

NoOptions == [limits |-> FALSE, stdin |-> NoFile, stdout |-> NoFile, stderr |-> NoFile]

\* The disk is a tree, clients are where the code can be, what is removed was
\* theirs, and ids of processes are indices.
TypeOK ==
  /\ ContainerTypeOK
  /\ \A c \in Clients : \A i \in DOMAIN group[c].processes : group[c].processes[i].id = i - 1
  /\ step \in [Clients -> {"options", "creating", "feeding", "starting", "waiting",
                           "stdout", "stderr", "leaving", "exited"}]
  /\ exit \in [Clients -> {"none", "success", "failure"}]
  /\ result \in [Clients -> {"none", "OK", "other"}]

Init ==
  /\ ContainerInit
  /\ role \in Roles
  /\ group = [c \in Clients |-> CreateGroup] /\ sent = [c \in Clients |-> {}]
  /\ builds = [c \in Clients |-> 0]
  /\ step = [c \in Clients |-> "options"] /\ options = [c \in Clients |-> NoOptions]
  /\ exit = [c \in Clients |-> "none"] /\ result = [c \in Clients |-> "none"]

Started(c) == sent[c] # {}

\* Container::execute with the task as it is.
Execute(c, g) ==
  /\ sent' = [sent EXCEPT ![c] = {g}]
  /\ lxc' = [lxc EXCEPT ![c] = "starting"]

-----------------------------------------------------------------------------
(* A client that builds a task. *)

MayBuild(c) == role[c] = "builder" /\ pc[c] = "alive" /\ builds[c] < MaxBuild

Build(c, g) ==
  /\ group' = [group EXCEPT ![c] = g]
  /\ builds' = [builds EXCEPT ![c] = @ + 1]
  /\ UNCHANGED <<containerVars, role, sent, cliVars>>

\* HasAlreadyStartedError once the group was started.
Extend(c) ==
  /\ MayBuild(c) /\ ~Started(c)
  /\ \/ Build(c, CreateProcess(group[c]))
     \/ Build(c, CreatePipe(group[c]))
     \/ Build(c, AddNotifier(group[c]))

\* Setters do not look at whether the group was started.
Set(c) ==
  LET g == group[c]
      ids == {p.id : p \in ToSet(g.processes)}
  IN  /\ MayBuild(c)
      /\ \/ Build(c, SetGroupLimits(g, "asked"))
         \/ Build(c, SetProcessDefaultSettings(g))
         \/ \E id \in ids, f \in {"ownerId", "name"} : Build(c, SetField(g, id, f, "asked"))
         \/ \E id \in ids, s \in g.ends \cup {FdAlias(2)} : Build(c, SetStream(g, id, 1, s))
         \/ \E id \in ids : Build(c, CloseStream(g, id, 2))
         \/ \E end \in g.ends : Build(c, AddNotifierTo(g, end))
         \/ \E n \in 0 .. 1, end \in g.ends : Build(c, SetNotifier(g, n, end))

StartGroup(c) ==
  /\ role[c] = "builder" /\ pc[c] = "alive" /\ ~Started(c)
  /\ Execute(c, group[c])
  /\ UNCHANGED <<disk, pc, createVars, useVars, abandoned, role, group, builds, cliVars>>

-----------------------------------------------------------------------------
(* The command line program. *)

Main(c, here) == role[c] = "cli" /\ step[c] = here /\ (here # "options" => pc[c] = "alive")
Step(c, there) == step' = [step EXCEPT ![c] = there]

\* An exception leaves execute(): what it holds is released on the way.
Leave(c, code) ==
  /\ Step(c, "leaving") /\ exit' = [exit EXCEPT ![c] = code]
  /\ Goto(c, "destroying") /\ lxc' = [lxc EXCEPT ![c] = Killed(@)]

\* Options and configuration are read; either may be wrong.
ReadOptions(c) ==
  /\ Main(c, "options")
  /\ \/ /\ \E limits \in BOOLEAN, in \in Inputs, out, err \in Outputs :
             options' = [options EXCEPT ![c] =
               [limits |-> limits, stdin |-> in, stdout |-> out, stderr |-> err]]
        /\ Step(c, "creating") /\ UNCHANGED exit
     \/ Step(c, "exited") /\ exit' = [exit EXCEPT ![c] = "failure"] /\ UNCHANGED options
  /\ UNCHANGED <<containerVars, role, groupVars, result>>

\* main() puts the limits, the configuration's or the command line's, into
\* variables of its own; execute() reads the members of the same names, which
\* nobody sets.
LimitsOfTask == "struct"

CliTask == SetField(SetField(CreateProcess(SetGroupLimits(CreateGroup, LimitsOfTask)),
                             0, "arguments", "asked"),
                    0, "resourceLimits", LimitsOfTask)

BuildTask(c) ==
  /\ Main(c, "creating")
  /\ group' = [group EXCEPT ![c] = CliTask]
  /\ Step(c, "feeding")
  /\ UNCHANGED <<containerVars, role, sent, builds, options, exit, result>>

Streams(g, o) ==
  LET named(r, fd, file, stream) == IF file = NoFile THEN r ELSE SetStream(r, 0, fd, stream)
  IN  named(named(named(g, 0, o.stdin, File("/stdin", "READ_ONLY")),
                  1, o.stdout, File("/stdout", "WRITE_ONLY")),
            2, o.stderr, File("/stderr", "WRITE_ONLY"))

Feed(c) ==
  LET in == options[c].stdin
      r == IF in = NoFile THEN Done(disk)
                          ELSE Push(disk, in, <<"stdin">>, "root", "0400", Root(c))
  IN  /\ Main(c, "feeding")
      /\ disk' = r.disk
      /\ placed' = IF in = NoFile THEN placed ELSE [placed EXCEPT ![c] =
           AfterPush(c, r, <<"stdin">>, in, "root", "0400")]
      /\ \/ /\ r.ok
            /\ group' = [group EXCEPT ![c] = Streams(@, options[c])]
            /\ Step(c, "starting") /\ UNCHANGED <<pc, lxc, exit>>
         \/ ~r.ok /\ Leave(c, "failure") /\ UNCHANGED group
      /\ UNCHANGED <<createVars, calls, abandoned, role, sent, builds, options, result>>

\* synchronizedCall(): start() may throw, and so may wait().
StartTask(c) ==
  /\ Main(c, "starting")
  /\ \/ Execute(c, group[c]) /\ Step(c, "waiting") /\ UNCHANGED <<pc, exit>>
     \/ Leave(c, "failure") /\ UNCHANGED sent
  /\ UNCHANGED <<disk, createVars, useVars, abandoned, role, group, builds, options, result>>

\* AsyncProcessGroupControlProcessError where it ended without a result; nobody
\* looks at what the result says.
WaitForTask(c) ==
  /\ Main(c, "waiting") /\ lxc[c] = "STOPPED"
  /\ \/ result[c] # "none" /\ Step(c, "stdout") /\ UNCHANGED <<pc, lxc, exit>>
     \/ Leave(c, "failure")
  /\ UNCHANGED <<disk, createVars, useVars, abandoned, role, groupVars, options, result>>

\* After the results were printed: stdout, then stderr; the last ends execute().
PullOutput(c) ==
  \E stream \in {"stdout", "stderr"} :
    LET local == options[c][stream]
        r == IF local = NoFile THEN Done(disk) ELSE Pull(disk, <<stream>>, local, Root(c))
    IN  /\ Main(c, stream)
        /\ disk' = r.disk
        /\ CASE ~r.ok -> Leave(c, "failure")
             [] r.ok /\ stream = "stdout" -> Step(c, "stderr") /\ UNCHANGED <<pc, lxc, exit>>
             [] r.ok /\ stream = "stderr" -> Leave(c, "success")
        /\ UNCHANGED <<createVars, useVars, abandoned, role, groupVars, options, result>>

\* main() returns or throws; without a container it does so at once.
Exit(c) ==
  /\ role[c] = "cli"
  /\ \/ step[c] = "leaving" /\ pc[c] = "gone" /\ UNCHANGED exit
     \/ step[c] = "creating" /\ pc[c] \in {"gone", "failed"}
        /\ exit' = [exit EXCEPT ![c] = "failure"]
  /\ Step(c, "exited")
  /\ UNCHANGED <<containerVars, role, groupVars, options, result>>

-----------------------------------------------------------------------------
(* The program in the container: it copies its stdin to stdout and complains *)
(* on stderr.                                                                *)

Stream(c, fd) == (CHOOSE g \in sent[c] : TRUE).processes[1].descriptors[fd]
InContainer(c, path) == Root(c) \o (CASE path = "/stdin"  -> <<"stdin">>
                                      [] path = "/stdout" -> <<"stdout">>
                                      [] path = "/stderr" -> <<"stderr">>)

\* The root of its links is that of the container.
Inner(d, c, path) == Real(d, InContainer(c, path), Root(c))

\* The control process opens it before there is a program.
Opens(c) == Stream(c, 0) = DevNull \/ Exists(disk, Inner(disk, c, "/stdin"))
Read(c) ==
  IF Stream(c, 0) # DevNull /\ Opens(c) THEN disk[Inner(disk, c, "/stdin")].data ELSE <<>>

\* A file is created or truncated when the control process opens the stream,
\* which throws where a directory has its name, and holds what is written then.
WriteStream(d, c, fd, data) ==
  IF Stream(c, fd) = DevNull THEN Done(d) ELSE Write(d, Inner(d, c, Stream(c, fd).path), data)

\* A stream that has not been opened, or has, or more.
Interrupted(d, c, fd, data) == {d} \cup {WriteStream(d, c, fd, x).disk : x \in {<<>>, data}}

Says(c, completion) == result' = [result EXCEPT ![c] = completion]

\* Slip: a stream that could not be opened makes no difference.
SucceedsAnyway(c) ==
  /\ disk' = WriteStream(WriteStream(disk, c, 1, Read(c)).disk, c, 2, <<"complaint">>).disk
  /\ Says(c, "OK")

\* The program starts, ends by itself and with success.
Succeeds(c) ==
  LET r == Then(WriteStream(disk, c, 1, Read(c)),
                LAMBDA x : WriteStream(x, c, 2, <<"complaint">>))
  IN  Opens(c) /\ r.ok /\ disk' = r.disk /\ Says(c, "OK")

\* It is not started, crashes or meets a limit, of which ctl.cpp writes a result all
\* the same; or the control process dies without one.
Fails(c) ==
  /\ disk' \in UNION {Interrupted(x, c, 2, <<"complaint">>) : x \in Interrupted(disk, c, 1, Read(c))}
  /\ Says(c, "other") \/ Says(c, "none")

\* lxc-execute ends: nothing in the container runs on, if it has come up at all.
\* No promise is kept about files that a program could reach.
Ends(c) ==
  /\ pc[c] = "alive" /\ lxc[c] \in {"starting", "RUNNING"}
  /\ lxc' = [lxc EXCEPT ![c] = "STOPPED"]
  /\ IF role[c] = "cli" /\ lxc[c] = "RUNNING"
       THEN /\ Succeeds(c) \/ Fails(c)
            /\ placed' = [placed EXCEPT ![c] = <<>>]
       ELSE UNCHANGED <<disk, placed, result>>
  /\ UNCHANGED <<pc, createVars, calls, abandoned, role, groupVars, step, options, exit>>

-----------------------------------------------------------------------------
ContainerStep(c) ==
  /\ \/ /\ role[c] = "cli" => step[c] = "creating"
        /\ role[c] # "none" /\ Creation(c)
     \/ role[c] = "files" /\ FileCalls(c)
     \/ role[c] # "cli" /\ Drop(c)
     \/ ComesUp(c) \/ Freeze(c) \/ Unfreeze(c)
     \/ Destruction(c)
  /\ UNCHANGED <<role, groupVars, cliVars>>

CliStep(c) ==
  \/ ReadOptions(c) \/ BuildTask(c) \/ Feed(c) \/ StartTask(c) \/ WaitForTask(c)
  \/ PullOutput(c) \/ Exit(c)

Next ==
  \E c \in Clients :
    ContainerStep(c) \/ Extend(c) \/ Set(c) \/ StartGroup(c) \/ CliStep(c) \/ Ends(c)

Spec == Init /\ [][Next]_vars

-----------------------------------------------------------------------------
(* Properties. *)

\* The task a control process gets is the one the client had built by start():
\* every field the last value set for it, defaults those in force when its
\* process was created, and no pipe in it that the control process will not make.
TaskAsBuilt ==
  \A c \in Clients : \A g \in sent[c] :
    LET task == Task(g)
        last(key, initial) == IF key \in DOMAIN g.wanted THEN g.wanted[key] ELSE initial
    IN  /\ task.resourceLimits = last(<<TheGroup, "resourceLimits">>, "default")
        /\ \A i \in DOMAIN task.processes, f \in Fields :
             task.processes[i].fields[f] = last(<<i - 1, f>>, "struct")
        /\ \A s \in EndsOf(task) : s.pipeId \in 0 .. task.pipesNumber - 1

\* The cli reports success only with a result of the control process in hand and
\* the container gone, and with the files that were asked for; and when the result
\* is that the program succeeded, they hold its whole output, computed from the
\* input that was asked for, unless links are met at or lead to these files.  After
\* a crash or a limit the cli reports success too, with what output there is.
CliDelivers ==
  \A c \in Clients : (step[c] = "exited" /\ exit[c] = "success") =>
    LET o == options[c]
        files == {o.stdin, o.stdout, o.stderr}
        input == IF o.stdin = NoFile THEN <<>> ELSE disk[o.stdin].data
    IN  /\ pc[c] = "gone" /\ result[c] # "none"
        /\ (\A f \in files : Direct(disk, f)) =>
             /\ \A f \in {o.stdout, o.stderr} \ {NoFile} : Exists(disk, f)
             /\ result[c] = "OK" =>
                  /\ o.stdout # NoFile => disk[o.stdout].data = input
                  /\ o.stderr # NoFile => disk[o.stderr].data = <<"complaint">>

\* What cli.cpp says of "time-limit", "memory-limit", "output-limit" and
\* "real-time-limit": a limit given on the command line is the limit of the task.
LimitsReachTask ==
  \A c \in Clients : (role[c] = "cli" /\ options[c].limits) => \A g \in sent[c] :
    /\ Task(g).resourceLimits = "asked"
    /\ Task(g).processes[1].fields["resourceLimits"] = "asked"
=============================================================================
