----------------------------- MODULE Container -----------------------------
(***************************************************************************)
(* Containers on one host: Container::create, the Lxc that owns a           *)
(* container's directory, the files in it and what becomes of them.  Each    *)
(* client is a thread or a program with one container; they meet on the      *)
(* disk.                                                                     *)
(***************************************************************************)
EXTENDS ContainerConfig

CONSTANTS
  Clients,    \* the clients
  Foreign,    \* names that exist in containersDir already
  Attempts,   \* counter of Container::create (10 in the code)
  Patches,    \* the lxc::Config a create() may be given besides
  Host,       \* the files of the host, a disk
  MaxCalls,   \* bound: calls a client makes on its container
  Locals, Remotes, Owners, Modes    \* arguments of those calls

\* Other names of a file are names of the host's, and so is what links lead to.
Sound(d) ==
  /\ IsDisk(d)
  /\ \A p \in DOMAIN d : /\ d[p].ino = p \/ IsHostPath(d[p].ino)
                         /\ d[p].kind = "link" => d[p].data \in Leads

ASSUME NamesAssumption ==
  /\ Names \subseteq Text \ {""} /\ Foreign \subseteq Names
  /\ Attempts \in Nat \ {0, 1} /\ MaxCalls \in Nat
ASSUME HostAssumption ==
  Sound(Host) /\ \A p \in DOMAIN Host : p # <<>> => IsHostPath(p)
ASSUME PatchesAssumption == \A patch \in Patches : LxcOK(patch)
ASSUME CallsAssumption ==
  /\ \A local \in Locals : IsHostPath(local)
  /\ Remotes \subseteq Path /\ Owners \subseteq Text /\ Modes \subseteq Text

VARIABLES
  disk,       \* the host's file system; containersDir is its root
  pc,         \* where a client is in the life of its container
  left,       \* counter
  dir,        \* name of the container, "" where there is none
  conf,       \* its configuration, patched
  lxc,        \* its LXC state
  calls,      \* calls made on it
  placed,     \* per path in the container, what the client has asked for
  abandoned   \* directories remove_all has failed to remove

createVars == <<left, dir, conf>>
useVars == <<calls, placed>>
containerVars == <<disk, pc, createVars, lxc, useVars, abandoned>>

-----------------------------------------------------------------------------
Root(c) == <<dir[c], "rootfs">>
Holding(c) == pc[c] \in {"constructing", "undo", "filling", "alive", "destroying", "removing"}
NoConfig == [lxc |-> [plain |-> [f \in Overridden |-> {}], mount |-> {}, rootfs |-> {}],
             files |-> <<>>]

ContainerTypeOK ==
  /\ Sound(disk)
  /\ pc \in [Clients -> {"idle", "naming", "constructing", "undo", "filling", "alive",
                         "destroying", "removing", "gone", "failed"}]
  /\ left \in [Clients -> 0 .. Attempts]
  /\ dir \in [Clients -> Names \cup {""}] /\ \A c \in Clients : Holding(c) => dir[c] # ""
  /\ lxc \in [Clients -> {"STOPPED", "starting", "RUNNING", "FROZEN"}]
  /\ calls \in [Clients -> 0 .. MaxCalls]
  /\ \A c \in Clients : \A p \in DOMAIN placed[c] : DOMAIN placed[c][p] = {"owner", "mode", "data"}
  /\ abandoned \subseteq Names \ Foreign

ContainerInit ==
  /\ disk = Over(Host, [p \in {<<n>> : n \in Foreign} |-> Node("dir", "root", Umasked, <<>>, p)])
  /\ pc = [c \in Clients |-> "idle"] /\ left = [c \in Clients |-> 0]
  /\ dir = [c \in Clients |-> ""] /\ conf = [c \in Clients |-> NoConfig]
  /\ lxc = [c \in Clients |-> "STOPPED"]
  /\ calls = [c \in Clients |-> 0] /\ placed = [c \in Clients |-> <<>>]
  /\ abandoned = {}

Goto(c, where) == pc' = [pc EXCEPT ![c] = where]

-----------------------------------------------------------------------------
(* class Lxc: its directory. *)

\* prepare(MountEntry): a place to mount on.  There is no symbolic link yet in the
\* new directory of a container: paths in it are real.
PrepareEntry(d, name, root) ==
  LET e == Mounts[name]
      dst == root \o e.dir
  IN  IF e.bind /\ ~e.directory
        THEN Then(MakeDirs(d, Front(dst), Umasked), LAMBDA x : Write(x, dst, <<>>))
        ELSE MakeDirs(d, dst, Umasked)

PrepareEntries(d, names, root) ==
  FoldLeft(LAMBDA r, name : Then(r, LAMBDA x : PrepareEntry(x, name, root)), Done(d), names)

\* The fstab of the configuration, with its entries prepared, is saved beside;
\* a file of something else cannot be loaded.
PrepareFstab(d, fstab, n) ==
  LET file == Followed(d, fstab)
  IN  IF ~IsRegularFile(d, file) \/ ~(ToSet(d[file].data) \subseteq DOMAIN Mounts) THEN Failed(d)
      ELSE Then(PrepareEntries(d, d[file].data, <<n, "rootfs">>),
                LAMBDA x : Write(x, <<n, "fstab">>, d[file].data))

MountNames(config, field) == UNION {m[field] : m \in config.mount}

\* prepare(Config)
Prepare(d, config, n) ==
  LET fold(r, paths, Op(_, _)) == IF paths = {} THEN r
                                  ELSE Then(r, LAMBDA x : Op(x, CHOOSE p \in paths : TRUE))
      mounted == fold(Done(d), MountNames(config, "fstab"),
                      LAMBDA x, fstab : PrepareFstab(x, fstab, n))
  IN  fold(mounted, MountNames(config, "entries"),
           LAMBDA x, names : PrepareEntries(x, names, <<n, "rootfs">>))

\* And before that: whatever the configuration says of a root file system, the
\* container has its own.
OwnRootfs(config, n) ==
  [plain |-> config.plain, mount |-> config.mount,
   rootfs |-> {[f \in RootfsFields |-> IF f = "fsname" THEN {<<n, "rootfs">>}
                                                      ELSE {<<n, "rootfs.mount">>}]}]

\* What is kept of lxc.conf: the root file system it names.
Fsname(config) == CHOOSE p \in UNION {r["fsname"] : r \in config.rootfs} : TRUE

\* The constructor.
Lxc(d, config, n) ==
  LET own == OwnRootfs(config, n)
  IN  Then(Then(Then(Prepare(d, own, n),
        LAMBDA x : MakeDirs(x, <<n, "rootfs">>, Umasked)),
        LAMBDA x : MakeDirs(x, <<n, "rootfs.mount">>, Umasked)),
        LAMBDA x : IF Printable(own) THEN Write(x, <<n, "config">>, Fsname(own)) ELSE Failed(x))

-----------------------------------------------------------------------------
(* Container::create. *)

CreateContainer(c) ==
  /\ pc[c] = "idle"
  /\ \E config \in FromEnvironment(disk), patches \in {{}} \cup {{p} : p \in Patches} :
       conf' = [conf EXCEPT ![c] =
         [config EXCEPT !.lxc = CHOOSE l \in {Patch(@, p) : p \in patches}
                                             \cup (IF patches = {} THEN {@} ELSE {}) : TRUE]]
  /\ left' = [left EXCEPT ![c] = Attempts]
  /\ Goto(c, "naming")
  /\ UNCHANGED <<disk, dir, lxc, useVars, abandoned>>

\* Slip: "--counter" is not tested.
NeverOut(c) == FALSE

NewDirectoryCreated(n) == ~Exists(disk, <<n>>)
OutOfTries(c) == left[c] = 1

\* One round of the loop: a random name, and create_directory unless it was
\* the last one; the last name is never tried.
TryName(c) ==
  /\ pc[c] = "naming"
  /\ left' = [left EXCEPT ![c] = @ - 1]
  /\ IF OutOfTries(c)
       THEN Goto(c, "failed") /\ UNCHANGED <<disk, dir>>
       ELSE \E n \in Names :
              IF NewDirectoryCreated(n)
                THEN /\ disk' = MakeDirs(disk, <<n>>, Umasked).disk
                     /\ dir' = [dir EXCEPT ![c] = n]
                     /\ Goto(c, "constructing")
                ELSE UNCHANGED <<disk, dir, pc>>
  /\ UNCHANGED <<conf, lxc, useVars, abandoned>>

\* create_directory throws: nothing was made.
NamingFails(c) ==
  /\ pc[c] = "naming"
  /\ Goto(c, "failed")
  /\ UNCHANGED <<disk, createVars, lxc, useVars, abandoned>>

\* new Lxc returns, or throws at some point of its constructor.
ConstructLxc(c) ==
  LET r == Lxc(disk, conf[c].lxc, dir[c])
  IN  /\ pc[c] = "constructing"
      /\ \/ r.ok /\ disk' = r.disk /\ Goto(c, "filling")
         \/ disk' \in {disk, r.disk} /\ Goto(c, "undo")
      /\ UNCHANGED <<createVars, lxc, useVars, abandoned>>

\* remove_all and what is said of it: "ignoring".  The client has no container
\* then.
RemoveDirectory(c) ==
  /\ \/ disk' = RemoveAll(disk, <<dir[c]>>) /\ UNCHANGED abandoned
     \/ abandoned' = abandoned \cup {dir[c]} /\ UNCHANGED disk
  /\ dir' = [dir EXCEPT ![c] = ""] /\ conf' = [conf EXCEPT ![c] = NoConfig]
  /\ left' = [left EXCEPT ![c] = 0] /\ placed' = [placed EXCEPT ![c] = <<>>]

\* The handler of create(): the exception goes on.
Undo(c) ==
  /\ pc[c] = "undo"
  /\ RemoveDirectory(c)
  /\ Goto(c, "failed")
  /\ UNCHANGED <<lxc, calls>>

\* Slip: the Lxc is released before the files are made.
Leaked == "failed"

\* Where an exception of Container's constructor leads: lxcPtr still owns the
\* Lxc.
Unwinding == "destroying"

\* What a configuration promises about the files of a new container; later
\* entries for the same path come over earlier ones, set-id bits do not
\* survive the lchown that ends File::create, a symbolic link has no mode of its
\* own.  Nothing is promised of an entry that meets the link of another one, or
\* whose source may be reached by links.
Asked(d, e) ==
  [owner |-> e.owner,
   mode  |-> IF e.kind = "link" THEN "0777" ELSE WithoutSetId(e.kind, e.mode),
   data  |-> IF e.kind = "file" THEN Source(d, e) ELSE e.data]
Meets(e, other) ==
  other.kind = "link" /\ other # e
  /\ IsPrefix(KeepInRoot(other.path, <<>>), KeepInRoot(e.path, <<>>))
Direct(d, f) == f # <<>> => Clear(f) /\ Straight(d, f)
Promises(d, entries, e) ==
  /\ \A other \in ToSet(entries) : ~Meets(e, other)
  /\ e.kind = "file" => Direct(d, e.data)
Promised(d, entries) ==
  FoldLeft(LAMBDA f, e :
             LET path == KeepInRoot(e.path, <<>>)
             IN  IF Promises(d, entries, e) THEN Put(f, path, Asked(d, e))
                                            ELSE [q \in DOMAIN f \ {path} |-> f[q]],
           <<>>, entries)

\* Container's constructor: the files of the configuration, then the Lxc is
\* taken over.
CreateConfiguredFiles(c) ==
  LET r == CreateFiles(disk, conf[c].files, Root(c))
  IN  /\ pc[c] = "filling"
      /\ disk' = r.disk
      /\ \/ /\ r.ok /\ Goto(c, "alive")
            /\ placed' = [placed EXCEPT ![c] = Promised(disk, conf[c].files)]
         \/ Goto(c, Unwinding) /\ UNCHANGED placed
      /\ UNCHANGED <<createVars, lxc, calls, abandoned>>

-----------------------------------------------------------------------------
(* The client's calls on filesystem(). *)

Called(c) == calls' = [calls EXCEPT ![c] = @ + 1]
MayCall(c) == pc[c] = "alive" /\ calls[c] < MaxCalls

At(c, remote) == ContainerPath(KeepInRoot(remote, Root(c)), Root(c))

\* What was placed at or under a path is no longer what the client asked for.
Forgotten(c, path) == [p \in {x \in DOMAIN placed[c] : ~IsPrefix(path, x)} |-> placed[c][p]]

\* What the client asked for is there if r, which put it there, did not throw and
\* no symbolic link was met on the way, there or to what was pushed.
AfterPush(c, r, path, local, owner, mode) ==
  IF r.ok /\ Straight(disk, Front(Root(c) \o path)) /\ Straight(disk, local)
    THEN Put(Forgotten(c, path), path,
             [owner |-> owner, mode |-> mode, data |-> disk[local].data])
    ELSE Forgotten(c, path)

PushFile(c) ==
  /\ MayCall(c)
  /\ \E local \in Locals, remote \in Remotes, owner \in Owners, mode \in Modes :
       LET r == Push(disk, local, remote, owner, mode, Root(c))
       IN  /\ disk' = r.disk
           /\ placed' = [placed EXCEPT ![c] =
                AfterPush(c, r, At(c, remote), local, owner, mode)]
  /\ Called(c) /\ UNCHANGED <<pc, createVars, lxc, abandoned>>

\* A hard link keeps following the local file: no promise is kept about it.
PushFileLink(c) ==
  /\ MayCall(c)
  /\ \E local \in Locals, remote \in Remotes, owner \in Owners, mode \in Modes :
       /\ disk' = PushLink(disk, local, remote, owner, mode, Root(c)).disk
       /\ placed' = [placed EXCEPT ![c] = Forgotten(c, At(c, remote))]
  /\ Called(c) /\ UNCHANGED <<pc, createVars, lxc, abandoned>>

\* The attributes of a link are not changed by either.
SetAttribute(c) ==
  /\ MayCall(c)
  /\ \E remote \in Remotes :
       LET p == At(c, remote)
           asked(file) == IF p \in DOMAIN placed[c] /\ ~IsLink(disk, Root(c) \o p)
                            THEN [placed EXCEPT ![c] = Put(@, p, file)] ELSE placed
       IN  \/ \E owner \in Owners :
                /\ disk' = SetOwnerId(disk, remote, owner, Root(c)).disk
                /\ placed' = asked([placed[c][p] EXCEPT !.owner = owner,
                     !.mode = WithoutSetId(FileStatus(disk, remote, Root(c)).kind, @)])
           \/ \E mode \in Modes :
                /\ disk' = SetMode(disk, remote, mode, Root(c)).disk
                /\ placed' = asked([placed[c][p] EXCEPT !.mode = mode])
  /\ Called(c) /\ UNCHANGED <<pc, createVars, lxc, abandoned>>

PullFile(c) ==
  /\ MayCall(c)
  /\ \E remote \in Remotes, local \in Locals :
       disk' = Pull(disk, remote, local, Root(c)).disk
  /\ Called(c) /\ UNCHANGED <<pc, createVars, lxc, placed, abandoned>>

-----------------------------------------------------------------------------
(* The Lxc running and destroyed. *)

SetLxc(c, state) ==
  /\ lxc' = [lxc EXCEPT ![c] = state]
  /\ UNCHANGED <<disk, pc, createVars, useVars, abandoned>>

ComesUp(c) == pc[c] = "alive" /\ lxc[c] = "starting" /\ SetLxc(c, "RUNNING")

\* lxc-freeze and lxc-unfreeze, by the library or by hand.
Freeze(c) == pc[c] = "alive" /\ lxc[c] = "RUNNING" /\ SetLxc(c, "FROZEN")
Unfreeze(c) == pc[c] = "alive" /\ lxc[c] = "FROZEN" /\ SetLxc(c, "RUNNING")

\* ~AsyncProcessGroup kills and reaps an lxc-execute that is still there; one
\* that has not come up yet never does.
Killed(state) == IF state = "starting" THEN "STOPPED" ELSE state

\* The last pointer to the container goes away.
Drop(c) ==
  /\ pc[c] = "alive"
  /\ Goto(c, "destroying") /\ lxc' = [lxc EXCEPT ![c] = Killed(@)]
  /\ UNCHANGED <<disk, createVars, useVars, abandoned>>

\* ~Lxc: stop() unfreezes, kills and may fail at either ("ignoring").
DestroyStops(c) ==
  /\ pc[c] = "destroying"
  /\ Goto(c, "removing")
  /\ \E state \in {"STOPPED", "RUNNING", lxc[c]} :
       /\ state = "RUNNING" => lxc[c] # "STOPPED"
       /\ lxc' = [lxc EXCEPT ![c] = state]
  /\ UNCHANGED <<disk, createVars, useVars, abandoned>>

DestroyRemoves(c) ==
  /\ pc[c] = "removing"
  /\ RemoveDirectory(c)
  /\ Goto(c, "gone")
  /\ UNCHANGED <<lxc, calls>>

Creation(c) ==
  \/ CreateContainer(c) \/ TryName(c) \/ NamingFails(c) \/ ConstructLxc(c) \/ Undo(c)
  \/ CreateConfiguredFiles(c)

FileCalls(c) == PushFile(c) \/ PushFileLink(c) \/ SetAttribute(c) \/ PullFile(c)

Destruction(c) == DestroyStops(c) \/ DestroyRemoves(c)

-----------------------------------------------------------------------------
(* Properties. *)

\* What is in containersDir and was not there before belongs to exactly one
\* container or could not be removed, however create() fails and whatever was
\* made by then; and no container is without its directory.
OneOwnerEach ==
  LET holders == {c \in Clients : Holding(c)}
  IN  /\ {p[1] : p \in DOMAIN disk \ {<<>>}} \cap (Names \ Foreign)
           = {dir[c] : c \in holders} \cup abandoned
      /\ \A c, other \in holders : dir[c] = dir[other] => c = other
      /\ \A c \in holders : dir[c] \notin Foreign \cup abandoned

\* A file that was not reached through a symbolic link is what the configuration
\* or the client's last call made of it: data, owner and mode, set-id bits
\* included, whatever else happens on the disk; and lxc.conf names the root file
\* system that was made beside it, not one that was configured.
FilesAsAsked ==
  \A c \in Clients : pc[c] = "alive" =>
    /\ disk[<<dir[c], "config">>].data = Root(c)
    /\ \A p \in DOMAIN placed[c] :
         LET file == Root(c) \o p
         IN  /\ Exists(disk, file)
             /\ placed[c][p] = [owner |-> disk[file].owner, mode |-> disk[file].mode,
                                data  |-> disk[file].data]

\* Calls stay in the root of their container, and on the host below what symbolic
\* links lead to, whatever path they are given: what lies beside the root keeps
\* its kind and contents, and so does a file of the host that no link leads to.
KeptInRoot ==
  [][ \A p \in DOMAIN disk :
        LET beside == \E c \in Clients :
              pc[c] = "alive" /\ pc'[c] = "alive" /\ p # Root(c)
              /\ IsPrefix(<<dir[c]>>, p) /\ ~IsPrefix(Root(c), p)
            theirs == p # <<>> /\ p[1] \notin Names \ Foreign /\ Clear(p)
        IN  (beside \/ theirs) =>
              p \in DOMAIN disk' /\ disk'[p].kind = disk[p].kind /\ disk'[p].data = disk[p].data
    ]_containerVars
=============================================================================
