----------------------------- MODULE Filesystem -----------------------------
(***************************************************************************)
(* What the library does to files: the operations of filesystem::File and   *)
(* its kinds, of class Filesystem and of the boost and POSIX calls they      *)
(* make.  A disk is a function from host paths, sequences of names, to       *)
(* nodes.  A symbolic link holds an absolute path of the host.               *)
(***************************************************************************)
EXTENDS Integers, SequencesExt, Maps

CONSTANT MaxLinks   \* symbolic links followed in one path (40 on Linux)

ASSUME LinksAssumption == MaxLinks \in Nat

Kind == {"dir", "file", "device", "fifo", "link"}

\* ino is the path the inode was created at; a hard link shares it.
Node(kind, owner, mode, data, ino) ==
  [kind |-> kind, owner |-> owner, mode |-> mode, data |-> data, ino |-> ino]

\* Names of files, of users, of modes.
Text == STRING
Path == Seq(Text)
Nodes == [kind : Kind, owner : Text, mode : Text, data : Path, ino : Path]

\* Provers know of a quoted text only that it is not another: these are strings.
ASSUME TextsAssumption ==
  {"root", "0400", "0555", "0644", "0666", "0755", "0777", "4755", "rootfs", "rootfs.mount",
   "config", "fstab", "stdin", "stdout", "stderr", "complaint", "dev", "null", "zero", "random",
   "urandom", "full", "proc", "self", "fd", "0", "1", "2"} \subseteq Text

Exists(d, p) == p \in DOMAIN d
IsDirectory(d, p) == Exists(d, p) /\ d[p].kind = "dir"
IsRegularFile(d, p) == Exists(d, p) /\ d[p].kind = "file"
IsLink(d, p) == Exists(d, p) /\ d[p].kind = "link"

\* An operation leaves a disk and returns, or leaves a disk and throws.
Done(d) == [disk |-> d, ok |-> TRUE]
Failed(d) == [disk |-> d, ok |-> FALSE]
Then(r, Op(_)) == IF r.ok THEN Op(r.disk) ELSE r

\* A tree: what is above a node is a directory, up to the root, and a directory
\* has nothing but its entries.
IsDisk(d) ==
  /\ <<>> \in DOMAIN d
  /\ \A p \in DOMAIN d : /\ p \in Path /\ d[p] \in Nodes
                         /\ \A q \in Prefixes(Front(p)) : IsDirectory(d, q)
                         /\ d[p].kind = "dir" => d[p].data = <<>>

-----------------------------------------------------------------------------
(* Path resolution, as the kernel does it. *)

\* No symbolic link is met on the way to p or there.
Straight(d, p) == \A q \in Prefixes(p) : ~IsLink(d, q)

\* The only link of a tree that p meets, followed where root is "/".
Hop(d, p, root) ==
  IF Straight(d, p) THEN p
  ELSE LET q == CHOOSE x \in Prefixes(p) : IsLink(d, x)
       IN  root \o d[q].data \o SubSeq(p, Len(q) + 1, Len(p))

\* Where p leads; to a link still, if there are too many.
Real(d, p, root) ==
  FoldLeft(LAMBDA t, i : Hop(d, t, root), p, [i \in 1 .. MaxLinks |-> i])
Followed(d, p) == Real(d, p, <<>>)

\* What p names: only the way to it is followed.
Named(d, p) == IF p = <<>> THEN p ELSE Append(Followed(d, Front(p)), Last(p))

-----------------------------------------------------------------------------
(* POSIX and boost::filesystem, on paths that have been resolved. *)

\* Fails where something that is not a directory is in the way.
MakeDirs(d, p, mode) ==
  IF \E q \in Prefixes(p) : Exists(d, q) /\ ~IsDirectory(d, q)
    THEN Failed(d)
    ELSE Done(Over(d, [q \in Prefixes(p) |-> Node("dir", "root", mode, <<>>, q)]))

\* A link that leads to no directory is in the way too.
MakeDirsTo(d, p, mode) ==
  IF \E q \in Prefixes(p) : IsLink(d, Named(d, q)) /\ ~IsDirectory(d, Followed(d, q))
    THEN Failed(d)
    ELSE MakeDirs(d, Followed(d, p), mode)

\* The mode of a directory that nobody calls chmod for.
Umasked == "0755"
CreateDirectories(d, p) == MakeDirsTo(d, p, Umasked)

RemoveAll(d, p) == [q \in {x \in DOMAIN d : ~IsPrefix(p, x)} |-> d[q]]

\* A new name, in a directory that is there.
Create(d, p, kind, mode, data) ==
  IF Exists(d, p) \/ ~IsDirectory(d, Front(p))
    THEN Failed(d) ELSE Done(Put(d, p, Node(kind, "root", mode, data, p)))

\* Create or truncate, as ofstream and copy_file(overwrite_if_exists) do.
Write(d, p, data) ==
  IF IsDirectory(d, p) \/ IsLink(d, p) THEN Failed(d)
  ELSE IF Exists(d, p) THEN Done([d EXCEPT ![p].data = data])
  ELSE Create(d, p, "file", "0644", data)

CopyFile(d, from, to) ==
  IF IsRegularFile(d, from) THEN Create(d, to, "file", d[from].mode, d[from].data)
                            ELSE Failed(d)

\* A hard link to a symbolic link is one to the link itself.
Link(d, from, to) ==
  IF Exists(d, from) /\ ~IsDirectory(d, from) /\ ~Exists(d, to) /\ IsDirectory(d, Front(to))
    THEN Done(Put(d, to, d[from])) ELSE Failed(d)

\* An inode changes under all its names.
Change(d, p, New(_)) ==
  IF Exists(d, p) THEN Done([q \in DOMAIN d |-> IF d[q].ino = d[p].ino THEN New(d[q]) ELSE d[q]])
                  ELSE Failed(d)

\* ELOOP where p is a link still.
Chmod(d, p, mode) ==
  IF IsLink(d, p) THEN Failed(d) ELSE Change(d, p, LAMBDA node : [node EXCEPT !.mode = mode])

\* chown clears the set-id bits of what is not a directory.
WithoutSetId(kind, mode) == IF mode = "4755" /\ kind # "dir" THEN "0755" ELSE mode
Lchown(d, p, owner) ==
  Change(d, p, LAMBDA node :
    [node EXCEPT !.owner = owner, !.mode = WithoutSetId(node.kind, @)])
Chown(d, p, owner) == IF IsLink(d, p) THEN Failed(d) ELSE Lchown(d, p, owner)

-----------------------------------------------------------------------------
(* filesystem/Operations.cpp *)

\* Slip: the root is on the stack that ".." pops.
KeepOnStack(path, root) ==
  FoldLeft(LAMBDA stack, name : IF name = ".." THEN Front(stack) ELSE Append(stack, name),
           root, path)

\* A leading "/" is a component too and can be popped, to no effect.
Descend(stack, name) ==
  CASE name = ".." /\ stack # <<>> -> Front(stack)
    [] name \notin {".", ".."}     -> Append(stack, name)
    [] OTHER                       -> stack

KeepInRoot(path, root) == root \o FoldLeft(Descend, <<>>, path)

\* NonContainerPathError where root is no prefix of path.
ContainerPath(path, root) == SubSeq(path, Len(root) + 1, Len(path))

-----------------------------------------------------------------------------
(* filesystem::File and its kinds: an entry of filesystem::Config. *)

\* source of a RegularFile, value of a SymLink; <<>> where there is none.
Entry == [kind : Kind, path : Path, mode : Text, owner : Text, data : Path]

Source(d, e) == IF e.data = <<>> THEN <<>> ELSE d[Followed(d, e.data)].data

\* SourceDoesNotExistsError, SourceIsNotRegularFileError.
BadSource(d, e) == e.data # <<>> /\ ~IsRegularFile(d, Followed(d, e.data))

\* mknod() of each kind: mkdir, mknod, mkfifo and symlink make what p names, a
\* stream and chmod go where p leads; all but SymLink end with chmod().
MknodDirectory(d, e, p) ==
  IF IsDirectory(d, Followed(d, p)) THEN Chmod(d, Followed(d, p), e.mode)
                                    ELSE Create(d, Named(d, p), "dir", e.mode, <<>>)

MknodRegularFile(d, e, p) ==
  IF BadSource(d, e) THEN Failed(d)
  ELSE Then(Write(d, Followed(d, p), Source(d, e)), LAMBDA x : Chmod(x, Followed(x, p), e.mode))

MknodDevice(d, e, p) == Create(d, Named(d, p), "device", e.mode, <<>>)
MknodFifo(d, e, p) == Create(d, Named(d, p), "fifo", e.mode, <<>>)
MknodSymLink(d, e, p) == Create(d, Named(d, p), "link", "0777", e.data)

Mknod(d, e, p) ==
  CASE e.kind = "dir"    -> MknodDirectory(d, e, p)
    [] e.kind = "file"   -> MknodRegularFile(d, e, p)
    [] e.kind = "device" -> MknodDevice(d, e, p)
    [] e.kind = "fifo"   -> MknodFifo(d, e, p)
    [] e.kind = "link"   -> MknodSymLink(d, e, p)

\* File::create: the parents (0777), mknod, lchown.
FileCreate(d, e, p) ==
  Then(Then(MakeDirsTo(d, Front(p), "0777"), LAMBDA x : Mknod(x, e, p)),
       LAMBDA x : Lchown(x, Named(x, p), e.owner))

CreateFile(d, e, root) == FileCreate(d, e, KeepInRoot(e.path, root))

\* Filesystem's constructor: every entry in turn, up to the first that throws.
CreateFiles(d, entries, root) ==
  FoldLeft(LAMBDA r, e : Then(r, LAMBDA x : CreateFile(x, e, root)), Done(d), entries)

-----------------------------------------------------------------------------
(* class Filesystem. *)

\* stat, chown and chmod go where the path leads, out of the root if a link does.
FileStatus(d, remote, root) == d[Followed(d, KeepInRoot(remote, root))]
SetOwnerId(d, remote, owner, root) == Chown(d, Followed(d, KeepInRoot(remote, root)), owner)
SetMode(d, remote, mode, root) == Chmod(d, Followed(d, KeepInRoot(remote, root)), mode)

\* exists()
Found(d, p) == LET t == Followed(d, p) IN Exists(d, t) /\ ~IsLink(d, t)

\* What push and pushLink find in the way of remote is removed before the copy
\* or the link is made, whether or not that succeeds; a link that leads nowhere
\* is not found.
Room(d, p) ==
  Then(CreateDirectories(d, Front(p)),
       LAMBDA x : Done(IF Found(x, p) THEN RemoveAll(x, Named(x, p)) ELSE x))

\* Slip: the mode is set before the owner.
AttributesModeFirst(r, remote, owner, mode, root) ==
  Then(Then(r, LAMBDA x : SetMode(x, remote, mode, root)),
       LAMBDA x : SetOwnerId(x, remote, owner, root))

Attributes(r, remote, owner, mode, root) ==
  Then(Then(r, LAMBDA x : SetOwnerId(x, remote, owner, root)),
       LAMBDA x : SetMode(x, remote, mode, root))

Push(d, local, remote, owner, mode, root) ==
  LET p == KeepInRoot(remote, root)
  IN  Attributes(Then(Room(d, p), LAMBDA x : CopyFile(x, Followed(x, local), Named(x, p))),
                 remote, owner, mode, root)

PushLink(d, local, remote, owner, mode, root) ==
  LET p == KeepInRoot(remote, root)
  IN  Attributes(Then(Room(d, p), LAMBDA x : Link(x, Named(x, local), Named(x, p))),
                 remote, owner, mode, root)

\* copy() of a directory makes the directory and leaves its entries behind; of a
\* symbolic link it makes another.
Copy(d, from, to) ==
  CASE IsDirectory(d, from) -> Create(d, to, "dir", d[from].mode, <<>>)
    [] IsLink(d, from)      -> Create(d, to, "link", "0777", d[from].data)
    [] OTHER                -> CopyFile(d, from, to)

\* FileDoesNotExistError, FileExistsError: thrown once local has its parents.
Pull(d, remote, local, root) ==
  LET p == KeepInRoot(remote, root)
  IN  Then(CreateDirectories(d, Front(local)),
           LAMBDA x : IF ~Found(x, p) \/ Found(x, local)
                        THEN Failed(x) ELSE Copy(x, Named(x, p), Named(x, local)))
=============================================================================
