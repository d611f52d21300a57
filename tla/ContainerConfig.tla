--------------------------- MODULE ContainerConfig ---------------------------
(***************************************************************************)
(* ContainerConfig: what a container is made from.  Kept of it are the       *)
(* configuration of the LXC and the files that are created in the container; *)
(* the default settings of processes are Task's.                             *)
(***************************************************************************)
EXTENDS Filesystem, LxcConfig

CONSTANTS
  Mounts,       \* mount entries by name: [dir, bind, directory]
  SystemDirs,   \* names of the entries for /bin, /etc, ..., in order
  Hierarchies,  \* names of the entries for mounted control group hierarchies
  Configs,      \* what a configuration file can hold: [lxc, files]
  Names,        \* what unique_path can answer, in containersDir
  Leads         \* what symbolic links hold

\* Paths of the host, outside of the containers.
IsHostPath(p) == p \in Path /\ p # <<>> /\ p[1] \notin Names

EntryNames == Seq(DOMAIN Mounts)

\* Not below what a symbolic link may lead to.
Clear(p) == \A v \in Leads : ~IsPrefix(v, p)

\* Mounts are named by their entries, what a file is made from is the host's,
\* and only files and symbolic links are made from something.
LxcOK(config) ==
  \A m \in config.mount : DOMAIN m = MountFields /\ m["entries"] \subseteq EntryNames
FilesOK(files) ==
  /\ files \in Seq(Entry)
  /\ \A i \in DOMAIN files : LET e == files[i] IN
       /\ e.kind = "file" => e.data = <<>> \/ IsHostPath(e.data)
       /\ e.kind = "link" => e.data \in Leads
       /\ e.kind \notin {"file", "link"} => e.data = <<>>

\* prepare() appends the dir of an entry to the root as it is: one with ".."
\* would leave it.
ASSUME MountsAssumption ==
  /\ \A name \in DOMAIN Mounts :
       Mounts[name].dir \in Path /\ ToSet(Mounts[name].dir) \cap {".", ".."} = {}
  /\ SystemDirs \in EntryNames /\ Hierarchies \in EntryNames /\ "proc" \in DOMAIN Mounts
ASSUME ConfigsAssumption ==
  \A config \in Configs : /\ DOMAIN config = {"lxc", "files"}
                          /\ LxcOK(config.lxc) /\ FilesOK(config.files)

-----------------------------------------------------------------------------
\* getLxcMountConfig: try_add leaves out what is no directory of the host.
DefaultMounts(d) ==
  FoldLeft(LAMBDA names, name :
             IF IsDirectory(d, Followed(d, Mounts[name].dir)) THEN Append(names, name) ELSE names,
           <<>>, SystemDirs)
  \o <<"proc">> \o Hierarchies

\* getLxcConfig
DefaultLxcConfig(d) ==
  [plain |-> [f \in Overridden |-> CASE f = "arch" -> {"x86_64"} [] f = "utsname" -> {"container"}
                                     [] OTHER -> {}],
   mount |-> {[fstab |-> {}, entries |-> {DefaultMounts(d)}]},
   rootfs |-> {}]

\* File, with the owner a default-constructed Id stands for.
FileOf(kind, path, mode, data) ==
  [kind |-> kind, path |-> path, mode |-> mode, owner |-> "root", data |-> data]

CharDevice(name) == FileOf("device", <<"dev", name>>, "0666", <<>>)
SymLink(value, name) == FileOf("link", <<"dev", name>>, "0777", value)

\* getFilesystemConfig: /dev, its devices and the names of open descriptors.
DefaultFiles ==
  <<FileOf("dir", <<"dev">>, "0555", <<>>),
    CharDevice("null"), CharDevice("zero"), CharDevice("random"), CharDevice("urandom"),
    CharDevice("full"), SymLink(<<"proc", "fd">>, "fd"),
    SymLink(<<"proc", "self", "fd", "0">>, "stdin"),
    SymLink(<<"proc", "self", "fd", "1">>, "stdout"),
    SymLink(<<"proc", "self", "fd", "2">>, "stderr")>>

ASSUME LeadsAssumption ==
  /\ \A v \in Leads : IsHostPath(v)
  /\ {e.data : e \in {f \in ToSet(DefaultFiles) : f.kind = "link"}} \subseteq Leads

DefaultConfig(d) == [lxc |-> DefaultLxcConfig(d), files |-> DefaultFiles]

\* fromEnvironment: the file INVOKER_CONFIG names takes the place of the
\* default; one that cannot be read or is no configuration throws, and there is
\* nothing to create a container from.
FromEnvironment(d) == {DefaultConfig(d)} \cup Configs
=============================================================================
