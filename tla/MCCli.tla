------------------------------- MODULE MCCli -------------------------------
(* A host, its configurations and the casts that container.cfg checks. *)
EXTENDS Cli

file(data, mode, p) == Node("file", "root", mode, data, p)
dir_(p) == Node("dir", "root", "0755", <<>>, p)

MCHost ==
  (<<>> :> dir_(<<>>)) @@ (<<"home">> :> dir_(<<"home">>)) @@ (<<"etc">> :> dir_(<<"etc">>))
  @@ (<<"home", "in">> :> file(<<"input">>, "0755", <<"home", "in">>))
  @@ (<<"home", "fstab">> :> file(<<"etc", "proc">>, "0644", <<"home", "fstab">>))
  @@ (<<"home", "d">> :> dir_(<<"home", "d">>))
  @@ (<<"home", "d", "x">> :> file(<<"theirs">>, "0644", <<"home", "d", "x">>))

MCLeads == {<<"home", "d">>, <<"home", "d", "x">>, <<"proc", "fd">>}
           \cup {<<"proc", "self", "fd", n>> : n \in {"0", "1", "2"}}

MCMounts == [opt  |-> [dir |-> <<"opt">>, bind |-> TRUE, directory |-> TRUE],
             etc  |-> [dir |-> <<"etc">>, bind |-> TRUE, directory |-> TRUE],
             proc |-> [dir |-> <<"proc">>, bind |-> FALSE, directory |-> FALSE],
             cpu  |-> [dir |-> <<"sys", "cpu">>, bind |-> TRUE, directory |-> TRUE],
             null |-> [dir |-> <<"dev", "null">>, bind |-> TRUE, directory |-> FALSE],
             bad  |-> [dir |-> <<"bad">>, bind |-> FALSE, directory |-> TRUE]]

lxcWith(utsname, mount) ==
  [plain |-> [f \in Overridden |-> IF f = "utsname" THEN utsname ELSE {}],
   mount |-> mount, rootfs |-> {[fsname |-> {<<"home">>}, mount |-> {}]}]
entry(kind, path, mode, owner, data) ==
  [kind |-> kind, path |-> path, mode |-> mode, owner |-> owner, data |-> data]

\* One that mounts /dev/null and makes it too, which fails; one with an fstab,
\* set-id bits, a directory made on the way, a link to a directory of the host and
\* a file made through it, and outputs that are there already, as a file and as a
\* directory; one whose output is a link.
MCConfigs == {
  [lxc |-> lxcWith({}, {[fstab |-> {}, entries |-> {<<"null">>}]}),
   files |-> <<CharDevice("null")>>],
  [lxc |-> lxcWith({}, {[fstab |-> {<<"home", "fstab">>}, entries |-> {}]}),
   files |-> <<entry("file", <<"..", "a", ".", "b">>, "4755", "user", <<"home", "in">>),
               entry("dir", <<"a">>, "4755", "user", <<>>),
               entry("fifo", <<"f">>, "0644", "user", <<>>),
               entry("link", <<"l">>, "0777", "user", <<"home", "d">>),
               entry("file", <<"l", "y">>, "0644", "user", <<>>),
               entry("file", <<"stdout">>, "0755", "user", <<>>),
               entry("dir", <<"stderr">>, "0755", "user", <<>>)>>],
  [lxc |-> lxcWith({}, {}),
   files |-> <<entry("link", <<"stdout">>, "0777", "user", <<"home", "d", "x">>)>>] }

MCSystemDirs == <<"etc", "opt">>
MCHierarchies == <<"cpu">>

MCPatches == { lxcWith({"bad"}, {}), lxcWith({}, {[fstab |-> {}, entries |-> {<<"proc">>}]}),
               lxcWith({}, {[fstab |-> {}, entries |-> {<<"bad">>}]}) }

MCLocals == {<<"home", "in">>, <<"home", "out">>}
MCRemotes == {<<"..", "config">>, <<"a", "b">>, <<"a">>, <<"l", "x">>, <<"l">>}
MCInputs == {NoFile, <<"home", "in">>}
MCOutputs == {NoFile, <<"home", "in">>, <<"home", "out">>}

CONSTANTS c1, c2
cast(one, two) == (c1 :> one) @@ (c2 :> two)
MCRoles == {cast("files", "none"), cast("holder", "holder"), cast("builder", "none"),
            cast("cli", "none")}
CliAlone == {cast("cli", "none")}
=============================================================================
