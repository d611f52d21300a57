----------------------------- MODULE LxcConfig -----------------------------
(***************************************************************************)
(* lxc::Config: how one configuration patches another, and the lines of     *)
(* lxc.conf(5) it is written as.  A boost::optional is a set of at most one  *)
(* value.                                                                    *)
(***************************************************************************)
EXTENDS Sequences

Optional(S) == {{}} \cup {{v} : v \in S}

\* Fields patched as a whole, and fields whose own fields are patched.
Overridden == {"arch", "utsname", "network", "console", "tty", "devttydir", "pivotdir",
               "cgroup", "cap_drop"}
MountFields == {"fstab", "entries"}
RootfsFields == {"fsname", "mount"}

Config(V, M, R) ==
  [plain  : [Overridden -> Optional(V)],
   mount  : Optional([MountFields -> Optional(M)]),
   rootfs : Optional([RootfsFields -> Optional(R)])]

\* override_patch
Override(this, patch) == IF patch # {} THEN patch ELSE this

\* MountConfig::patch, RootfsConfig::patch, and Config::patch for its own fields.
PatchFields(this, patch) == [f \in DOMAIN this |-> Override(this[f], patch[f])]

\* recursive_patch
Recurse(this, patch) ==
  IF this # {} /\ patch # {}
    THEN {PatchFields(t, p) : t \in this, p \in patch}
    ELSE Override(this, patch)

Patch(this, patch) ==
  [plain  |-> PatchFields(this.plain, patch.plain),
   mount  |-> Recurse(this.mount, patch.mount),
   rootfs |-> Recurse(this.rootfs, patch.rootfs)]

\* ConfigError of output(): "bad" is a key or a value that cannot be written,
\* one with '=' in the key or a line break, or a mount entry with a line break.
Printable(config) ==
  /\ "bad" \notin UNION {config.plain[f] : f \in Overridden}
  /\ \A m \in config.mount : \A names \in m["entries"] :
       \A i \in DOMAIN names : names[i] # "bad"
=============================================================================
