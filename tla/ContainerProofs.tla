------------------------- MODULE ContainerProofs --------------------------
(***************************************************************************)
(* Containers on one host, for any number of clients, any configuration    *)
(* and any failure: the invariant of their directories and files, kept by  *)
(* each step.                                                              *)
(***************************************************************************)
EXTENDS FilesystemProofs

-----------------------------------------------------------------------------
(* Laws of lxc::Config::patch, for any values of the fields.  It does not     *)
(* matter which of two patches is done first, and patching brings in nothing  *)
(* neither side asked for.                                                    *)

LEMMA OverrideAssociative ==
  ASSUME NEW a, NEW b, NEW c
  PROVE  Override(Override(a, b), c) = Override(a, Override(b, c))
  BY DEF Override

LEMMA OverrideType ==
  ASSUME NEW S, NEW a \in Optional(S), NEW b \in Optional(S)
  PROVE  Override(a, b) \in Optional(S)
  BY DEF Override

LEMMA PatchFieldsAssociative ==
  ASSUME NEW F, NEW S, NEW a \in [F -> Optional(S)], NEW b \in [F -> Optional(S)],
         NEW c \in [F -> Optional(S)]
  PROVE  PatchFields(PatchFields(a, b), c) = PatchFields(a, PatchFields(b, c))
  BY OverrideAssociative DEF PatchFields

\* An optional structure is absent, or patched field by field.
LEMMA RecurseAbsent ==
  ASSUME NEW a, NEW b
  PROVE  /\ a = {} => Recurse(a, b) = b
         /\ b = {} => Recurse(a, b) = a
  BY DEF Recurse, Override

LEMMA RecursePresent ==
  ASSUME NEW x, NEW y
  PROVE  Recurse({x}, {y}) = {PatchFields(x, y)}
  <1>1. {x} # {} /\ {y} # {}
    OBVIOUS
  <1>2. {PatchFields(t, p) : t \in {x}, p \in {y}} = {PatchFields(x, y)}
    <2>1. \A z : z \in {PatchFields(t, p) : t \in {x}, p \in {y}} <=>
                  \E t \in {x}, p \in {y} : z = PatchFields(t, p)
      OBVIOUS
    <2>2. \A z : (\E t \in {x}, p \in {y} : z = PatchFields(t, p)) <=> z = PatchFields(x, y)
      OBVIOUS
    <2> QED BY <2>1, <2>2
  <1> QED BY <1>1, <1>2 DEF Recurse

LEMMA OptionalCases ==
  ASSUME NEW S, NEW a
  PROVE  /\ a \in Optional(S) => a = {} \/ \E x \in S : a = {x}
         /\ {} \in Optional(S)
         /\ \A x \in S : {x} \in Optional(S)
  BY DEF Optional

\* T is the type of a structure.
LEMMA RecurseAssociative ==
  ASSUME NEW T,
         \A u, v \in T : PatchFields(u, v) \in T,
         \A u, v, w \in T : PatchFields(PatchFields(u, v), w) = PatchFields(u, PatchFields(v, w)),
         NEW a \in Optional(T), NEW b \in Optional(T), NEW c \in Optional(T)
  PROVE  Recurse(Recurse(a, b), c) = Recurse(a, Recurse(b, c))
  <1>1. CASE a = {}
    BY <1>1, RecurseAbsent
  <1>2. CASE b = {}
    BY <1>2, RecurseAbsent
  <1>3. CASE c = {}
    BY <1>3, RecurseAbsent
  <1>4. CASE a # {} /\ b # {} /\ c # {}
    <2>1. /\ \E x \in T : a = {x}
          /\ \E y \in T : b = {y}
          /\ \E z \in T : c = {z}
      BY <1>4, OptionalCases
    <2> PICK x \in T, y \in T, z \in T : a = {x} /\ b = {y} /\ c = {z}
      BY <2>1
    <2>2. Recurse(a, b) = {PatchFields(x, y)} /\ Recurse(b, c) = {PatchFields(y, z)}
      BY RecursePresent
    <2>3. /\ Recurse(Recurse(a, b), c) = {PatchFields(PatchFields(x, y), z)}
          /\ Recurse(a, Recurse(b, c)) = {PatchFields(x, PatchFields(y, z))}
      <3>1. Recurse({PatchFields(x, y)}, {z}) = {PatchFields(PatchFields(x, y), z)}
        BY RecursePresent
      <3>2. Recurse({x}, {PatchFields(y, z)}) = {PatchFields(x, PatchFields(y, z))}
        BY RecursePresent
      <3> QED BY <2>2, <3>1, <3>2
    <2>4. PatchFields(PatchFields(x, y), z) = PatchFields(x, PatchFields(y, z))
      OBVIOUS
    <2> QED BY <2>3, <2>4
  <1> QED BY <1>1, <1>2, <1>3, <1>4

\* Patching with a patched patch is patching twice (recursive_patch keeps this
\* although mount and rootfs may be absent on either side).
THEOREM PatchAssociative ==
  ASSUME NEW V, NEW M, NEW R,
         NEW a \in Config(V, M, R), NEW b \in Config(V, M, R), NEW c \in Config(V, M, R)
  PROVE  Patch(Patch(a, b), c) = Patch(a, Patch(b, c))
  <1>1. PatchFields(PatchFields(a.plain, b.plain), c.plain) =
        PatchFields(a.plain, PatchFields(b.plain, c.plain))
    BY PatchFieldsAssociative DEF Config
  <1>2. Recurse(Recurse(a.mount, b.mount), c.mount) = Recurse(a.mount, Recurse(b.mount, c.mount))
    <2> DEFINE T == [MountFields -> Optional(M)]
    <2>1. \A u, v \in T : PatchFields(u, v) \in T
      BY OverrideType DEF PatchFields
    <2>2. \A u, v, w \in T :
            PatchFields(PatchFields(u, v), w) = PatchFields(u, PatchFields(v, w))
      BY OverrideAssociative DEF PatchFields
    <2>3. a.mount \in Optional(T) /\ b.mount \in Optional(T) /\ c.mount \in Optional(T)
      BY DEF Config
    <2> HIDE DEF T
    <2> QED BY <2>1, <2>2, <2>3, RecurseAssociative
  <1>3. Recurse(Recurse(a.rootfs, b.rootfs), c.rootfs) = Recurse(a.rootfs, Recurse(b.rootfs, c.rootfs))
    <2> DEFINE T == [RootfsFields -> Optional(R)]
    <2>1. \A u, v \in T : PatchFields(u, v) \in T
      BY OverrideType DEF PatchFields
    <2>2. \A u, v, w \in T :
            PatchFields(PatchFields(u, v), w) = PatchFields(u, PatchFields(v, w))
      BY OverrideAssociative DEF PatchFields
    <2>3. a.rootfs \in Optional(T) /\ b.rootfs \in Optional(T) /\ c.rootfs \in Optional(T)
      BY DEF Config
    <2> HIDE DEF T
    <2> QED BY <2>1, <2>2, <2>3, RecurseAssociative
  <1> QED BY <1>1, <1>2, <1>3 DEF Patch

\* A configuration that can be written stays so under patches that can be
\* written: output() throws ConfigError only for a value somebody asked for.
THEOREM PatchPrintable ==
  ASSUME NEW V, NEW M, NEW R, NEW a \in Config(V, M, R), NEW b \in Config(V, M, R),
         Printable(a), Printable(b)
  PROVE  Printable(Patch(a, b))
  <1>1. a.plain \in [Overridden -> Optional(V)]
    BY DEF Config
  <1>2. \A f \in Overridden : Patch(a, b).plain[f] \in {a.plain[f], b.plain[f]}
    BY <1>1 DEF Patch, PatchFields, Override
  <1>3. ASSUME NEW m \in Patch(a, b).mount, NEW names \in m["entries"], NEW i \in DOMAIN names
        PROVE  names[i] # "bad"
    <2>1. "entries" \in MountFields
      BY DEF MountFields
    <2>2. m \in a.mount \/ m \in b.mount \/ \E x \in a.mount, y \in b.mount : m = PatchFields(x, y)
      BY <1>3 DEF Patch, Recurse, Override
    <2>3. ASSUME NEW x \in a.mount, NEW y \in b.mount, m = PatchFields(x, y)
          PROVE  m["entries"] \in {x["entries"], y["entries"]}
      <3>1. x \in [MountFields -> Optional(M)]
        <4>1. a.mount \in Optional([MountFields -> Optional(M)])
          BY DEF Config
        <4> QED  BY <4>1 DEF Optional
      <3> QED  BY <2>1, <2>3, <3>1 DEF PatchFields, Override
    <2>4. \E z \in a.mount \cup b.mount : names \in z["entries"]
      BY <1>3, <2>2, <2>3
    <2> QED  BY <2>4 DEF Printable
  <1>4. \A m \in Patch(a, b).mount : \A names \in m["entries"] : \A i \in DOMAIN names : names[i] # "bad"
    BY <1>3
  <1> QED BY <1>2, <1>4 DEF Printable

-----------------------------------------------------------------------------
(* Preparing the root file system and creating the configured files. *)

\* A change below a that takes nothing away and shares no inode.
Grown(d, x, a) ==
  /\ Within(d, x, a)
  /\ \A q \in DOMAIN d : q \in DOMAIN x /\ x[q].ino = d[q].ino /\ x[q].kind = d[q].kind
  /\ \A q \in DOMAIN x \ DOMAIN d : x[q].ino = q

\* And that makes no symbolic link.
Built(d, x, a) == Grown(d, x, a) /\ NoNewLinks(d, x)

LEMMA GrownItself ==
  ASSUME NEW d, Sound(d), NEW a
  PROVE  Grown(d, d, a) /\ Built(d, d, a)
  BY WithinItself DEF Grown, Built, NoNewLinks

LEMMA GrownTrans ==
  ASSUME NEW d, NEW x, NEW y, NEW a \in Path, Sound(d), Grown(d, x, a), Grown(x, y, a)
  PROVE  Grown(d, y, a)
  <1>1. Within(d, y, a)
    BY WithinTrans DEF Grown
  <1> QED  BY <1>1 DEF Grown

LEMMA BuiltTrans ==
  ASSUME NEW d, NEW x, NEW y, NEW a \in Path, Sound(d), Built(d, x, a), Built(x, y, a)
  PROVE  Built(d, y, a)
  BY GrownTrans DEF Built, NoNewLinks

LEMMA OnlyGrown ==
  ASSUME NEW d, NEW x, NEW p \in Path, Sound(d), Only(d, x, p), NEW a \in Path, IsPrefix(a, p)
  PROVE  Grown(d, x, a)
  BY OnlyWithin, BelowItself DEF Only, Grown

LEMMA GrownWeaken ==
  ASSUME NEW d, NEW x, NEW a \in Path, NEW b \in Path, Sound(d), Grown(d, x, a), IsPrefix(b, a)
  PROVE  Grown(d, x, b)
  BY WithinWeaken, BelowItself DEF Grown

LEMMA BuiltWeaken ==
  ASSUME NEW d, NEW x, NEW a \in Path, NEW b \in Path, Sound(d), Built(d, x, a), IsPrefix(b, a)
  PROVE  Built(d, x, b)
  BY GrownWeaken DEF Built

\* What create_directories and ofstream do in a directory without links.
LEMMA DirsBuilt ==
  ASSUME NEW d, Sound(d), NEW p \in Path, NEW a \in Path, IsPrefix(a, p), NEW s \in Path, IsPrefix(s, p),
         NEW r, r = MakeDirs(d, s, Umasked)
  PROVE  /\ r.ok \in BOOLEAN /\ Built(d, r.disk, a)
         /\ r.ok => s \in DOMAIN r.disk /\ r.disk[s].kind = "dir"
  <1>1. Umasked \in Text
    BY TextsAssumption DEF Umasked
  <1>2. /\ r.ok \in BOOLEAN /\ Only(d, r.disk, p)
        /\ \A q \in DOMAIN r.disk \ DOMAIN d : r.disk[q] = Node("dir", "root", Umasked, <<>>, q)
        /\ r.ok => \A q \in Path : IsPrefix(q, s) => q \in DOMAIN r.disk /\ r.disk[q].kind = "dir"
    BY <1>1, MakeDirsDef
  <1>3. NoNewLinks(d, r.disk)
    BY <1>2, NodeFields DEF NoNewLinks, IsLink, Exists, Only
  <1>4. Grown(d, r.disk, a)
    BY <1>2, OnlyGrown
  <1> QED  BY <1>2, <1>3, <1>4, PrefixOrder DEF Built

LEMMA WriteBuilt ==
  ASSUME NEW d, Sound(d), NEW p \in Path, NEW a \in Path, IsPrefix(a, p), NEW data \in Path,
         NEW r, r = Write(d, p, data)
  PROVE  /\ r.ok \in BOOLEAN /\ Built(d, r.disk, a)
         /\ r.ok => p \in DOMAIN r.disk /\ r.disk[p].data = data
  <1>1. /\ r.ok \in BOOLEAN /\ Only(d, r.disk, p) /\ (~r.ok => r.disk = d)
        /\ r.ok => /\ p \in DOMAIN r.disk /\ r.disk[p].data = data /\ r.disk[p].kind \notin {"dir", "link"}
                   /\ \A q : q \in DOMAIN r.disk <=> q \in DOMAIN d \/ q = p
    BY WriteDef
  <1>2. NoNewLinks(d, r.disk)
    BY <1>1 DEF NoNewLinks, IsLink, Exists, Only
  <1>3. Grown(d, r.disk, a)
    BY <1>1, OnlyGrown
  <1> QED  BY <1>1, <1>2, <1>3 DEF Built

\* What an entry is mounted on is made below the root.
LEMMA PrepareEntryDef ==
  ASSUME NEW d, Sound(d), NEW name \in DOMAIN Mounts, NEW root \in Path,
         NEW r, r = PrepareEntry(d, name, root)
  PROVE  r.ok \in BOOLEAN /\ Built(d, r.disk, root)
  <1> DEFINE e == Mounts[name]
             dst == root \o e.dir
             m == MakeDirs(d, Front(dst), Umasked)
             none == <<>>
             w == Write(m.disk, dst, none)
  <1>1. dst \in Path /\ IsPrefix(root, dst) /\ none \in Path
    BY MountsAssumption, ConcatPath, SoundRoot
  <1>2. CASE e.bind /\ ~e.directory
    <2>1. r = IF m.ok THEN w ELSE m
      BY <1>2 DEF PrepareEntry, Then
    <2> HIDE DEF dst, none
    <2>2. Front(dst) \in Path /\ IsPrefix(Front(dst), dst)
      BY <1>1, FrontDef
    <2>3. m.ok \in BOOLEAN /\ Built(d, m.disk, root)
      BY <1>1, <2>2, DirsBuilt
    <2> HIDE DEF m
    <2>4. w.ok \in BOOLEAN /\ Built(m.disk, w.disk, root)
      <3>1. Sound(m.disk) /\ w = Write(m.disk, dst, none)
        BY <2>3 DEF Built, Grown, Within
      <3> HIDE DEF w
      <3> QED  BY <1>1, <3>1, WriteBuilt
    <2> HIDE DEF w
    <2> QED  BY <2>1, <2>3, <2>4, BuiltTrans
  <1>3. CASE ~(e.bind /\ ~e.directory)
    <2>1. r = MakeDirs(d, dst, Umasked)
      BY <1>3 DEF PrepareEntry
    <2> HIDE DEF dst
    <2> QED  BY <1>1, <2>1, DirsBuilt, PrefixOrder
  <1> QED  BY <1>2, <1>3

\* One step of prepare(), for FoldTheorems.
PrepareNext(root, r, name) == IF r.ok THEN PrepareEntry(r.disk, name, root) ELSE r
PrepareFolds == INSTANCE FoldTheorems WITH Op <- PrepareNext

\* All entries, by induction over them.
LEMMA PrepareEntriesDef ==
  ASSUME NEW d, Sound(d), NEW names, NEW n \in Nat, DOMAIN names = 1 .. n,
         \A i \in 1 .. n : names[i] \in DOMAIN Mounts, NEW root \in Path,
         NEW r, r = PrepareEntries(d, names, root)
  PROVE  r.ok \in BOOLEAN /\ Built(d, r.disk, root)
  <1> DEFINE base == Done(d)
  <1>1. base.ok = TRUE /\ base.disk = d
    BY DEF Done
  <1>2. r = PrepareFolds!Fold(root, base, names)
    BY DEF PrepareEntries, PrepareNext, Then, FoldLeft, MapThenFoldSet, PrepareFolds!Fold, PrepareFolds!FoldLeft,
           PrepareFolds!MapThenFoldSet, Max, PrepareFolds!Max
  <1> HIDE DEF base
  <1>3. PICK g : /\ g[0] = base
                 /\ \A i \in 1 .. n : g[i] = PrepareNext(root, g[i - 1], names[i])
                 /\ r = g[n]
    BY <1>2, PrepareFolds!FoldSteps
  <1> DEFINE S == {i \in 0 .. n : g[i].ok \in BOOLEAN /\ Built(d, g[i].disk, root)}
  <1>4. 0 \in S
    <2>1. 0 \in 0 .. n
      OBVIOUS
    <2>2. g[0].ok \in BOOLEAN /\ g[0].disk = d
      BY <1>1, <1>3
    <2>3. Built(d, g[0].disk, root)
      BY <2>2, GrownItself
    <2> QED  BY <2>1, <2>2, <2>3
  <1>5. ASSUME NEW i \in 1 .. n, i - 1 \in S  PROVE i \in S
    <2> DEFINE s == g[i - 1]
               t == g[i]
               e == PrepareEntry(s.disk, names[i], root)
    <2>1. s.ok \in BOOLEAN /\ Built(d, s.disk, root) /\ Sound(s.disk)
      BY <1>5 DEF Built, Grown, Within
    <2>2. t = IF s.ok THEN e ELSE s
      BY <1>3 DEF PrepareNext
    <2> HIDE DEF s, t
    <2>3. e.ok \in BOOLEAN /\ Built(s.disk, e.disk, root)
      BY <2>1, PrepareEntryDef
    <2> HIDE DEF e
    <2>4. t.ok \in BOOLEAN /\ Built(d, t.disk, root)
      BY <2>1, <2>2, <2>3, BuiltTrans
    <2> QED  BY <2>4 DEF t
  <1> HIDE DEF S
  <1>6. n \in S
    BY <1>4, <1>5, PrepareFolds!Climb
  <1> QED  BY <1>3, <1>6 DEF S

\* The files of the container called n.
LEMMA Places ==
  ASSUME NEW n \in Text, NEW m \in Text
  PROVE  /\ <<n, m>> \in Path /\ IsPrefix(<<n>>, <<n, m>>) /\ <<n, m>> # <<n>>
         /\ <<n>> \in Path /\ <<n>> # <<>>
         /\ <<n, m>> # <<>> /\ <<n, m>>[1] = n /\ <<n, m>>[2] = m
         /\ \A k \in Text : IsPrefix(<<n, m>>, <<n, k>>) => m = k
  <1> DEFINE w == <<n, m>>
  <1>1. w \in Path /\ <<n>> \in Path
    BY ShortSeq DEF Path
  <1>2. Len(w) = 2 /\ w[1] = n /\ w[2] = m
    OBVIOUS
  <1>3. w # <<>>
    BY <1>2, EmptySeq
  <1>4. ASSUME NEW k \in Text, IsPrefix(w, <<n, k>>)  PROVE m = k
    <2> DEFINE v == <<n, k>>
    <2>1. v \in Path /\ v[2] = k
      BY ShortSeq DEF Path
    <2> HIDE DEF w, v
    <2>2. w[2] = v[2]
      <3>1. 2 \in 1 .. Len(w)
        BY <1>2
      <3> QED  BY <1>1, <1>4, <2>1, <3>1, PrefixDef DEF v
    <2> QED  BY <1>2, <2>1, <2>2
  <1>5. <<n>> # <<>> /\ Len(<<n>>) = 1
    OBVIOUS
  <1>6. w # <<n>>
    BY <1>2, <1>5
  <1> HIDE DEF w
  <1>7. IsPrefix(<<n>>, w)
    BY <1>1, <1>2, <1>3, FirstName
  <1> QED  BY <1>1, <1>2, <1>3, <1>4, <1>5, <1>6, <1>7 DEF w

LEMMA FstabDef ==
  ASSUME NEW d, Sound(d), NEW fstab, NEW n \in Text, NEW r, r = PrepareFstab(d, fstab, n)
  PROVE  r.ok \in BOOLEAN /\ Built(d, r.disk, <<n>>)
  <1> DEFINE from == Followed(d, fstab)
             names == d[from].data
             root == <<n, "rootfs">>
             file == <<n, "fstab">>
             own == <<n>>
             p == PrepareEntries(d, names, root)
             w == Write(p.disk, file, names)
             bad == ~IsRegularFile(d, from) \/ ~(ToSet(names) \subseteq DOMAIN Mounts)
  <1>1. /\ root \in Path /\ file \in Path /\ own \in Path
        /\ IsPrefix(own, root) /\ IsPrefix(own, file)
    BY Places, TextsAssumption
  <1>2. CASE bad
    <2>1. r = Failed(d)
      BY <1>2 DEF PrepareFstab
    <2>2. r.ok = FALSE /\ r.disk = d
      BY <2>1 DEF Failed
    <2> QED  BY <2>2, GrownItself
  <1>3. CASE ~bad
    <2>1. r = IF p.ok THEN w ELSE p
      BY <1>3 DEF PrepareFstab, Then
    <2>2. names \in Path /\ ToSet(names) \subseteq DOMAIN Mounts
      <3>1. from \in DOMAIN d
        BY <1>3 DEF IsRegularFile, Exists
      <3> HIDE DEF from
      <3> QED  BY <1>3, <3>1, SoundNode DEF Nodes
    <2>3. DOMAIN names = 1 .. Len(names) /\ Len(names) \in Nat
      BY <2>2, PathLen
    <2>4. \A i \in 1 .. Len(names) : names[i] \in DOMAIN Mounts
      BY <2>2, <2>3 DEF ToSet
    <2> HIDE DEF bad, names, from, root, file, own
    <2>5. p.ok \in BOOLEAN /\ Built(d, p.disk, root)
      BY <1>1, <2>3, <2>4, PrepareEntriesDef
    <2> HIDE DEF p
    <2>6. Built(d, p.disk, own) /\ Sound(p.disk)
      BY <1>1, <2>5, BuiltWeaken DEF Built, Grown, Within
    <2>7. w.ok \in BOOLEAN /\ Built(p.disk, w.disk, own)
      BY <1>1, <2>2, <2>6, WriteBuilt
    <2> HIDE DEF w
    <2>9. Built(d, w.disk, own)
      BY <1>1, <2>6, <2>7, BuiltTrans
    <2> QED  BY <2>1, <2>5, <2>6, <2>7, <2>9 DEF own
  <1> QED  BY <1>2, <1>3

LEMMA MountEntries ==
  ASSUME NEW config, LxcOK(config), NEW names \in MountNames(config, "entries")
  PROVE  names \in Seq(DOMAIN Mounts)
  <1>1. PICK m \in config.mount : names \in m["entries"]
    BY DEF MountNames
  <1> QED  BY <1>1 DEF LxcOK, EntryNames

LEMMA PrepareDef ==
  ASSUME NEW d, Sound(d), NEW config, LxcOK(config), NEW n \in Text, NEW r, r = Prepare(d, config, n)
  PROVE  r.ok \in BOOLEAN /\ Built(d, r.disk, <<n>>)
  <1> DEFINE fstabs == MountNames(config, "fstab")
             entries == MountNames(config, "entries")
             names == CHOOSE p \in entries : TRUE
             f == PrepareFstab(d, CHOOSE p \in fstabs : TRUE, n)
             m == IF fstabs = {} THEN Done(d) ELSE f
             root == <<n, "rootfs">>
             own == <<n>>
             e == PrepareEntries(m.disk, names, root)
  <1>1. r = IF entries = {} THEN m ELSE IF m.ok THEN e ELSE m
    BY DEF Prepare, Then, Done
  <1>2. root \in Path /\ own \in Path /\ IsPrefix(own, root)
    BY Places, TextsAssumption
  <1>3. f.ok \in BOOLEAN /\ Built(d, f.disk, own)
    BY FstabDef
  <1> HIDE DEF f
  <1>4. m.ok \in BOOLEAN /\ Built(d, m.disk, own)
    <2>1. Done(d).ok = TRUE /\ Done(d).disk = d
      BY DEF Done
    <2> QED  BY <1>3, <2>1, GrownItself
  <1> HIDE DEF m
  <1>5. Sound(m.disk)
    BY <1>4 DEF Built, Grown, Within
  <1>6. CASE entries # {}
    <2>1. names \in Seq(DOMAIN Mounts)
      BY <1>6, MountEntries
    <2>2. Len(names) \in Nat /\ DOMAIN names = 1 .. Len(names)
          /\ \A i \in 1 .. Len(names) : names[i] \in DOMAIN Mounts
      <3> HIDE DEF names
      <3> QED  BY <2>1, ElementOfSeq, LenProperties
    <2> HIDE DEF names, root, own
    <2>3. e.ok \in BOOLEAN /\ Built(m.disk, e.disk, root)
      BY <1>2, <1>5, <2>2, PrepareEntriesDef
    <2> HIDE DEF e
    <2>4. Built(d, e.disk, own)
      BY <1>2, <1>4, <1>5, <2>3, BuiltWeaken, BuiltTrans
    <2> QED  BY <1>1, <1>4, <1>6, <2>3, <2>4 DEF own
  <1>7. CASE entries = {}
    BY <1>1, <1>4, <1>7
  <1> QED  BY <1>6, <1>7

\* The root file system of a container is the one that is made for it.
LEMMA OwnRootfsDef ==
  ASSUME NEW config, LxcOK(config), NEW n
  PROVE  LET own == OwnRootfs(config, n)
         IN  LxcOK(own) /\ own.rootfs # {} /\ Fsname(own) = <<n, "rootfs">>
  <1> DEFINE field == [f \in RootfsFields |-> IF f = "fsname" THEN {<<n, "rootfs">>}
                                                              ELSE {<<n, "rootfs.mount">>}]
             own == OwnRootfs(config, n)
  <1>1. own.mount = config.mount /\ own.rootfs = {field}
    BY DEF OwnRootfs
  <1>2. field["fsname"] = {<<n, "rootfs">>}
    BY DEF RootfsFields
  <1> HIDE DEF own, field
  <1>3. UNION {r["fsname"] : r \in own.rootfs} = {<<n, "rootfs">>}
    <2> DEFINE v == <<n, "rootfs">>
    <2>1. {r["fsname"] : r \in {field}} = {{v}}
      BY <1>2
    <2> HIDE DEF v
    <2>2. UNION {{v}} = {v}
      OBVIOUS
    <2> QED  BY <1>1, <2>1, <2>2 DEF v
  <1>4. Fsname(own) = <<n, "rootfs">>
    <2> DEFINE v == <<n, "rootfs">>
    <2>1. Fsname(own) = CHOOSE q \in {v} : TRUE
      BY <1>3 DEF Fsname
    <2> HIDE DEF v
    <2> QED  BY <2>1 DEF v
  <1>5. LxcOK(own)
    BY <1>1 DEF LxcOK
  <1> QED  BY <1>1, <1>4, <1>5 DEF own

LEMMA LxcDef ==
  ASSUME NEW d, Sound(d), NEW config, LxcOK(config), NEW n \in Text, NEW r, r = Lxc(d, config, n)
  PROVE  /\ r.ok \in BOOLEAN /\ Built(d, r.disk, <<n>>)
         /\ r.ok => /\ <<n, "config">> \in DOMAIN r.disk
                    /\ r.disk[<<n, "config">>].data = <<n, "rootfs">>
                    /\ <<n, "rootfs">> \in DOMAIN r.disk /\ r.disk[<<n, "rootfs">>].kind = "dir"
  <1> DEFINE own == <<n>>
             root == <<n, "rootfs">>
             mount == <<n, "rootfs.mount">>
             file == <<n, "config">>
             at == OwnRootfs(config, n)
             a == Prepare(d, at, n)
             b0 == MakeDirs(a.disk, root, Umasked)
             b == IF a.ok THEN b0 ELSE a
             c0 == MakeDirs(b.disk, mount, Umasked)
             c == IF b.ok THEN c0 ELSE b
             w0 == Write(c.disk, file, Fsname(at))
             w == IF Printable(at) THEN w0 ELSE Failed(c.disk)
  <1>1. r = IF c.ok THEN w ELSE c
    BY DEF Lxc, Then
  <1>2. /\ own \in Path /\ root \in Path /\ mount \in Path /\ file \in Path
        /\ IsPrefix(own, root) /\ IsPrefix(own, mount) /\ IsPrefix(own, file)
    BY Places, TextsAssumption
  <1>3. LxcOK(at) /\ Fsname(at) = root
    BY OwnRootfsDef
  <1> HIDE DEF root, mount, file, at
  <1>4. a.ok \in BOOLEAN /\ Built(d, a.disk, own)
    BY <1>3, PrepareDef
  <1> HIDE DEF a, own
  <1>5. Sound(a.disk)
    BY <1>4 DEF Built, Grown, Within
  <1>6. /\ b0.ok \in BOOLEAN /\ Built(a.disk, b0.disk, own)
        /\ b0.ok => root \in DOMAIN b0.disk /\ b0.disk[root].kind = "dir"
    BY <1>2, <1>5, DirsBuilt, PrefixOrder
  <1> HIDE DEF b0
  <1>7. /\ b.ok \in BOOLEAN /\ Built(d, b.disk, own)
        /\ b.ok => root \in DOMAIN b.disk /\ b.disk[root].kind = "dir"
    BY <1>2, <1>4, <1>5, <1>6, BuiltTrans
  <1> HIDE DEF b
  <1>8. Sound(b.disk)
    BY <1>7 DEF Built, Grown, Within
  <1>9. c0.ok \in BOOLEAN /\ Built(b.disk, c0.disk, own)
    BY <1>2, <1>8, DirsBuilt, PrefixOrder
  <1> HIDE DEF c0
  <1>10. /\ c.ok \in BOOLEAN /\ Built(d, c.disk, own)
         /\ c.ok => root \in DOMAIN c.disk /\ c.disk[root].kind = "dir"
    BY <1>2, <1>7, <1>8, <1>9, BuiltTrans DEF Built, Grown
  <1> HIDE DEF c
  <1>11. Sound(c.disk)
    BY <1>10 DEF Built, Grown, Within
  <1>12. /\ w0.ok \in BOOLEAN /\ Built(c.disk, w0.disk, own)
         /\ w0.ok => file \in DOMAIN w0.disk /\ w0.disk[file].data = root
    BY <1>2, <1>3, <1>11, WriteBuilt
  <1> HIDE DEF w0
  <1>13. /\ w.ok \in BOOLEAN /\ Built(c.disk, w.disk, own)
         /\ w.ok => file \in DOMAIN w.disk /\ w.disk[file].data = root
    <2>1. Failed(c.disk).ok = FALSE /\ Failed(c.disk).disk = c.disk
      BY DEF Failed
    <2> QED  BY <1>11, <1>12, <2>1, GrownItself
  <1> HIDE DEF w
  <1>14. Built(d, w.disk, own)
    BY <1>2, <1>10, <1>11, <1>13, BuiltTrans
  <1>15. r.ok => /\ file \in DOMAIN r.disk /\ r.disk[file].data = root
                 /\ root \in DOMAIN r.disk /\ r.disk[root].kind = "dir"
    BY <1>1, <1>10, <1>13 DEF Built, Grown
  <1>16. r.ok \in BOOLEAN /\ Built(d, r.disk, own)
    BY <1>1, <1>10, <1>13, <1>14
  <1> QED  BY <1>15, <1>16 DEF own, root, file

\* Every file below the directory of a container is the only name of its inode,
\* which is what keeps one entry from changing another.
Own(d, a) == \A q \in DOMAIN d : IsPrefix(a, q) => d[q].ino = q

LEMMA GrownOwn ==
  ASSUME NEW d, NEW x, NEW a, Own(d, a), Grown(d, x, a)
  PROVE  Own(x, a)
  BY DEF Own, Grown

\* What is below a root is not where a symbolic link may lead.
LEMMA ClearInRoot ==
  ASSUME NEW root, IsRoot(root), NEW q \in Path, IsPrefix(root, q)
  PROVE  Clear(q) /\ ~IsHostPath(q)
  BY InRoot, HostBelow

\* A file of the host that no link leads to does not see what happens in a root.
LEMMA DirectKeeps ==
  ASSUME NEW d, Sound(d), NEW root, IsRoot(root), NEW x, Within(d, x, root),
         NEW f, IsHostPath(f), Direct(d, f)
  PROVE  /\ Direct(x, f) /\ Straight(d, f) /\ Straight(x, f)
         /\ f \in DOMAIN d => f \in DOMAIN x /\ x[f].kind = d[f].kind /\ x[f].data = d[f].data
         /\ f \in DOMAIN x \ DOMAIN d => x[f].kind = "dir"
  <1>1. f \in Path /\ f # <<>> /\ Clear(f) /\ Straight(d, f) /\ root \in Path
    BY DEF IsHostPath, Direct, IsRoot
  <1>2. ASSUME NEW q \in Path, IsPrefix(q, f)  PROVE ~Below(root, q)
    <2>1. ~IsPrefix(root, q)
      BY <1>1, <1>2, InRoot
    <2>2. \A v \in Leads : ~IsPrefix(v, q)
      BY <1>1, <1>2, LeadsAre, PrefixOrder DEF Clear
    <2> QED  BY <2>1, <2>2 DEF Below
  <1>3. ASSUME NEW q \in Path, IsPrefix(q, f)
        PROVE  /\ q \in DOMAIN d => q \in DOMAIN x /\ x[q].kind = d[q].kind /\ x[q].data = d[q].data
               /\ q \in DOMAIN x \ DOMAIN d => x[q].kind = "dir"
    BY <1>2, <1>3 DEF Within
  <1>4. Straight(x, f)
    <2>1. ASSUME NEW q \in Prefixes(f)  PROVE ~IsLink(x, q)
      <3>1. q \in Path /\ IsPrefix(q, f)
        BY <1>1, PrefixesDef
      <3>2. ~IsLink(d, q)
        BY <1>1 DEF Straight
      <3> QED  BY <3>1, <3>2, <1>3 DEF IsLink, Exists
    <2> QED  BY <2>1 DEF Straight
  <1>5. IsPrefix(f, f)
    BY <1>1, PrefixOrder
  <1> QED  BY <1>1, <1>3, <1>4, <1>5 DEF Direct

LEMMA GrownSource ==
  ASSUME NEW d, Sound(d), NEW root, IsRoot(root), NEW x, Grown(d, x, root), NEW e, FileOK(e),
         e.kind = "file", Direct(d, e.data)
  PROVE  /\ Straight(x, e.data)
         /\ ~BadSource(x, e) => Source(x, e) = Source(d, e)
  <1>0. Within(d, x, root) /\ Sound(x)
    BY DEF Grown, Within
  <1>1. CASE e.data = <<>>
    <2>1. ASSUME NEW q \in Prefixes(e.data)  PROVE ~IsLink(x, q)
      <3>1. q = <<>>
        <4>1. <<>> \in Path
          BY SoundRoot
        <4>2. q \in Path /\ IsPrefix(q, <<>>) /\ IsPrefix(<<>>, q)
          BY <4>1, <1>1, PrefixesDef, FirstName, TextsAssumption
        <4> QED  BY <4>1, <4>2, PrefixOrder
      <3> QED  BY <3>1, <1>0, SoundRoot DEF IsLink
    <2> QED  BY <1>1, <2>1 DEF Source, Straight
  <1>2. CASE e.data # <<>>
    <2>1. IsHostPath(e.data) /\ e.data \in Path
      BY <1>2 DEF FileOK, IsHostPath
    <2>2. /\ Straight(d, e.data) /\ Straight(x, e.data)
          /\ e.data \in DOMAIN d => e.data \in DOMAIN x /\ x[e.data].data = d[e.data].data
          /\ e.data \in DOMAIN x \ DOMAIN d => x[e.data].kind = "dir"
      BY <1>0, <2>1, DirectKeeps
    <2>3. Followed(d, e.data) = e.data /\ Followed(x, e.data) = e.data
      BY <1>0, <2>1, <2>2, FollowedDef
    <2>4. ~BadSource(x, e) => Source(x, e) = Source(d, e)
      BY <1>2, <2>2, <2>3 DEF BadSource, IsRegularFile, Exists, Source
    <2> QED  BY <2>2, <2>4
  <1> QED  BY <1>1, <1>2

\* One step of creating the files, for FoldTheorems.
CreateNext(root, r, e) == IF r.ok THEN CreateFile(r.disk, e, root) ELSE r

\* And of what is promised by it; the context is the disk and the entries.
PromiseNext(ctx, f, e) ==
  LET path == KeepInRoot(e.path, <<>>)
  IN  IF Promises(ctx[1], ctx[2], e) THEN Put(f, path, Asked(ctx[1], e))
                                     ELSE [q \in DOMAIN f \ {path} |-> f[q]]
CreateFolds == INSTANCE FoldTheorems WITH Op <- CreateNext
PromiseFolds == INSTANCE FoldTheorems WITH Op <- PromiseNext

\* What is promised is there.
Fulfilled(x, root, f) ==
  \A k \in DOMAIN f :
    /\ Resolved(k)
    /\ root \o k \in DOMAIN x /\ x[root \o k].ino = root \o k
    /\ f[k] = StatusAt(x, root \o k)

\* The symbolic links below a root are those of the entries.
LinksAsked(x, root, entries) ==
  \A q \in DOMAIN x : IsPrefix(root, q) /\ IsLink(x, q) =>
    \E e \in ToSet(entries) : e.kind = "link" /\ q = KeepInRoot(e.path, root)

\* A root that has been prepared and not been filled with anything else.
RootOf(x, root, entries) ==
  root \in DOMAIN x /\ x[root].kind = "dir" /\ LinksAsked(x, root, entries)

\* A path, seen from the root and from outside.
LEMMA InsideIs ==
  ASSUME NEW path \in Path, NEW root \in Path
  PROVE  /\ KeepInRoot(path, <<>>) = Inside(path) /\ KeepInRoot(path, root) = root \o Inside(path)
         /\ Inside(path) \in Path /\ Resolved(Inside(path))
         /\ KeepInRoot(path, root) \in Path /\ IsPrefix(root, KeepInRoot(path, root))
  <1> DEFINE none == <<>>
             k == Inside(path)
  <1>1. none \in Path
    BY FirstName, TextsAssumption
  <1>2. KeepInRoot(path, none) = none \o k /\ k \in Path /\ Resolved(k)
    BY <1>1, KeptPaths DEF Resolved
  <1>3. KeepInRoot(path, root) = root \o k /\ KeepInRoot(path, root) \in Path
        /\ IsPrefix(root, KeepInRoot(path, root))
    BY KeptPaths
  <1> HIDE DEF k
  <1>4. none \o k = k
    BY <1>2, ConcatPath
  <1> QED  BY <1>2, <1>3, <1>4 DEF none, k

\* An entry that meets no link of another one meets its own, if any.
LEMMA MeetsNone ==
  ASSUME NEW x, Sound(x), NEW root, IsRoot(root), NEW entries, RootOf(x, root, entries),
         \A o \in ToSet(entries) : o.path \in Path,
         NEW e, e.path \in Path, \A o \in ToSet(entries) : ~Meets(e, o),
         NEW q \in Path, IsLink(x, q), IsPrefix(q, KeepInRoot(e.path, root))
  PROVE  q = KeepInRoot(e.path, root) /\ e.kind = "link"
  <1> DEFINE p == KeepInRoot(e.path, root)
             k == Inside(e.path)
  <1>1. root \in Path /\ p = root \o k /\ k \in Path /\ p \in Path /\ IsPrefix(root, p)
        /\ KeepInRoot(e.path, <<>>) = k
    BY InsideIs DEF IsRoot
  <1> HIDE DEF p, k
  <1>2. IsPrefix(root, q)
    <2>1. IsPrefix(q, p)
      BY DEF p
    <2>2. IsPrefix(root, q) \/ IsPrefix(q, root)
      BY <1>1, <2>1, PrefixOrder
    <2>3. ~(IsPrefix(q, root) /\ q # root)
      BY SoundNode DEF RootOf, IsLink
    <2>4. q # root
      BY DEF RootOf, IsLink
    <2> QED  BY <2>2, <2>3, <2>4
  <1>3. PICK o \in ToSet(entries) : o.kind = "link" /\ q = KeepInRoot(o.path, root)
    BY <1>2 DEF RootOf, LinksAsked, IsLink, Exists
  <1> DEFINE j == Inside(o.path)
  <1>4. o.path \in Path
    OBVIOUS
  <1>5. j \in Path /\ q = root \o j /\ KeepInRoot(o.path, <<>>) = j
    BY <1>1, <1>3, <1>4, InsideIs
  <1> HIDE DEF j
  <1>6. IsPrefix(j, k)
    <2>1. IsPrefix(root \o j, root \o k)
      BY <1>1, <1>5 DEF p
    <2> QED  BY <1>1, <1>5, <2>1, PrefixOfConcat
  <1>7. o = e
    BY <1>1, <1>3, <1>5, <1>6 DEF Meets
  <1> QED  BY <1>3, <1>7

LEMMA LinksKept ==
  ASSUME NEW x, Sound(x), NEW root, IsRoot(root), NEW entries, RootOf(x, root, entries),
         NEW e \in ToSet(entries), e.path \in Path,
         NEW y, Only(x, y, KeepInRoot(e.path, root)), LinkAsked(x, y, e)
  PROVE  RootOf(y, root, entries)
  <1>1. root \in DOMAIN y /\ y[root].kind = "dir"
    BY DEF RootOf, Only
  <1>2. ASSUME NEW q \in DOMAIN y, IsPrefix(root, q), IsLink(y, q)
        PROVE  \E o \in ToSet(entries) : o.kind = "link" /\ q = KeepInRoot(o.path, root)
    <2>1. CASE q \in DOMAIN x
      BY <1>2, <2>1 DEF RootOf, LinksAsked, Only, IsLink, Exists
    <2>2. CASE q \notin DOMAIN x
      <3>1. q \in Path /\ Clear(q)
        <4>1. Sound(y)
          BY DEF Only
        <4> QED  BY <1>2, <4>1, SoundNode, ClearInRoot
      <3>2. q = KeepInRoot(e.path, root)
        BY <1>2, <2>2, <3>1 DEF Only, IsLink
      <3>3. e.kind = "link"
        BY <1>2, <2>2 DEF LinkAsked, IsLink
      <3> QED  BY <3>2, <3>3
    <2> QED  BY <2>1, <2>2
  <1> QED  BY <1>1, <1>2 DEF RootOf, LinksAsked

LEMMA CreateFileFulfils ==
  ASSUME NEW d, Sound(d), NEW root, IsRoot(root), NEW x, Sound(x), Grown(d, x, root), Own(x, root),
         NEW entries, RootOf(x, root, entries), \A o \in ToSet(entries) : o.path \in Path,
         NEW f, Fulfilled(x, root, f), NEW e \in ToSet(entries), FileOK(e),
         NEW r, r = CreateFile(x, e, root), NEW ctx, ctx[1] = d, ctx[2] = entries
  PROVE  /\ r.ok \in BOOLEAN /\ Grown(x, r.disk, root) /\ RootOf(r.disk, root, entries)
         /\ r.ok => Fulfilled(r.disk, root, PromiseNext(ctx, f, e))
  <1> DEFINE k == Inside(e.path)
             p == root \o k
             next == PromiseNext(ctx, f, e)
             kept == Promises(d, entries, e)
  <1>1. root \in Path /\ e.path \in Path
    BY DEF IsRoot, FileOK, Entry
  <1>2. k \in Path /\ Resolved(k) /\ p \in Path /\ IsPrefix(root, p)
        /\ p = KeepInRoot(e.path, root) /\ KeepInRoot(e.path, <<>>) = k
    BY <1>1, InsideIs
  <1>3. next = IF kept THEN Put(f, k, Asked(d, e)) ELSE [q \in DOMAIN f \ {k} |-> f[q]]
    BY <1>2 DEF PromiseNext
  <1> HIDE DEF next
  <1>4. r = FileCreate(x, e, p)
    BY <1>2 DEF CreateFile
  <1> HIDE DEF p, k
  <1>5. /\ r.ok \in BOOLEAN /\ Only(x, r.disk, p) /\ LinkAsked(x, r.disk, e)
        /\ r.ok /\ Plain(x, e, p) /\ (e.kind = "file" => Straight(x, e.data)) =>
             p \in DOMAIN r.disk /\ StatusAt(r.disk, p) = Asked(x, e)
        /\ r.ok /\ e.kind = "file" /\ Straight(x, e.data) => ~BadSource(x, e)
    BY <1>2, <1>4, FileCreateDef
  <1>6. Grown(x, r.disk, root)
    BY <1>1, <1>2, <1>5, OnlyGrown
  <1>7. RootOf(r.disk, root, entries)
    BY <1>1, <1>2, <1>5, LinksKept
  <1>8. ASSUME r.ok, kept
        PROVE  /\ p \in DOMAIN r.disk /\ StatusAt(r.disk, p) = Asked(d, e)
               /\ r.disk[p].ino = p
    <2>1. \A o \in ToSet(entries) : ~Meets(e, o)
      BY <1>8 DEF Promises
    <2>2. ASSUME NEW q \in Path, IsLink(x, q), IsPrefix(q, p)  PROVE q = p /\ e.kind = "link"
      BY <1>1, <1>2, <2>1, <2>2, MeetsNone
    <2>3. Plain(x, e, p)
      <3>1. Front(p) \in Path /\ IsPrefix(Front(p), p) /\ (p # <<>> => Front(p) # p) /\ IsPrefix(p, p)
        BY <1>2, FrontDef, PrefixOrder
      <3>2. p # <<>>
        BY <1>2, InRoot
      <3>3. ASSUME NEW q \in Prefixes(Front(p)), IsLink(x, q)  PROVE FALSE
        <4>1. q \in Path /\ IsPrefix(q, Front(p))
          BY <3>1, PrefixesDef
        <4>2. q = p
          BY <1>2, <3>1, <3>3, <4>1, <2>2, PrefixOrder
        <4> QED  BY <1>2, <3>1, <3>2, <4>1, <4>2, PrefixOrder
      <3>4. e.kind # "link" => ~IsLink(x, p)
        BY <1>2, <2>2, <3>1
      <3> QED  BY <3>3, <3>4 DEF Plain, Straight
    <2>4. e.kind = "file" => Straight(x, e.data) /\ (~BadSource(x, e) => Source(x, e) = Source(d, e))
      BY <1>8, GrownSource DEF Promises
    <2>5. Asked(x, e) = Asked(d, e)
      BY <1>5, <1>8, <2>4 DEF Asked
    <2>6. p \in DOMAIN r.disk /\ StatusAt(r.disk, p) = Asked(d, e)
      BY <1>5, <1>8, <2>3, <2>4, <2>5
    <2>7. r.disk[p].ino = p
      BY <1>2, <1>6, <2>6, GrownOwn DEF Own
    <2> QED  BY <2>6, <2>7
  <1>9. ASSUME r.ok  PROVE Fulfilled(r.disk, root, next)
    <2>1. DOMAIN next = IF kept THEN DOMAIN f \cup {k} ELSE DOMAIN f \ {k}
      BY <1>3 DEF Put
    <2>2. \A j \in DOMAIN next : j # k => j \in DOMAIN f /\ next[j] = f[j]
      BY <1>3 DEF Put
    <2>3. k \in DOMAIN next => kept /\ next[k] = Asked(d, e)
      BY <1>3 DEF Put
    <2>4. ASSUME NEW j \in DOMAIN next
          PROVE  /\ Resolved(j)
                 /\ root \o j \in DOMAIN r.disk /\ r.disk[root \o j].ino = root \o j
                 /\ next[j] = StatusAt(r.disk, root \o j)
      <3>1. CASE j = k
        BY <3>1, <1>2, <1>8, <1>9, <2>3 DEF p
      <3>2. CASE j # k
        <4> DEFINE q == root \o j
        <4>1. j \in DOMAIN f /\ next[j] = f[j]
          BY <3>2, <2>2
        <4>2. Resolved(j) /\ j \in Path /\ q \in DOMAIN x /\ x[q].ino = q /\ f[j] = StatusAt(x, q)
          BY <4>1 DEF Fulfilled, Resolved
        <4>3. q # p
          BY <1>1, <1>2, <3>2, <4>2, PrefixOfConcat DEF p
        <4>4. ~IsHostPath(q)
          BY <1>1, <4>2, ConcatPath, InRoot
        <4> HIDE DEF q
        <4>5. q \in DOMAIN r.disk /\ r.disk[q] = x[q]
          BY <1>5, <4>2, <4>3, <4>4 DEF Only
        <4>6. next[j] = StatusAt(r.disk, q)
          BY <4>1, <4>2, <4>5 DEF StatusAt
        <4> QED  BY <4>2, <4>5, <4>6 DEF q
      <3> QED  BY <3>1, <3>2
    <2> QED  BY <2>4 DEF Fulfilled
  <1> QED  BY <1>5, <1>6, <1>7, <1>9 DEF next

LEMMA CreateFold ==
  ASSUME NEW d, NEW files, NEW root
  PROVE  CreateFiles(d, files, root) = CreateFolds!Fold(root, Done(d), files)
  BY DEF CreateFiles, CreateNext, Then, FoldLeft, MapThenFoldSet, CreateFolds!Fold, CreateFolds!FoldLeft,
         CreateFolds!MapThenFoldSet, Max, CreateFolds!Max

LEMMA PromiseFold ==
  ASSUME NEW d, NEW files
  PROVE  Promised(d, files) = PromiseFolds!Fold(<<d, files>>, <<>>, files)
  BY DEF Promised, PromiseNext, FoldLeft, MapThenFoldSet, PromiseFolds!Fold, PromiseFolds!FoldLeft,
         PromiseFolds!MapThenFoldSet, Max, PromiseFolds!Max

LEMMA FilesAre ==
  ASSUME NEW files, FilesOK(files)
  PROVE  /\ Len(files) \in Nat /\ DOMAIN files = 1 .. Len(files)
         /\ \A i \in 1 .. Len(files) : FileOK(files[i])
  <1>1. files \in Seq(Entry)
    BY DEF FilesOK
  <1>2. Len(files) \in Nat /\ DOMAIN files = 1 .. Len(files)
        /\ \A i \in 1 .. Len(files) : files[i] \in Entry
    BY <1>1, ElementOfSeq, LenProperties
  <1> QED  BY <1>2 DEF FilesOK, FileOK

\* The two folds over the files, as their steps.
LEMMA CreateSteps ==
  ASSUME NEW root, NEW start, NEW n \in Nat, NEW files, DOMAIN files = 1 .. n
  PROVE  \E h : /\ h[0] = start
                /\ \A i \in 1 .. n : h[i] = CreateNext(root, h[i - 1], files[i])
                /\ CreateFolds!Fold(root, start, files) = h[n]
  BY CreateFolds!FoldSteps

LEMMA PromiseSteps ==
  ASSUME NEW ctx, NEW start, NEW n \in Nat, NEW files, DOMAIN files = 1 .. n
  PROVE  \E g : /\ g[0] = start
                /\ \A i \in 1 .. n : g[i] = PromiseNext(ctx, g[i - 1], files[i])
                /\ PromiseFolds!Fold(ctx, start, files) = g[n]
  BY PromiseFolds!FoldSteps

\* Nothing in the tree at a is a symbolic link.
Linkless(d, a) == \A q \in DOMAIN d : IsPrefix(a, q) => ~IsLink(d, q)

\* Container's constructor creates the configured files in a root without links, for
\* every list of entries: changes stay in the root and below what the links among
\* the entries lead to, and if it does not throw, what was promised is found: the
\* last entry for each path, unless it meets the link of another one.
THEOREM CreateFilesFulfils ==
  ASSUME NEW d, Sound(d), NEW root, IsRoot(root), Own(d, root), Linkless(d, root),
         root \in DOMAIN d, d[root].kind = "dir", NEW files, FilesOK(files),
         NEW r, r = CreateFiles(d, files, root), NEW f, f = Promised(d, files)
  PROVE  /\ r.ok \in BOOLEAN /\ Grown(d, r.disk, root)
         /\ r.ok => Fulfilled(r.disk, root, f)
  <1> DEFINE n == Len(files)
             start == Done(d)
             none == <<>>
             ctx == <<d, files>>
  <1>1. n \in Nat /\ DOMAIN files = 1 .. n /\ \A i \in 1 .. n : FileOK(files[i])
    BY FilesAre
  <1>0. /\ \A i \in 1 .. n : files[i] \in ToSet(files)
        /\ \A o \in ToSet(files) : o.path \in Path
    BY <1>1 DEF ToSet, FileOK, Entry
  <1>7. start.ok = TRUE /\ start.disk = d /\ DOMAIN none = {} /\ ctx[1] = d /\ ctx[2] = files
    BY DEF Done
  <1>8. r = CreateFolds!Fold(root, start, files) /\ f = PromiseFolds!Fold(ctx, none, files)
    BY CreateFold, PromiseFold
  <1> HIDE DEF n, start, none, ctx
  <1>2. PICK h : /\ h[0] = start
                 /\ \A i \in 1 .. n : h[i] = CreateNext(root, h[i - 1], files[i])
                 /\ r = h[n]
    BY <1>1, <1>8, CreateSteps
  <1>3. PICK g : /\ g[0] = none
                 /\ \A i \in 1 .. n : g[i] = PromiseNext(ctx, g[i - 1], files[i])
                 /\ f = g[n]
    BY <1>1, <1>8, PromiseSteps
  <1> DEFINE S == {i \in 0 .. n : /\ h[i].ok \in BOOLEAN /\ Grown(d, h[i].disk, root)
                                  /\ RootOf(h[i].disk, root, files)
                                  /\ h[i].ok => Fulfilled(h[i].disk, root, g[i])}
  <1>4. 0 \in S
    <2>1. 0 \in 0 .. n
      BY <1>1
    <2>5. h[0].ok = TRUE /\ h[0].disk = d
      BY <1>2, <1>7
    <2>2. Grown(d, h[0].disk, root)
      BY <2>5, GrownItself
    <2>3. DOMAIN g[0] = {}
      BY <1>3, <1>7
    <2>4. Fulfilled(h[0].disk, root, g[0])
      BY <2>3 DEF Fulfilled
    <2>6. RootOf(h[0].disk, root, files)
      BY <2>5 DEF RootOf, LinksAsked, Linkless
    <2> QED  BY <2>1, <2>2, <2>4, <2>5, <2>6
  <1>5. ASSUME NEW i \in 1 .. n, i - 1 \in S  PROVE i \in S
    <2> DEFINE s == h[i - 1]
               t == h[i]
               entry == files[i]
               e == CreateFile(s.disk, entry, root)
               u == g[i - 1]
               v == g[i]
    <2>1. /\ s.ok \in BOOLEAN /\ Grown(d, s.disk, root) /\ Sound(s.disk) /\ Own(s.disk, root)
          /\ RootOf(s.disk, root, files)
          /\ s.ok => Fulfilled(s.disk, root, u)
      BY <1>5, GrownOwn DEF Grown, Within
    <2>2. t = IF s.ok THEN e ELSE s
      BY <1>2 DEF CreateNext
    <2>3. v = PromiseNext(ctx, u, entry)
      BY <1>3
    <2>4. FileOK(entry) /\ entry \in ToSet(files) /\ i \in 0 .. n
      BY <1>0, <1>1
    <2> HIDE DEF s, t, u, v, entry
    <2>5. s.ok => /\ e.ok \in BOOLEAN /\ Grown(s.disk, e.disk, root) /\ RootOf(e.disk, root, files)
                  /\ e.ok => Fulfilled(e.disk, root, v)
      BY <1>0, <1>7, <2>1, <2>3, <2>4, CreateFileFulfils
    <2> HIDE DEF e
    <2>6. CASE s.ok
      <3>1. Grown(d, e.disk, root)
        BY <2>1, <2>5, <2>6, GrownTrans DEF IsRoot
      <3> QED  BY <2>2, <2>4, <2>5, <2>6, <3>1 DEF t, v
    <2>7. CASE ~s.ok
      BY <2>1, <2>2, <2>4, <2>7 DEF t, v
    <2> QED  BY <2>6, <2>7
  <1> HIDE DEF S
  <1>6. n \in S
    BY <1>1, <1>4, <1>5, CreateFolds!Climb
  <1> QED  BY <1>2, <1>3, <1>6 DEF S

-----------------------------------------------------------------------------
(* Configurations. *)

\* One step of the default mounts, for FoldTheorems.
MountNext(d, names, name) ==
  IF IsDirectory(d, Followed(d, Mounts[name].dir)) THEN Append(names, name) ELSE names
MountFolds == INSTANCE FoldTheorems WITH Op <- MountNext

LEMMA SeqAppend ==
  ASSUME NEW S, NEW s \in Seq(S), NEW e \in S
  PROVE  Append(s, e) \in Seq(S)
  BY AppendProperties

LEMMA SeqConcat ==
  ASSUME NEW S, NEW s \in Seq(S), NEW t \in Seq(S)
  PROVE  s \o t \in Seq(S)
  BY ConcatProperties

LEMMA SeqWidens ==
  ASSUME NEW S, NEW T, S \subseteq T, NEW s \in Seq(S)
  PROVE  s \in Seq(T)
  BY ElementOfSeq, LenProperties, SeqDef

\* The entries of the environment, by induction over the candidates.
LEMMA DefaultMountsOK ==
  ASSUME NEW d
  PROVE  DefaultMounts(d) \in EntryNames
  <1> DEFINE none == <<>>
             found == MountFolds!Fold(d, none, SystemDirs)
             n == Len(SystemDirs)
             T == DOMAIN Mounts
  <1>1. DefaultMounts(d) = found \o <<"proc">> \o Hierarchies
    BY DEF DefaultMounts, MountNext, FoldLeft, MapThenFoldSet, MountFolds!Fold, MountFolds!FoldLeft,
           MountFolds!MapThenFoldSet, Max, MountFolds!Max
  <1>2. SystemDirs \in Seq(T) /\ Hierarchies \in Seq(T) /\ "proc" \in T /\ none \in Seq(T)
    BY MountsAssumption DEF EntryNames
  <1> HIDE DEF T, found
  <1>3. n \in Nat /\ DOMAIN SystemDirs = 1 .. n /\ \A i \in 1 .. n : SystemDirs[i] \in T
    BY <1>2, ElementOfSeq, LenProperties
  <1> HIDE DEF n, none
  <1>4. PICK g : /\ g[0] = none
                 /\ \A i \in 1 .. n : g[i] = MountNext(d, g[i - 1], SystemDirs[i])
                 /\ found = g[n]
    BY <1>3, MountFolds!FoldSteps DEF found
  <1> DEFINE S == {i \in 0 .. n : g[i] \in Seq(T)}
  <1>5. 0 \in S
    BY <1>2, <1>3, <1>4
  <1>6. ASSUME NEW i \in 1 .. n, i - 1 \in S  PROVE i \in S
    <2> DEFINE s == g[i - 1]
               name == SystemDirs[i]
    <2>1. s \in Seq(T) /\ name \in T /\ i \in 0 .. n
      BY <1>3, <1>6
    <2>2. g[i] = MountNext(d, s, name)
      BY <1>4
    <2> HIDE DEF s, name
    <2>3. MountNext(d, s, name) \in Seq(T)
      BY <2>1, SeqAppend DEF MountNext
    <2> QED  BY <2>1, <2>2, <2>3
  <1> HIDE DEF S
  <1>7. n \in S
    BY <1>3, <1>5, <1>6, MountFolds!Climb
  <1>8. found \in Seq(T)
    BY <1>4, <1>7 DEF S
  <1>9. <<"proc">> \in Seq(T)
    BY <1>2, ShortSeq
  <1>10. found \o <<"proc">> \o Hierarchies \in Seq(T)
    BY <1>2, <1>8, <1>9, SeqConcat
  <1> QED  BY <1>1, <1>10 DEF EntryNames, T

LEMMA FileOfOK ==
  ASSUME NEW kind \in Kind, NEW path \in Path, NEW mode \in Text, NEW data \in Path,
         kind # "link" => data = <<>>, kind = "link" => data \in Leads
  PROVE  FileOK(FileOf(kind, path, mode, data))
  <1> DEFINE e == FileOf(kind, path, mode, data)
  <1>1. e.kind = kind /\ e.data = data
    BY DEF FileOf
  <1>2. e \in Entry
    BY TextsAssumption DEF FileOf, Entry
  <1> HIDE DEF e
  <1>3. FileOK(e)
    BY <1>1, <1>2 DEF FileOK
  <1> QED  BY <1>3 DEF e

LEMMA DefaultFilesOK == FilesOK(DefaultFiles)
  <1>1. /\ {"dir", "device", "link"} \subseteq Kind /\ <<>> \in Path
        /\ {"dev", "null", "zero", "random", "urandom", "full", "fd", "proc", "self", "0", "1", "2",
            "stdin", "stdout", "stderr", "0555", "0666", "0777"} \subseteq Text
    BY TextsAssumption, EmptySeq DEF Kind, Path
  <1>2. \A a, b \in Text : <<a>> \in Path /\ <<a, b>> \in Path
    BY ShortSeq DEF Path
  <1>3. ASSUME NEW a \in Text, NEW b \in Text, NEW c \in Text, NEW e \in Text
        PROVE  <<a, b, c, e>> \in Path
    <2>1. \A S : \A x, y, z, w \in S : <<x, y, z, w>> \in Seq(S)
      OBVIOUS
    <2> QED  BY <2>1 DEF Path
  <1>4. FileOK(FileOf("dir", <<"dev">>, "0555", <<>>))
    BY <1>1, <1>2, FileOfOK
  <1>5. ASSUME NEW name \in Text  PROVE FileOK(CharDevice(name))
    BY <1>1, <1>2, FileOfOK DEF CharDevice
  <1>6. ASSUME NEW name \in Text, NEW value \in Path, value \in Leads
        PROVE  FileOK(SymLink(value, name))
    BY <1>1, <1>2, <1>6, FileOfOK DEF SymLink
  <1> DEFINE a0 == FileOf("dir", <<"dev">>, "0555", <<>>)
             a1 == CharDevice("null")
             a2 == CharDevice("zero")
             a3 == CharDevice("random")
             a4 == CharDevice("urandom")
             a5 == CharDevice("full")
             a6 == SymLink(<<"proc", "fd">>, "fd")
             a7 == SymLink(<<"proc", "self", "fd", "0">>, "stdin")
             a8 == SymLink(<<"proc", "self", "fd", "1">>, "stdout")
             a9 == SymLink(<<"proc", "self", "fd", "2">>, "stderr")
  <1>7. DefaultFiles = <<a0, a1, a2, a3, a4, a5, a6, a7, a8, a9>>
    BY DEF DefaultFiles
  <1>8. FileOK(a0) /\ FileOK(a1) /\ FileOK(a2) /\ FileOK(a3) /\ FileOK(a4) /\ FileOK(a5)
    BY <1>1, <1>4, <1>5
  <1>13. /\ <<"proc", "fd">> \in Leads /\ <<"proc", "self", "fd", "0">> \in Leads
         /\ <<"proc", "self", "fd", "1">> \in Leads /\ <<"proc", "self", "fd", "2">> \in Leads
    <2>1. \A i \in DOMAIN DefaultFiles :
             DefaultFiles[i].kind = "link" => DefaultFiles[i].data \in Leads
      BY LeadsAssumption DEF ToSet
    <2>2. /\ a6.kind = "link" /\ a6.data = <<"proc", "fd">>
          /\ a7.kind = "link" /\ a7.data = <<"proc", "self", "fd", "0">>
          /\ a8.kind = "link" /\ a8.data = <<"proc", "self", "fd", "1">>
          /\ a9.kind = "link" /\ a9.data = <<"proc", "self", "fd", "2">>
      BY DEF SymLink, FileOf
    <2> HIDE DEF a0, a1, a2, a3, a4, a5, a6, a7, a8, a9
    <2>3. /\ {7, 8, 9, 10} \subseteq DOMAIN DefaultFiles
          /\ DefaultFiles[7] = a6 /\ DefaultFiles[8] = a7
          /\ DefaultFiles[9] = a8 /\ DefaultFiles[10] = a9
      BY <1>7
    <2>4. a6.data \in Leads /\ a7.data \in Leads /\ a8.data \in Leads /\ a9.data \in Leads
      BY <2>1, <2>2, <2>3
    <2> QED  BY <2>2, <2>4
  <1>9. FileOK(a6) /\ FileOK(a7) /\ FileOK(a8) /\ FileOK(a9)
    <2>1. <<"proc", "fd">> \in Path
      BY <1>1, <1>2
    <2>2. <<"proc", "self", "fd", "0">> \in Path
      BY <1>1, <1>3
    <2>3. <<"proc", "self", "fd", "1">> \in Path
      BY <1>1, <1>3
    <2>4. <<"proc", "self", "fd", "2">> \in Path
      BY <1>1, <1>3
    <2> QED  BY <1>1, <1>6, <1>13, <2>1, <2>2, <2>3, <2>4
  <1> HIDE DEF a0, a1, a2, a3, a4, a5, a6, a7, a8, a9
  <1> DEFINE files == <<a0, a1, a2, a3, a4, a5, a6, a7, a8, a9>>
  <1>10. \A S : a0 \in S /\ a1 \in S /\ a2 \in S /\ a3 \in S /\ a4 \in S /\ a5 \in S /\ a6 \in S
                /\ a7 \in S /\ a8 \in S /\ a9 \in S => files \in Seq(S)
    OBVIOUS
  <1> DEFINE G == {e \in Entry : FileOK(e)}
  <1>11. files \in Seq(G)
    <2>1. a0 \in G /\ a1 \in G /\ a2 \in G /\ a3 \in G /\ a4 \in G /\ a5 \in G /\ a6 \in G
          /\ a7 \in G /\ a8 \in G /\ a9 \in G
      BY <1>8, <1>9 DEF FileOK
    <2> HIDE DEF G, files
    <2> QED  BY <1>10, <2>1
  <1> HIDE DEF files
  <1>12. FilesOK(files)
    <2>1. files \in Seq(Entry)
      <3>1. G \subseteq Entry
        OBVIOUS
      <3> HIDE DEF G
      <3> QED  BY <1>11, <3>1, SeqWidens
    <2>2. \A i \in DOMAIN files : FileOK(files[i])
      <3>1. \A i \in DOMAIN files : files[i] \in G
        <4> HIDE DEF G
        <4> QED  BY <1>11, ElementOfSeq, LenProperties
      <3> QED  BY <3>1
    <2> QED  BY <2>1, <2>2 DEF FilesOK, FileOK
  <1> QED  BY <1>7, <1>12 DEF files

LEMMA DefaultLxcOK ==
  ASSUME NEW d
  PROVE  LxcOK(DefaultLxcConfig(d))
  <1> DEFINE m == [fstab |-> {}, entries |-> {DefaultMounts(d)}]
  <1>1. DefaultLxcConfig(d).mount = {m}
    BY DEF DefaultLxcConfig
  <1>2. DOMAIN m = MountFields /\ m["entries"] = {DefaultMounts(d)}
    BY DEF MountFields
  <1> HIDE DEF m
  <1>3. m["entries"] \subseteq EntryNames
    BY <1>2, DefaultMountsOK
  <1> QED  BY <1>1, <1>2, <1>3 DEF LxcOK

\* Patching keeps a configuration well-formed.
LEMMA PatchOK ==
  ASSUME NEW l, LxcOK(l), NEW p, LxcOK(p)
  PROVE  LxcOK(Patch(l, p))
  <1> DEFINE both == {PatchFields(t, u) : t \in l.mount, u \in p.mount}
  <1>1. Patch(l, p).mount = IF l.mount # {} /\ p.mount # {} THEN both
                            ELSE IF p.mount # {} THEN p.mount ELSE l.mount
    BY DEF Patch, Recurse, Override
  <1>2. ASSUME NEW m \in both  PROVE DOMAIN m = MountFields /\ m["entries"] \subseteq EntryNames
    <2>1. PICK t \in l.mount, u \in p.mount : m = PatchFields(t, u)
      OBVIOUS
    <2>2. DOMAIN t = MountFields /\ t["entries"] \subseteq EntryNames
          /\ u["entries"] \subseteq EntryNames /\ "entries" \in MountFields
      BY DEF LxcOK, MountFields
    <2> QED  BY <2>1, <2>2 DEF PatchFields, Override
  <1> HIDE DEF both
  <1>3. \A m \in Patch(l, p).mount : DOMAIN m = MountFields /\ m["entries"] \subseteq EntryNames
    BY <1>1, <1>2 DEF LxcOK
  <1> QED  BY <1>3 DEF LxcOK

-----------------------------------------------------------------------------
(* What a client of the host relies on. *)

\* The tree at a is the same, save owners and modes of files with other names.
SameTree(d, x, a) ==
  \A q \in Path : IsPrefix(a, q) =>
    /\ q \in DOMAIN x <=> q \in DOMAIN d
    /\ q \in DOMAIN d => /\ x[q].kind = d[q].kind /\ x[q].data = d[q].data
                         /\ x[q].ino = d[q].ino
                         /\ d[q].ino = q => x[q] = d[q]

\* What holds of a disk for a client at a place of its life.
ClientOK(d, at, n, files) ==
  /\ at \in {"constructing", "filling"} => Own(d, <<n>>) /\ Linkless(d, <<n>>)
  /\ at = "filling" => <<n, "rootfs">> \in DOMAIN d /\ d[<<n, "rootfs">>].kind = "dir"
  /\ at \in {"filling", "alive"} =>
       <<n, "config">> \in DOMAIN d /\ d[<<n, "config">>].data = <<n, "rootfs">>
  /\ at = "alive" => Fulfilled(d, <<n, "rootfs">>, files)

LEMMA NamesAreText == Names \subseteq Text /\ Foreign \subseteq Names /\ "" \notin Names
  BY NamesAssumption

LEMMA NamePath ==
  ASSUME NEW m \in Names
  PROVE  m \in Text /\ <<m>> \in Path /\ IsPrefix(<<m>>, <<m>>) /\ <<m>> # <<>>
  <1> DEFINE p == <<m>>
  <1>1. m \in Text
    BY NamesAreText
  <1>2. p \in Path /\ p # <<>>
    BY <1>1, ShortSeq DEF Path
  <1> HIDE DEF p
  <1>3. IsPrefix(p, p)
    BY <1>2, PrefixOrder
  <1> QED  BY <1>1, <1>2, <1>3 DEF p

\* Under a name of a container there is nothing of the host's, nor anything that
\* symbolic links lead to.
LEMMA UnderName ==
  ASSUME NEW n \in Names, NEW q \in Path, IsPrefix(<<n>>, q)
  PROVE  /\ q # <<>> /\ q[1] = n /\ ~IsHostPath(q) /\ Clear(q)
         /\ \A v : IsHostPath(v) => ~IsPrefix(q, v)
         /\ \A v \in Leads : ~IsPrefix(q, v)
  <1> DEFINE root == <<n>>
  <1>1. root \in Path /\ root # <<>> /\ root[1] = n
    BY NamesAreText, FirstName
  <1>2. q # <<>> /\ q[1] = n
    BY NamesAreText, FirstName
  <1>3. IsRoot(root) /\ IsPrefix(root, q)
    BY <1>1 DEF IsRoot
  <1> HIDE DEF root
  <1>4. ~IsHostPath(q) /\ Clear(q) /\ \A v : IsHostPath(v) => ~IsPrefix(q, v)
    BY <1>3, InRoot, ClearInRoot
  <1> QED  BY <1>2, <1>4, LeadsAre

LEMMA SameIfWithin ==
  ASSUME NEW d, Sound(d), NEW x, NEW n \in Names, NEW a \in Path, IsPrefix(<<n>>, a),
         Within(d, x, a), NEW m \in Names \ {n}
  PROVE  SameTree(d, x, <<m>>)
  <1>1. ASSUME NEW q \in Path, IsPrefix(<<m>>, q)
        PROVE  ~Below(a, q) /\ ~IsHostPath(q) /\ ~Above(a, q)
    <2>0. <<m>> \in Path /\ <<n>> \in Path /\ m \in Text /\ n \in Text
      BY FirstName, NamesAreText
    <2>1. q # <<>> /\ q[1] = m /\ ~IsHostPath(q) /\ Clear(q) /\ \A v \in Leads : ~IsPrefix(q, v)
      BY <1>1, UnderName
    <2>2. a # <<>> /\ a[1] = n
      BY UnderName
    <2>3. ~IsPrefix(a, q)
      <3>1. IsPrefix(a, q) => IsPrefix(<<n>>, q)
        BY <2>0, PrefixOrder
      <3>2. ~IsPrefix(<<n>>, q)
        BY <2>0, <2>1, FirstName
      <3> QED  BY <3>1, <3>2
    <2>4. ~IsPrefix(q, a)
      <3>1. IsPrefix(q, a) => IsPrefix(<<m>>, a)
        BY <2>0, <1>1, PrefixOrder
      <3>2. ~IsPrefix(<<m>>, a)
        BY <2>0, <2>2, FirstName
      <3> QED  BY <3>1, <3>2
    <2> QED  BY <2>1, <2>3, <2>4 DEF Below, Above, Clear
  <1>2. ASSUME NEW q \in Path, IsPrefix(<<m>>, q), q \notin DOMAIN d  PROVE q \notin DOMAIN x
    BY <1>1, <1>2 DEF Within
  <1>3. ASSUME NEW q \in Path, IsPrefix(<<m>>, q), q \in DOMAIN d
        PROVE  /\ q \in DOMAIN x /\ x[q].kind = d[q].kind /\ x[q].data = d[q].data
               /\ x[q].ino = d[q].ino
               /\ d[q].ino = q => x[q] = d[q]
    BY <1>1, <1>3 DEF Within
  <1> QED  BY <1>2, <1>3 DEF SameTree

LEMMA SameIfHost ==
  ASSUME NEW d, Sound(d), NEW x, NEW p, IsHostPath(p), Only(d, x, p), Kept(d, x),
         NEW m \in Names
  PROVE  SameTree(d, x, <<m>>)
  <1>1. ASSUME NEW q \in Path, IsPrefix(<<m>>, q), q \in DOMAIN x \ DOMAIN d  PROVE FALSE
    <2>1. q = p \/ ~Clear(q) \/ Above(p, q)
      BY <1>1 DEF Only
    <2>2. /\ ~IsHostPath(q) /\ Clear(q) /\ ~IsPrefix(q, p)
          /\ \A v \in Leads : ~IsPrefix(q, v)
      BY <1>1, UnderName
    <2> QED  BY <2>1, <2>2 DEF Above
  <1> QED  BY <1>1 DEF SameTree, Kept

\* A client does not notice changes outside its directory.
LEMMA ClientKeeps ==
  ASSUME NEW d, NEW x, NEW n \in Names, SameTree(d, x, <<n>>), NEW at, NEW files,
         ClientOK(d, at, n, files), Sound(x)
  PROVE  ClientOK(x, at, n, files)
  <1>0. n \in Text /\ "config" \in Text /\ "rootfs" \in Text
    BY NamesAreText, TextsAssumption
  <1>1. <<n, "config">> \in Path /\ IsPrefix(<<n>>, <<n, "config">>)
    BY <1>0, Places
  <1>2. <<n, "rootfs">> \in Path /\ IsPrefix(<<n>>, <<n, "rootfs">>) /\ <<n>> \in Path
    BY <1>0, Places
  <1>3. ASSUME Own(d, <<n>>)  PROVE Own(x, <<n>>)
    <2>1. ASSUME NEW q \in DOMAIN x, IsPrefix(<<n>>, q)  PROVE x[q].ino = q
      <3>1. q \in Path
        BY SoundNode
      <3> QED  BY <3>1, <2>1, <1>3 DEF SameTree, Own
    <2> QED  BY <2>1 DEF Own
  <1>6. ASSUME Linkless(d, <<n>>)  PROVE Linkless(x, <<n>>)
    <2>1. ASSUME NEW q \in DOMAIN x, IsPrefix(<<n>>, q)  PROVE ~IsLink(x, q)
      <3>1. q \in Path
        BY SoundNode
      <3> QED  BY <3>1, <2>1, <1>6 DEF SameTree, Linkless, IsLink, Exists
    <2> QED  BY <2>1 DEF Linkless
  <1>7. ASSUME <<n, "rootfs">> \in DOMAIN d, d[<<n, "rootfs">>].kind = "dir"
        PROVE  <<n, "rootfs">> \in DOMAIN x /\ x[<<n, "rootfs">>].kind = "dir"
    <2> DEFINE q == <<n, "rootfs">>
    <2>1. q \in Path /\ IsPrefix(<<n>>, q) /\ q \in DOMAIN d /\ d[q].kind = "dir"
      BY <1>2, <1>7
    <2> HIDE DEF q
    <2>2. q \in DOMAIN x /\ x[q].kind = "dir"
      BY <2>1 DEF SameTree
    <2> QED  BY <2>2 DEF q
  <1>4. ASSUME Fulfilled(d, <<n, "rootfs">>, files)  PROVE Fulfilled(x, <<n, "rootfs">>, files)
    <2> DEFINE root == <<n, "rootfs">>
    <2>0. root \in Path /\ IsPrefix(<<n>>, root) /\ Fulfilled(d, root, files)
      BY <1>2, <1>4
    <2> HIDE DEF root
    <2>1. ASSUME NEW k \in DOMAIN files
          PROVE  /\ Resolved(k) /\ root \o k \in DOMAIN x /\ x[root \o k].ino = root \o k
                 /\ files[k] = StatusAt(x, root \o k)
      <3>1. /\ Resolved(k) /\ root \o k \in DOMAIN d /\ d[root \o k].ino = root \o k
            /\ files[k] = StatusAt(d, root \o k)
        BY <2>0 DEF Fulfilled
      <3>2. root \o k \in Path /\ IsPrefix(root, root \o k)
        BY <2>0, <3>1, ConcatPath DEF Resolved
      <3> DEFINE q == root \o k
      <3>3. q \in Path /\ IsPrefix(<<n>>, q)
        BY <2>0, <3>2, <1>2, PrefixOrder
      <3>4. q \in DOMAIN d /\ d[q].ino = q
        BY <3>1
      <3> HIDE DEF q
      <3>5. q \in DOMAIN x /\ x[q] = d[q]
        BY <3>3, <3>4 DEF SameTree
      <3>6. files[k] = StatusAt(x, q) /\ x[q].ino = q
        BY <3>5, <3>4, <3>1 DEF StatusAt, q
      <3> QED  BY <3>1, <3>5, <3>6 DEF q
    <2>2. Fulfilled(x, root, files)
      BY <2>1 DEF Fulfilled
    <2> QED  BY <2>2 DEF root
  <1>5. ASSUME <<n, "config">> \in DOMAIN d
        PROVE  <<n, "config">> \in DOMAIN x /\ x[<<n, "config">>].data = d[<<n, "config">>].data
    <2> DEFINE q == <<n, "config">>
    <2>1. q \in Path /\ IsPrefix(<<n>>, q) /\ q \in DOMAIN d
      BY <1>1, <1>5
    <2> HIDE DEF q
    <2>2. q \in DOMAIN x /\ x[q].data = d[q].data
      BY <2>1 DEF SameTree
    <2> QED  BY <2>2 DEF q
  <1> QED  BY <1>3, <1>4, <1>5, <1>6, <1>7 DEF ClientOK

-----------------------------------------------------------------------------
(* The invariant, and the kinds of steps that keep it. *)

\* The control state of the clients, with all a step reads of it.
Control ==
  /\ pc \in [Clients -> {"idle", "naming", "constructing", "undo", "filling", "alive",
                         "destroying", "removing", "gone", "failed"}]
  /\ left \in [Clients -> 0 .. Attempts]
  /\ dir \in [Clients -> Names \cup {""}]
  /\ conf = [c \in Clients |-> conf[c]] /\ placed = [c \in Clients |-> placed[c]]
  /\ lxc \in [Clients -> {"STOPPED", "starting", "RUNNING", "FROZEN"}]
  /\ calls \in [Clients -> 0 .. MaxCalls]
  /\ abandoned \subseteq Names \ Foreign
  /\ \A c \in Clients : /\ LxcOK(conf[c].lxc) /\ FilesOK(conf[c].files)
                        /\ pc[c] = "naming" => left[c] # 0
                        /\ \A p \in DOMAIN placed[c] : DOMAIN placed[c][p] = {"owner", "mode", "data"}

\* A directory of containersDir is foreign, left behind by a failed removal, or
\* held by exactly one client.
Ownership ==
  /\ \A n \in Foreign : <<n>> \in DOMAIN disk
  /\ \A n \in Names \ Foreign :
       <<n>> \in DOMAIN disk <=> n \in abandoned \/ \E c \in Clients : Holding(c) /\ dir[c] = n
  /\ \A c \in Clients : Holding(c) => dir[c] \in (Names \ Foreign) \ abandoned
  /\ \A c, o \in Clients : Holding(c) /\ Holding(o) /\ dir[c] = dir[o] => c = o

\* The inductive invariant of Container.
ContainerInv ==
  /\ Sound(disk) /\ Control /\ Ownership
  /\ \A c \in Clients : ClientOK(disk, pc[c], dir[c], placed[c])

\* The other clients are not in this step.
StepOf(c) ==
  \A o \in Clients \ {c} : pc'[o] = pc[o] /\ dir'[o] = dir[o] /\ placed'[o] = placed[o]

\* Next to the root of a live container, in its directory.
Beside(p) == \E c \in Clients :
  pc[c] = "alive" /\ pc'[c] = "alive" /\ p # Root(c)
  /\ IsPrefix(<<dir[c]>>, p) /\ ~IsPrefix(Root(c), p)

\* Not in a directory a container may have, nor where symbolic links lead.
Theirs(p) == p # <<>> /\ p[1] \notin Names \ Foreign /\ Clear(p)

\* p is what it was.
Untouched(d, x, p) == p \in DOMAIN x /\ x[p].kind = d[p].kind /\ x[p].data = d[p].data

\* In the directory of another client.
OfAnother(c, p) == \E o \in Clients \ {c} : Holding(o) /\ IsPrefix(<<dir[o]>>, p)

\* What KeptInRoot says of one step, and that a step of c leaves the directories of
\* the other clients alone.
StaysInRoot(c) ==
  \A p \in DOMAIN disk : Beside(p) \/ Theirs(p) \/ OfAnother(c, p) => Untouched(disk, disk', p)

LEMMA StaysClear ==
  ASSUME ContainerInv, NEW c \in Clients, NEW p \in DOMAIN disk,
         Beside(p) \/ Theirs(p) \/ OfAnother(c, p)
  PROVE  p \in Path /\ Clear(p)
  <1>1. p \in Path
    BY SoundNode DEF ContainerInv
  <1>2. ASSUME NEW o \in Clients, Holding(o), IsPrefix(<<dir[o]>>, p)  PROVE Clear(p)
    <2>1. dir[o] \in Names
      BY <1>2 DEF ContainerInv, Ownership
    <2> QED  BY <1>1, <1>2, <2>1, UnderName
  <1> QED  BY <1>1, <1>2 DEF Beside, Theirs, OfAnother, Holding

\* A step of a client within the directory it holds.
LEMMA HeldStep ==
  ASSUME ContainerInv, NEW c \in Clients, Holding(c), Holding(c)', StepOf(c), dir' = dir,
         abandoned' = abandoned, Control', NEW a \in Path, IsPrefix(<<dir[c]>>, a),
         Within(disk, disk', a), <<dir[c]>> \in DOMAIN disk',
         pc[c] = "alive" /\ pc'[c] = "alive" => IsPrefix(Root(c), a),
         ClientOK(disk', pc'[c], dir[c], placed'[c])
  PROVE  ContainerInv' /\ StaysInRoot(c)
  <1> DEFINE n == dir[c]
  <1>1. n \in Names \ Foreign /\ n \in Text /\ <<n>> \in Path
    BY NamesAreText, FirstName DEF ContainerInv, Ownership
  <1>2. \A m \in Names \ {n} : SameTree(disk, disk', <<m>>)
    BY <1>1, SameIfWithin DEF ContainerInv
  <1>3. Sound(disk')
    BY DEF Within
  <1>4. \A m \in Names \ {n} : <<m>> \in DOMAIN disk' <=> <<m>> \in DOMAIN disk
    <2>1. ASSUME NEW m \in Names \ {n}  PROVE <<m>> \in DOMAIN disk' <=> <<m>> \in DOMAIN disk
      <3>1. <<m>> \in Path /\ IsPrefix(<<m>>, <<m>>)
        BY NamePath
      <3> QED  BY <1>2, <3>1 DEF SameTree
    <2> QED  BY <2>1
  <1>5. \A o \in Clients : Holding(o)' <=> Holding(o)
    <2>1. \A o \in Clients \ {c} : Holding(o)' <=> Holding(o)
      BY DEF StepOf, Holding
    <2> QED  BY <2>1
  <1>6. Ownership'
    <2>1. \A m \in Foreign : <<m>> \in DOMAIN disk'
      BY <1>1, <1>4, NamesAreText DEF ContainerInv, Ownership
    <2>2. \A m \in Names \ Foreign : <<m>> \in DOMAIN disk'
                  <=> m \in abandoned \/ \E o \in Clients : Holding(o) /\ dir[o] = m
      BY <1>1, <1>4 DEF ContainerInv, Ownership
    <2>3. \A o \in Clients : Holding(o) => dir[o] \in (Names \ Foreign) \ abandoned
      BY DEF ContainerInv, Ownership
    <2>4. \A b, o \in Clients : Holding(b) /\ Holding(o) /\ dir[b] = dir[o] => b = o
      BY DEF ContainerInv, Ownership
    <2> QED  BY <2>1, <2>2, <2>3, <2>4, <1>5 DEF Ownership
  <1>7. ASSUME NEW o \in Clients  PROVE ClientOK(disk', pc'[o], dir'[o], placed'[o])
    <2>1. CASE o = c
      BY <2>1
    <2>2. CASE o # c /\ Holding(o)
      <3>1. dir[o] \in Names \ {n}
        BY <2>2 DEF ContainerInv, Ownership
      <3>2. ClientOK(disk, pc[o], dir[o], placed[o])
        BY DEF ContainerInv
      <3>3. ClientOK(disk', pc[o], dir[o], placed[o])
        BY <3>1, <3>2, <1>2, <1>3, ClientKeeps
      <3> QED  BY <3>3, <2>2 DEF StepOf
    <2>3. CASE o # c /\ ~Holding(o)
      BY <2>3 DEF StepOf, Holding, ClientOK
    <2> QED  BY <2>1, <2>2, <2>3
  <1>8. ASSUME NEW p \in DOMAIN disk, Beside(p) \/ Theirs(p) \/ OfAnother(c, p)
        PROVE  Untouched(disk, disk', p)
    <2>1. p \in Path /\ Clear(p)
      BY <1>8, StaysClear
    <2>2. CASE ~IsPrefix(a, p)
      BY <2>1, <2>2 DEF Within, Untouched, Below, Clear
    <2>3. CASE IsPrefix(a, p)
      <3>1. IsPrefix(<<n>>, p)
        BY <2>1, <2>3, <1>1, PrefixOrder
      <3>2. p # <<>> /\ p[1] = n
        BY <2>1, <3>1, <1>1, FirstName
      <3>3. ~Theirs(p) /\ ~OfAnother(c, p)
        <4>1. ~Theirs(p)
          BY <3>2, <1>1 DEF Theirs
        <4>2. ASSUME NEW o \in Clients \ {c}, Holding(o), IsPrefix(<<dir[o]>>, p)  PROVE FALSE
          <5>1. dir[o] \in Names /\ dir[o] # n
            BY <4>2 DEF ContainerInv, Ownership
          <5>2. p[1] = dir[o]
            BY <4>2, <5>1, <2>1, NamesAreText, FirstName
          <5> QED  BY <3>2, <5>1, <5>2
        <4> QED  BY <4>1, <4>2 DEF OfAnother
      <3>4. PICK o \in Clients : pc[o] = "alive" /\ pc'[o] = "alive" /\ IsPrefix(<<dir[o]>>, p)
                                 /\ ~IsPrefix(Root(o), p)
        BY <1>8, <3>3 DEF Beside
      <3>5. o = c
        <4>1. Holding(o)
          BY <3>4 DEF Holding
        <4>2. dir[o] \in Text
          BY <4>1, NamesAreText DEF ContainerInv, Ownership
        <4>3. p[1] = dir[o]
          BY <4>2, <2>1, <3>4, FirstName
        <4> QED  BY <4>1, <4>3, <3>2 DEF ContainerInv, Ownership
      <3>6. IsPrefix(Root(c), p)
        <4>1. IsPrefix(Root(c), a)
          BY <3>4, <3>5
        <4>2. Root(c) \in Path
          BY <1>1, Places, TextsAssumption DEF Root
        <4> QED  BY <4>1, <4>2, <2>1, <2>3, PrefixOrder
      <3> QED  BY <3>4, <3>5, <3>6
    <2> QED  BY <2>2, <2>3
  <1>9. StaysInRoot(c)
    BY <1>8 DEF StaysInRoot
  <1> QED  BY <1>3, <1>6, <1>7, <1>9 DEF ContainerInv

\* A step that leaves the trees of the others alone.
LEMMA OthersKeep ==
  ASSUME ContainerInv, NEW c \in Clients, StepOf(c), Sound(disk'),
         \A o \in Clients \ {c} : Holding(o) => SameTree(disk, disk', <<dir[o]>>)
  PROVE  \A o \in Clients \ {c} : ClientOK(disk', pc'[o], dir'[o], placed'[o])
  <1>1. ASSUME NEW o \in Clients \ {c}, Holding(o)  PROVE ClientOK(disk', pc[o], dir[o], placed[o])
    <2>1. dir[o] \in Names /\ ClientOK(disk, pc[o], dir[o], placed[o])
      BY <1>1 DEF ContainerInv, Ownership
    <2>2. SameTree(disk, disk', <<dir[o]>>)
      BY <1>1
    <2> QED  BY <2>1, <2>2, ClientKeeps
  <1>2. ASSUME NEW o \in Clients \ {c}, ~Holding(o)  PROVE ClientOK(disk', pc[o], dir[o], placed[o])
    BY <1>2 DEF Holding, ClientOK
  <1> QED  BY <1>1, <1>2 DEF StepOf

LEMMA SameItself ==
  ASSUME NEW d, NEW a
  PROVE  SameTree(d, d, a)
  BY DEF SameTree

\* A step that leaves the disk alone.
LEMMA IdleStep ==
  ASSUME ContainerInv, NEW c \in Clients, StepOf(c), disk' = disk, Control', abandoned' = abandoned,
         Holding(c)' <=> Holding(c), dir'[c] = dir[c],
         pc'[c] \in {"constructing", "filling", "alive"} => pc'[c] = pc[c] /\ placed'[c] = placed[c]
  PROVE  ContainerInv' /\ StaysInRoot(c)
  <1>1. Sound(disk')
    BY DEF ContainerInv
  <1>2. \A o \in Clients \ {c} : ClientOK(disk', pc'[o], dir'[o], placed'[o])
    BY <1>1, SameItself, OthersKeep
  <1>3. ClientOK(disk', pc'[c], dir'[c], placed'[c])
    BY DEF ContainerInv, ClientOK
  <1>4. \A o \in Clients : (Holding(o)' <=> Holding(o)) /\ dir'[o] = dir[o]
    BY DEF StepOf, Holding
  <1>5. Ownership'
    <2>1. \A m \in Foreign : <<m>> \in DOMAIN disk
      BY DEF ContainerInv, Ownership
    <2>2. \A m \in Names \ Foreign : <<m>> \in DOMAIN disk
                  <=> m \in abandoned \/ \E o \in Clients : Holding(o) /\ dir[o] = m
      BY DEF ContainerInv, Ownership
    <2>3. \A o \in Clients : Holding(o) => dir[o] \in (Names \ Foreign) \ abandoned
      BY DEF ContainerInv, Ownership
    <2>4. \A b, o \in Clients : Holding(b) /\ Holding(o) /\ dir[b] = dir[o] => b = o
      BY DEF ContainerInv, Ownership
    <2> QED  BY <2>1, <2>2, <2>3, <2>4, <1>4 DEF Ownership
  <1>6. StaysInRoot(c)
    BY DEF StaysInRoot, Untouched
  <1> QED  BY <1>1, <1>2, <1>3, <1>5, <1>6 DEF ContainerInv

\* A step that writes a file of the host.
LEMMA HostStep ==
  ASSUME ContainerInv, NEW c \in Clients, pc[c] = "alive", pc'[c] \in {"alive", "destroying"},
         StepOf(c), dir' = dir, placed' = placed, abandoned' = abandoned, Control',
         NEW p, IsHostPath(p), Only(disk, disk', p), Kept(disk, disk')
  PROVE  ContainerInv' /\ StaysInRoot(c)
  <1>1. Sound(disk')
    BY DEF Only
  <1>2. \A m \in Names : SameTree(disk, disk', <<m>>)
    BY SameIfHost DEF ContainerInv
  <1>3. \A o \in Clients : Holding(o) => dir[o] \in Names
    BY DEF ContainerInv, Ownership
  <1>4. \A o \in Clients \ {c} : ClientOK(disk', pc'[o], dir'[o], placed'[o])
    BY <1>1, <1>2, <1>3, OthersKeep
  <1>5. ClientOK(disk', pc'[c], dir'[c], placed'[c])
    <2>1. CASE pc'[c] = "alive"
      <3>1. dir[c] \in Names /\ ClientOK(disk, pc[c], dir[c], placed[c])
        BY <1>3 DEF ContainerInv, Holding
      <3>2. ClientOK(disk', pc[c], dir[c], placed[c])
        BY <1>1, <1>2, <3>1, ClientKeeps
      <3> QED  BY <3>2, <2>1
    <2>2. CASE pc'[c] = "destroying"
      BY <2>2 DEF ClientOK
    <2> QED  BY <2>1, <2>2
  <1>6. \A o \in Clients : Holding(o)' <=> Holding(o)
    BY DEF StepOf, Holding
  <1>7. \A m \in Names : <<m>> \in DOMAIN disk' <=> <<m>> \in DOMAIN disk
    <2>1. ASSUME NEW m \in Names  PROVE <<m>> \in DOMAIN disk' <=> <<m>> \in DOMAIN disk
      <3>1. <<m>> \in Path /\ IsPrefix(<<m>>, <<m>>)
        BY NamePath
      <3> QED  BY <1>2, <3>1 DEF SameTree
    <2> QED  BY <2>1
  <1>8. Ownership'
    <2>1. \A m \in Foreign : <<m>> \in DOMAIN disk'
      BY <1>7, NamesAreText DEF ContainerInv, Ownership
    <2>2. \A m \in Names \ Foreign : <<m>> \in DOMAIN disk'
                  <=> m \in abandoned \/ \E o \in Clients : Holding(o) /\ dir[o] = m
      BY <1>7 DEF ContainerInv, Ownership
    <2>3. \A o \in Clients : Holding(o) => dir[o] \in (Names \ Foreign) \ abandoned
      BY DEF ContainerInv, Ownership
    <2>4. \A b, o \in Clients : Holding(b) /\ Holding(o) /\ dir[b] = dir[o] => b = o
      BY DEF ContainerInv, Ownership
    <2> QED  BY <2>1, <2>2, <2>3, <2>4, <1>6 DEF Ownership
  <1>9. StaysInRoot(c)
    BY DEF StaysInRoot, Untouched, Kept
  <1> QED  BY <1>1, <1>4, <1>5, <1>8, <1>9 DEF ContainerInv

\* A step that takes a free name and makes its directory.
LEMMA NamedStep ==
  ASSUME ContainerInv, NEW c \in Clients, ~Holding(c), NEW n \in Names, ~Exists(disk, <<n>>),
         disk' = MakeDirs(disk, <<n>>, Umasked).disk, dir' = [dir EXCEPT ![c] = n],
         pc' = [pc EXCEPT ![c] = "constructing"], placed' = placed, abandoned' = abandoned, Control'
  PROVE  ContainerInv' /\ StaysInRoot(c)
  <1> DEFINE r == MakeDirs(disk, <<n>>, Umasked)
  <1>0. n \in Text /\ <<n>> \in Path /\ IsPrefix(<<n>>, <<n>>) /\ Umasked \in Text /\ Sound(disk)
    <2>1. Umasked \in Text
      BY TextsAssumption DEF Umasked
    <2> QED  BY <2>1, NamePath DEF ContainerInv
  <1>1. /\ Only(disk, r.disk, <<n>>) /\ Kept(disk, r.disk) /\ NoNewLinks(disk, r.disk)
        /\ r.ok => \A q \in Path : IsPrefix(q, <<n>>) => q \in DOMAIN r.disk /\ r.disk[q].kind = "dir"
    <2> DEFINE p == <<n>>
               mode == Umasked
    <2>1. p \in Path /\ IsPrefix(p, p) /\ mode \in Text /\ r = MakeDirs(disk, p, mode) /\ Sound(disk)
      BY <1>0
    <2> HIDE DEF r, p, mode
    <2>2. /\ Only(disk, r.disk, p) /\ Kept(disk, r.disk)
          /\ r.ok => \A q \in Path : IsPrefix(q, p) => q \in DOMAIN r.disk /\ r.disk[q].kind = "dir"
          /\ \A q \in DOMAIN r.disk \ DOMAIN disk : r.disk[q] = Node("dir", "root", mode, <<>>, q)
      BY <2>1, MakeDirsDef
    <2>3. NoNewLinks(disk, r.disk)
      BY <2>2, NodeFields DEF NoNewLinks, IsLink, Exists, Only
    <2> QED  BY <2>2, <2>3 DEF p
  <1>2. r.ok
    <2>1. ASSUME NEW q \in Prefixes(<<n>>)  PROVE ~(Exists(disk, q) /\ ~IsDirectory(disk, q))
      <3>1. q = <<>> \/ q = <<n>>
        BY <1>0, PrefixesDef, FirstName
      <3> QED  BY <3>1, <1>0, SoundRoot DEF Exists, IsDirectory
    <2> QED  BY <2>1 DEF MakeDirs, Done
  <1>3. disk' = r.disk
    OBVIOUS
  <1> HIDE DEF r
  <1>4. <<n>> \in DOMAIN disk' /\ Sound(disk')
    BY <1>0, <1>1, <1>2, <1>3 DEF Only
  <1>5. \A m \in Names \ {n} : SameTree(disk, disk', <<m>>)
    <2> DEFINE p == <<n>>
    <2>1. p \in Path /\ Only(disk, disk', p) /\ Sound(disk) /\ IsPrefix(p, p)
      BY <1>0, <1>1, <1>3
    <2> HIDE DEF p
    <2>2. Within(disk, disk', p)
      BY <2>1, BelowItself, OnlyWithin
    <2> QED  BY <1>0, <2>2, SameIfWithin DEF p
  <1>6. n \notin Foreign /\ n \notin abandoned /\ \A o \in Clients : Holding(o) => dir[o] # n
    BY DEF ContainerInv, Ownership, Exists, Control
  <1>7. DOMAIN pc = Clients /\ DOMAIN dir = Clients
    BY DEF ContainerInv, Control
  <1>8. StepOf(c) /\ pc'[c] = "constructing" /\ dir'[c] = n
    BY <1>7 DEF StepOf
  <1>9. \A o \in Clients \ {c} : ClientOK(disk', pc'[o], dir'[o], placed'[o])
    <2>1. \A o \in Clients \ {c} : Holding(o) => dir[o] \in Names \ {n}
      BY <1>6 DEF ContainerInv, Ownership
    <2> QED  BY <1>4, <1>5, <1>8, <2>1, OthersKeep
  <1>10. ClientOK(disk', pc'[c], dir'[c], placed'[c])
    <2>1. ASSUME NEW q \in DOMAIN disk', IsPrefix(<<n>>, q)
          PROVE  disk'[q].ino = q /\ ~IsLink(disk', q)
      <3>1. CASE q \in DOMAIN disk
        <4>1. <<n>> \in DOMAIN disk
          <5>1. q = <<n>> \/ <<n>> # q
            OBVIOUS
          <5> QED  BY <3>1, <2>1, <1>0, SoundNode
        <4> QED  BY <4>1 DEF Exists
      <3>2. CASE q \notin DOMAIN disk
        BY <3>2, <2>1, <1>1, <1>3 DEF Only, NoNewLinks, IsLink, Exists
      <3> QED  BY <3>1, <3>2
    <2>2. Own(disk', <<n>>) /\ Linkless(disk', <<n>>)
      BY <2>1 DEF Own, Linkless
    <2> QED  BY <2>2, <1>8 DEF ClientOK
  <1>11. \A m \in Names : <<m>> \in DOMAIN disk' <=> m = n \/ <<m>> \in DOMAIN disk
    <2>1. ASSUME NEW m \in Names \ {n}  PROVE <<m>> \in DOMAIN disk' <=> <<m>> \in DOMAIN disk
      <3>1. <<m>> \in Path /\ IsPrefix(<<m>>, <<m>>)
        BY NamePath
      <3> QED  BY <1>5, <3>1 DEF SameTree
    <2> QED  BY <2>1, <1>4
  <1>12. Holding(c)' /\ \A o \in Clients \ {c} : (Holding(o)' <=> Holding(o)) /\ dir'[o] = dir[o]
    BY <1>8 DEF StepOf, Holding
  <1>13. Ownership'
    <2>1. \A m \in Foreign : <<m>> \in DOMAIN disk'
      BY <1>11, NamesAreText DEF ContainerInv, Ownership
    <2>2. \A m \in Names \ Foreign : <<m>> \in DOMAIN disk'
                  <=> m \in abandoned \/ \E o \in Clients : Holding(o)' /\ dir'[o] = m
      <3>1. ASSUME NEW m \in Names \ Foreign
            PROVE  (\E o \in Clients : Holding(o)' /\ dir'[o] = m)
                     <=> m = n \/ \E o \in Clients : Holding(o) /\ dir[o] = m
        BY <1>8, <1>12
      <3> QED  BY <3>1, <1>11 DEF ContainerInv, Ownership
    <2>3. \A o \in Clients : Holding(o)' => dir'[o] \in (Names \ Foreign) \ abandoned
      BY <1>6, <1>8, <1>12 DEF ContainerInv, Ownership
    <2>4. \A b, o \in Clients : Holding(b)' /\ Holding(o)' /\ dir'[b] = dir'[o] => b = o
      BY <1>6, <1>8, <1>12 DEF ContainerInv, Ownership
    <2> QED  BY <2>1, <2>2, <2>3, <2>4 DEF Ownership
  <1>14. StaysInRoot(c)
    BY <1>1, <1>3 DEF StaysInRoot, Untouched, Kept
  <1> QED  BY <1>4, <1>9, <1>10, <1>13, <1>14 DEF ContainerInv

\* A step that removes the directory, or leaves it behind.
LEMMA RemovedStep ==
  ASSUME ContainerInv, NEW c \in Clients, Holding(c), ~Holding(c)', pc'[c] # pc[c], StepOf(c),
         RemoveDirectory(c), Control', pc[c] # "alive"
  PROVE  ContainerInv' /\ StaysInRoot(c)
  <1> DEFINE n == dir[c]
  <1>1. n \in Names \ Foreign /\ n \in Text /\ <<n>> \in Path /\ <<n>> # <<>> /\ Sound(disk)
    <2>1. n \in Names \ Foreign /\ Sound(disk)
      BY DEF ContainerInv, Ownership
    <2> QED  BY <2>1, NamePath
  <1>2. \A o \in Clients \ {c} : Holding(o) => dir[o] \in Names \ {n}
    BY DEF ContainerInv, Ownership
  <1>3. ~Holding(c)' /\ \A o \in Clients \ {c} : (Holding(o)' <=> Holding(o)) /\ dir'[o] = dir[o]
    BY DEF StepOf, Holding
  <1>4. ClientOK(disk', pc'[c], dir'[c], placed'[c])
    BY DEF Holding, ClientOK
  <1>5. CASE disk' = RemoveAll(disk, <<n>>) /\ abandoned' = abandoned
    <2>1. /\ Within(disk, disk', <<n>>)
          /\ \A q : q \in DOMAIN disk' <=> q \in DOMAIN disk /\ ~IsPrefix(<<n>>, q)
      BY <1>1, <1>5, RemoveAllDef
    <2>2. Sound(disk')
      BY <2>1 DEF Within
    <2>3. IsPrefix(<<n>>, <<n>>)
      BY <1>1, PrefixOrder
    <2>4. \A m \in Names \ {n} : SameTree(disk, disk', <<m>>)
      BY <1>1, <2>1, <2>3, SameIfWithin
    <2>5. \A m \in Names : <<m>> \in DOMAIN disk' <=> m # n /\ <<m>> \in DOMAIN disk
      <3>1. ASSUME NEW m \in Names \ {n}  PROVE <<m>> \in DOMAIN disk' <=> <<m>> \in DOMAIN disk
        <4>1. <<m>> \in Path /\ IsPrefix(<<m>>, <<m>>)
          BY NamePath
        <4> QED  BY <2>4, <4>1 DEF SameTree
      <3> QED  BY <3>1, <2>1, <2>3
    <2>6. \A o \in Clients \ {c} : ClientOK(disk', pc'[o], dir'[o], placed'[o])
      BY <1>2, <2>2, <2>4, OthersKeep
    <2>7. Ownership'
      <3>1. \A m \in Foreign : <<m>> \in DOMAIN disk'
        BY <1>1, <2>5, NamesAreText DEF ContainerInv, Ownership
      <3>2. \A m \in Names \ Foreign : <<m>> \in DOMAIN disk'
                  <=> m \in abandoned \/ \E o \in Clients : Holding(o)' /\ dir'[o] = m
        <4>1. ASSUME NEW m \in Names \ Foreign
              PROVE  (\E o \in Clients : Holding(o)' /\ dir'[o] = m)
                       <=> m # n /\ \E o \in Clients : Holding(o) /\ dir[o] = m
          BY <1>2, <1>3
        <4>2. n \notin abandoned
          BY DEF ContainerInv, Ownership
        <4> QED  BY <4>1, <4>2, <2>5 DEF ContainerInv, Ownership
      <3>3. \A o \in Clients : Holding(o)' => dir'[o] \in (Names \ Foreign) \ abandoned
        BY <1>3 DEF ContainerInv, Ownership
      <3>4. \A b, o \in Clients : Holding(b)' /\ Holding(o)' /\ dir'[b] = dir'[o] => b = o
        BY <1>3 DEF ContainerInv, Ownership
      <3> QED  BY <3>1, <3>2, <3>3, <3>4, <1>5 DEF Ownership
    <2>8. ASSUME NEW p \in DOMAIN disk, Beside(p) \/ Theirs(p) \/ OfAnother(c, p)
          PROVE  Untouched(disk, disk', p)
      <3>1. p \in Path /\ Clear(p)
        BY <2>8, StaysClear
      <3>2. CASE ~IsPrefix(<<n>>, p)
        BY <2>1, <3>1, <3>2 DEF Within, Untouched, Below, Clear
      <3>3. CASE IsPrefix(<<n>>, p)
        <4>1. p # <<>> /\ p[1] = n
          BY <1>1, <3>1, <3>3, FirstName
        <4>2. ~Theirs(p)
          BY <4>1, <1>1 DEF Theirs
        <4>3. PICK o \in Clients \ {c} : Holding(o) /\ IsPrefix(<<dir[o]>>, p)
          BY <2>8, <4>2 DEF Beside, OfAnother, Holding
        <4>4. o # c /\ dir[o] \in Names \ {n}
          BY <4>3, <1>2
        <4>5. p[1] = dir[o]
          BY <4>3, <4>4, <3>1, NamesAreText, FirstName
        <4> QED  BY <4>1, <4>4, <4>5
      <3> QED  BY <3>2, <3>3
    <2>9. StaysInRoot(c)
      BY <2>8 DEF StaysInRoot
    <2> QED  BY <1>4, <2>2, <2>6, <2>7, <2>9 DEF ContainerInv
  <1>6. CASE disk' = disk /\ abandoned' = abandoned \cup {n}
    <2>1. Sound(disk')
      BY <1>1, <1>6
    <2>2. \A o \in Clients \ {c} : ClientOK(disk', pc'[o], dir'[o], placed'[o])
      BY <2>1, <1>6, SameItself, OthersKeep
    <2>3. Ownership'
      <3>1. \A m \in Foreign : <<m>> \in DOMAIN disk
        BY DEF ContainerInv, Ownership
      <3>2. \A m \in Names \ Foreign : <<m>> \in DOMAIN disk
                  <=> m \in abandoned' \/ \E o \in Clients : Holding(o)' /\ dir'[o] = m
        <4>1. ASSUME NEW m \in Names \ Foreign
              PROVE  (\E o \in Clients : Holding(o) /\ dir[o] = m)
                       <=> m = n \/ \E o \in Clients : Holding(o)' /\ dir'[o] = m
          BY <1>2, <1>3
        <4> QED  BY <4>1, <1>6 DEF ContainerInv, Ownership
      <3>3. \A o \in Clients : Holding(o)' => dir'[o] \in (Names \ Foreign) \ abandoned'
        BY <1>2, <1>3, <1>6 DEF ContainerInv, Ownership
      <3>4. \A b, o \in Clients : Holding(b)' /\ Holding(o)' /\ dir'[b] = dir'[o] => b = o
        BY <1>3 DEF ContainerInv, Ownership
      <3> QED  BY <3>1, <3>2, <3>3, <3>4, <1>6 DEF Ownership
    <2>4. StaysInRoot(c)
      BY <1>6 DEF StaysInRoot, Untouched
    <2> QED  BY <1>4, <2>1, <2>2, <2>3, <2>4 DEF ContainerInv
  <1> QED  BY <1>5, <1>6 DEF RemoveDirectory

-----------------------------------------------------------------------------
(* Files that were asked for. *)

\* Fewer promises about files that have not changed.
LEMMA FulfilledKeeps ==
  ASSUME NEW d, NEW x, NEW root, NEW f, Fulfilled(d, root, f), NEW g,
         \A k \in DOMAIN g : /\ k \in DOMAIN f /\ g[k] = f[k]
                             /\ root \o k \in DOMAIN x /\ x[root \o k] = d[root \o k]
  PROVE  Fulfilled(x, root, g)
  <1>1. ASSUME NEW k \in DOMAIN g
        PROVE  /\ Resolved(k) /\ root \o k \in DOMAIN x /\ x[root \o k].ino = root \o k
               /\ g[k] = StatusAt(x, root \o k)
    <2>1. /\ Resolved(k) /\ d[root \o k].ino = root \o k
          /\ g[k] = StatusAt(d, root \o k)
      BY DEF Fulfilled
    <2> QED  BY <2>1 DEF StatusAt
  <1> QED  BY <1>1 DEF Fulfilled

\* A change below p leaves what was promised elsewhere.
LEMMA PromisedKeeps ==
  ASSUME NEW d, Sound(d), NEW x, NEW root, IsRoot(root), NEW f, Fulfilled(d, root, f), NEW p,
         p \in Path, Within(d, x, root \o p), NEW k \in DOMAIN f, ~IsPrefix(p, k)
  PROVE  root \o k \in DOMAIN x /\ x[root \o k] = d[root \o k]
  <1>1. Resolved(k) /\ root \o k \in DOMAIN d /\ d[root \o k].ino = root \o k
    BY DEF Fulfilled
  <1>2. root \in Path /\ k \in Path
    BY <1>1 DEF IsRoot, Resolved
  <1> DEFINE q == root \o k
             a == root \o p
  <1>3. q \in Path /\ IsPrefix(root, q)
    BY <1>2, ConcatPath
  <1>4. ~IsPrefix(a, q)
    BY <1>2, PrefixOfConcat
  <1>5. q \in DOMAIN d /\ d[q].ino = q /\ Within(d, x, a)
    BY <1>1
  <1> HIDE DEF q, a
  <1>6. ~IsHostPath(q) /\ Clear(q)
    BY <1>3, ClearInRoot
  <1>7. q \in DOMAIN x /\ x[q] = d[q]
    BY <1>4, <1>5, <1>6 DEF Within, Below, Clear
  <1> QED  BY <1>7 DEF q

\* The root of a client that holds a directory.
LEMMA AliveRoot ==
  ASSUME ContainerInv, NEW c \in Clients, Holding(c)
  PROVE  /\ IsRoot(Root(c)) /\ Root(c) \in Path /\ dir[c] \in Names /\ dir[c] \in Names \ Foreign
         /\ IsPrefix(<<dir[c]>>, Root(c)) /\ Root(c) # <<dir[c]>> /\ ~IsPrefix(Root(c), <<dir[c]>>)
         /\ <<dir[c]>> \in Path /\ <<dir[c]>> \in DOMAIN disk /\ dir[c] \in Text
  <1>1. dir[c] \in Names \ Foreign
    BY DEF ContainerInv, Ownership
  <1>2. dir[c] \in Text /\ "rootfs" \in Text
    BY <1>1, NamePath, TextsAssumption
  <1>3. /\ Root(c) \in Path /\ IsPrefix(<<dir[c]>>, Root(c)) /\ Root(c) # <<dir[c]>>
        /\ Root(c) # <<>> /\ Root(c)[1] = dir[c] /\ <<dir[c]>> \in Path
    BY <1>2, Places DEF Root
  <1>4. IsRoot(Root(c))
    BY <1>1, <1>3 DEF IsRoot
  <1>5. ~IsPrefix(Root(c), <<dir[c]>>)
    BY <1>3, PrefixOrder
  <1>6. <<dir[c]>> \in DOMAIN disk
    BY <1>1 DEF ContainerInv, Ownership
  <1> QED  BY <1>1, <1>2, <1>3, <1>4, <1>5, <1>6

\* A call of a live container that changes the disk at or below one path.
LEMMA CallStep ==
  ASSUME ContainerInv, NEW c \in Clients, pc[c] = "alive", pc'[c] \in {"alive", "destroying"},
         StepOf(c), dir' = dir, abandoned' = abandoned, Control', NEW p \in Path,
         Within(disk, disk', Root(c) \o p),
         pc'[c] = "alive" => Fulfilled(disk', Root(c), placed'[c])
  PROVE  ContainerInv' /\ StaysInRoot(c)
  <1>0. Holding(c) /\ Holding(c)' /\ Sound(disk)
    BY DEF Holding, ContainerInv
  <1>1. /\ IsRoot(Root(c)) /\ Root(c) \in Path /\ <<dir[c]>> \in Path /\ dir[c] \in Text
        /\ IsPrefix(<<dir[c]>>, Root(c)) /\ ~IsPrefix(Root(c), <<dir[c]>>)
        /\ <<dir[c]>> \in DOMAIN disk
    BY <1>0, AliveRoot
  <1> DEFINE root == Root(c)
             a == root \o p
             n == <<dir[c]>>
             file == <<dir[c], "config">>
  <1>2. a \in Path /\ IsPrefix(root, a)
    BY <1>1, ConcatPath
  <1>3. /\ file \in Path /\ ~IsPrefix(root, file)
        /\ file \in DOMAIN disk /\ disk[file].data = root
    <2>1. "config" \in Text /\ "rootfs" \in Text /\ "config" # "rootfs"
      BY TextsAssumption
    <2>2. file \in Path /\ ~IsPrefix(root, file)
      BY <1>1, <2>1, Places DEF Root
    <2>3. file \in DOMAIN disk /\ disk[file].data = root
      BY DEF ContainerInv, ClientOK, Root
    <2> QED  BY <2>2, <2>3
  <1>4. Within(disk, disk', a)
    OBVIOUS
  <1>5. root \in Path /\ n \in Path /\ IsPrefix(n, root) /\ ~IsPrefix(root, n) /\ n \in DOMAIN disk
    BY <1>1
  <1>6. root = Root(c) /\ n = <<dir[c]>> /\ file = <<dir[c], "config">>
    OBVIOUS
  <1> HIDE DEF root, a, n, file
  <1>7. IsPrefix(n, a) /\ ~Below(a, n) /\ ~Below(a, file)
    <2>1. IsPrefix(n, a) /\ ~IsPrefix(a, n) /\ ~IsPrefix(a, file)
      BY <1>2, <1>3, <1>5, PrefixOrder
    <2>2. IsPrefix(n, n) /\ IsPrefix(n, file) /\ dir[c] \in Names
      <3>1. dir[c] \in Names /\ dir[c] \in Text /\ "config" \in Text
        BY <1>0, AliveRoot, TextsAssumption
      <3>2. IsPrefix(<<dir[c]>>, <<dir[c], "config">>)
        BY <3>1, Places
      <3> QED  BY <1>5, <1>6, <3>1, <3>2, PrefixOrder
    <2>3. Clear(n) /\ Clear(file)
      BY <1>3, <1>5, <1>6, <2>2, UnderName
    <2> QED  BY <2>1, <2>3 DEF Below, Clear
  <1>8. n \in DOMAIN disk'
    BY <1>4, <1>5, <1>7 DEF Within
  <1>9. file \in DOMAIN disk' /\ disk'[file].data = root
    BY <1>3, <1>4, <1>7 DEF Within
  <1>10. ClientOK(disk', pc'[c], dir[c], placed'[c])
    BY <1>9 DEF ClientOK, root, file, Root
  <1>11. /\ a \in Path /\ IsPrefix(<<dir[c]>>, a) /\ Within(disk, disk', a)
         /\ <<dir[c]>> \in DOMAIN disk'
         /\ pc[c] = "alive" /\ pc'[c] = "alive" => IsPrefix(Root(c), a)
    BY <1>2, <1>4, <1>6, <1>7, <1>8
  <1> QED  BY <1>0, <1>10, <1>11, HeldStep

\* Where a call that names a path of the container goes.
LEMMA AtDef ==
  ASSUME NEW c, Root(c) \in Path, NEW remote \in Path
  PROVE  At(c, remote) = Inside(remote) /\ KeepInRoot(remote, Root(c)) = Root(c) \o Inside(remote)
         /\ Inside(remote) \in Path /\ Resolved(Inside(remote))
  BY KeptPaths DEF At, Resolved

\* What is forgotten by a call is all that it may have broken.
LEMMA ForgottenKeeps ==
  ASSUME ContainerInv, NEW c \in Clients, pc[c] = "alive", NEW p \in Path,
         NEW x, Within(disk, x, Root(c) \o p)
  PROVE  Fulfilled(x, Root(c), Forgotten(c, p))
  <1>1. IsRoot(Root(c)) /\ Sound(disk) /\ Fulfilled(disk, Root(c), placed[c])
    BY AliveRoot DEF Holding, ContainerInv, ClientOK, Root
  <1>2. ASSUME NEW k \in DOMAIN Forgotten(c, p)
        PROVE  /\ k \in DOMAIN placed[c] /\ Forgotten(c, p)[k] = placed[c][k] /\ ~IsPrefix(p, k)
    BY DEF Forgotten
  <1>3. ASSUME NEW k \in DOMAIN Forgotten(c, p)
        PROVE  Root(c) \o k \in DOMAIN x /\ x[Root(c) \o k] = disk[Root(c) \o k]
    <2> DEFINE root == Root(c)
               f == placed[c]
    <2>1. IsRoot(root) /\ Fulfilled(disk, root, f) /\ k \in DOMAIN f /\ ~IsPrefix(p, k)
          /\ Within(disk, x, root \o p)
      BY <1>1, <1>2, <1>3
    <2> HIDE DEF root, f
    <2>2. root \o k \in DOMAIN x /\ x[root \o k] = disk[root \o k]
      BY <1>1, <2>1, PromisedKeeps
    <2> QED  BY <2>2 DEF root
  <1> DEFINE g == Forgotten(c, p)
             root == Root(c)
             f == placed[c]
  <1>4. \A k \in DOMAIN g : /\ k \in DOMAIN f /\ g[k] = f[k]
                            /\ root \o k \in DOMAIN x /\ x[root \o k] = disk[root \o k]
    BY <1>2, <1>3
  <1>5. Fulfilled(disk, root, f)
    BY <1>1
  <1> HIDE DEF g, root, f
  <1>6. Fulfilled(x, root, g)
    BY <1>4, <1>5, FulfilledKeeps
  <1> QED  BY <1>6 DEF g, root

\* A push, by a call or by the cli that feeds the program.
LEMMA PushStep ==
  ASSUME ContainerInv, NEW c \in Clients, pc[c] = "alive", pc'[c] \in {"alive", "destroying"},
         StepOf(c), dir' = dir, abandoned' = abandoned, Control',
         NEW local, IsHostPath(local), NEW remote \in Path, NEW owner \in Text, NEW mode \in Text,
         NEW r, r = Push(disk, local, remote, owner, mode, Root(c)), disk' = r.disk,
         placed'[c] = AfterPush(c, r, Inside(remote), local, owner, mode)
  PROVE  ContainerInv' /\ StaysInRoot(c)
  <1>1. IsRoot(Root(c)) /\ Sound(disk)
    BY AliveRoot DEF Holding, ContainerInv
  <1> DEFINE root == Root(c)
             k == Inside(remote)
             p == root \o k
             file == [owner |-> owner, mode |-> mode, data |-> disk[local].data]
             good == r.ok /\ Straight(disk, Front(p)) /\ Straight(disk, local)
  <1>2. k \in Path /\ Resolved(k)
    BY KeptPaths, <1>1 DEF Resolved
  <1>3. IsRoot(root) /\ p = KeepInRoot(remote, root) /\ r = Push(disk, local, remote, owner, mode, root)
    BY <1>1, KeptPaths DEF IsRoot
  <1>4. /\ Within(disk, r.disk, p)
        /\ good => p \in DOMAIN r.disk /\ r.disk[p].ino = p /\ StatusAt(r.disk, p) = file
    <2> DEFINE d == disk
    <2>1. /\ Sound(d) /\ local \in Path /\ remote \in Path /\ owner \in Text /\ mode \in Text
          /\ IsRoot(root) /\ p = KeepInRoot(remote, root)
          /\ r = Push(d, local, remote, owner, mode, root)
      BY <1>1, <1>3 DEF IsHostPath
    <2>2. /\ file = [owner |-> owner, mode |-> mode, data |-> d[local].data]
          /\ good <=> r.ok /\ Straight(d, Front(p)) /\ Straight(d, local)
      OBVIOUS
    <2> HIDE DEF root, p, k, d, file, good
    <2>3. /\ Within(d, r.disk, p)
          /\ good => /\ p \in DOMAIN r.disk /\ r.disk[p].ino = p
                     /\ r.disk[p].owner = owner /\ r.disk[p].mode = mode
                     /\ r.disk[p].data = d[local].data
      BY <2>1, <2>2, PushDef
    <2>4. good => StatusAt(r.disk, p) = file
      BY <2>2, <2>3 DEF StatusAt
    <2> QED  BY <2>3, <2>4 DEF d
  <1>5. Fulfilled(disk', root, Forgotten(c, k))
    BY <1>2, <1>4, ForgottenKeeps
  <1>6. placed'[c] = IF good THEN Put(Forgotten(c, k), k, file) ELSE Forgotten(c, k)
    BY DEF AfterPush
  <1> HIDE DEF good
  <1>7. Fulfilled(disk', root, placed'[c])
    <2>1. CASE ~good
      BY <2>1, <1>5, <1>6
    <2>2. CASE good
      <3> DEFINE g == Put(Forgotten(c, k), k, file)
                 f == Forgotten(c, k)
      <3>1. p \in DOMAIN disk' /\ disk'[p].ino = p /\ StatusAt(disk', p) = file
        BY <1>4, <2>2
      <3>2. \A q \in DOMAIN g : q = k \/ (q \in DOMAIN f /\ g[q] = f[q])
        BY DEF Put
      <3>3. k \in DOMAIN g => g[k] = file
        BY DEF Put
      <3>4. Fulfilled(disk', root, f) /\ p = root \o k
        BY <1>5
      <3>5. placed'[c] = g
        BY <1>6, <2>2
      <3> HIDE DEF g, f, p, root, k, file
      <3>6. \A q \in DOMAIN g : /\ Resolved(q) /\ root \o q \in DOMAIN disk'
                                /\ disk'[root \o q].ino = root \o q
                                /\ g[q] = StatusAt(disk', root \o q)
        <4>1. ASSUME NEW q \in DOMAIN g, q = k
              PROVE  /\ Resolved(q) /\ root \o q \in DOMAIN disk'
                     /\ disk'[root \o q].ino = root \o q
                     /\ g[q] = StatusAt(disk', root \o q)
          BY <4>1, <1>2, <3>1, <3>3, <3>4
        <4>2. ASSUME NEW q \in DOMAIN g, q \in DOMAIN f, g[q] = f[q]
              PROVE  /\ Resolved(q) /\ root \o q \in DOMAIN disk'
                     /\ disk'[root \o q].ino = root \o q
                     /\ g[q] = StatusAt(disk', root \o q)
          BY <4>2, <3>4 DEF Fulfilled
        <4> QED  BY <4>1, <4>2, <3>2
      <3> QED  BY <3>5, <3>6 DEF Fulfilled
    <2> QED  BY <2>1, <2>2
  <1>8. Within(disk, disk', Root(c) \o k)
    BY <1>4
  <1> HIDE DEF k
  <1> QED  BY <1>2, <1>7, <1>8, CallStep

-----------------------------------------------------------------------------
(* Control state. *)

\* The attributes of what was placed.
PlacedOK(files) == \A p \in DOMAIN files : DOMAIN files[p] = {"owner", "mode", "data"}

LEMMA FulfilledPlaced ==
  ASSUME NEW d, NEW root, NEW files, Fulfilled(d, root, files)
  PROVE  PlacedOK(files)
  BY DEF Fulfilled, StatusAt, PlacedOK

LEMMA ForgottenPlaced ==
  ASSUME Control, NEW c \in Clients, NEW p
  PROVE  PlacedOK(Forgotten(c, p)) /\ PlacedOK(placed[c])
  BY DEF Control, Forgotten, PlacedOK

LEMMA AfterPushPlaced ==
  ASSUME Control, NEW c \in Clients, NEW p, NEW r, NEW local, NEW owner, NEW mode
  PROVE  PlacedOK(AfterPush(c, r, p, local, owner, mode))
  <1> DEFINE f == Forgotten(c, p)
             file == [owner |-> owner, mode |-> mode, data |-> disk[local].data]
             good == r.ok /\ Straight(disk, Front(Root(c) \o p)) /\ Straight(disk, local)
  <1>1. PlacedOK(f)
    BY ForgottenPlaced
  <1>2. AfterPush(c, r, p, local, owner, mode) = IF good THEN Put(f, p, file) ELSE f
    BY DEF AfterPush
  <1>3. DOMAIN file = {"owner", "mode", "data"}
    OBVIOUS
  <1> HIDE DEF f, file, good
  <1>4. PlacedOK(Put(f, p, file))
    BY <1>1, <1>3 DEF PlacedOK, Put
  <1> QED  BY <1>1, <1>2, <1>4

\* What is known of the state of one client.
StateOK(at, n, name, config, state, k, files) ==
  /\ at \in {"idle", "naming", "constructing", "undo", "filling", "alive",
            "destroying", "removing", "gone", "failed"}
  /\ n \in 0 .. Attempts /\ (at = "naming" => n # 0)
  /\ name \in Names \cup {""}
  /\ LxcOK(config.lxc) /\ FilesOK(config.files)
  /\ state \in {"STOPPED", "starting", "RUNNING", "FROZEN"}
  /\ k \in 0 .. MaxCalls
  /\ PlacedOK(files)

\* A step that makes it so.
Becomes(c, at, n, name, config, state, k, files) ==
  /\ pc' = [pc EXCEPT ![c] = at] /\ left' = [left EXCEPT ![c] = n]
  /\ dir' = [dir EXCEPT ![c] = name] /\ conf' = [conf EXCEPT ![c] = config]
  /\ lxc' = [lxc EXCEPT ![c] = state] /\ calls' = [calls EXCEPT ![c] = k]
  /\ placed' = [placed EXCEPT ![c] = files]

\* Such a step keeps the control state.
LEMMA ControlStep ==
  ASSUME Control, NEW c \in Clients,
         NEW at, NEW n, NEW name, NEW config, NEW state, NEW k, NEW files,
         StateOK(at, n, name, config, state, k, files),
         Becomes(c, at, n, name, config, state, k, files), abandoned' \subseteq Names \ Foreign
  PROVE  Control' /\ StepOf(c) /\ pc'[c] = at /\ dir'[c] = name /\ placed'[c] = files
  <1> USE DEF StateOK, Becomes
  <1>1. /\ pc' \in [Clients -> {"idle", "naming", "constructing", "undo", "filling", "alive",
                                "destroying", "removing", "gone", "failed"}]
        /\ left' \in [Clients -> 0 .. Attempts]
        /\ dir' \in [Clients -> Names \cup {""}]
        /\ lxc' \in [Clients -> {"STOPPED", "starting", "RUNNING", "FROZEN"}]
        /\ calls' \in [Clients -> 0 .. MaxCalls]
    BY DEF Control
  <1>0. /\ conf' = [o \in Clients |-> conf'[o]] /\ placed' = [o \in Clients |-> placed'[o]]
        /\ DOMAIN conf = Clients /\ DOMAIN placed = Clients
    BY DEF Control
  <1>2. /\ pc'[c] = at /\ left'[c] = n /\ dir'[c] = name /\ conf'[c] = config /\ placed'[c] = files
        /\ \A o \in Clients \ {c} : /\ pc'[o] = pc[o] /\ left'[o] = left[o] /\ dir'[o] = dir[o]
                                    /\ conf'[o] = conf[o] /\ placed'[o] = placed[o]
    BY <1>0 DEF Control
  <1>3. ASSUME NEW o \in Clients
        PROVE  /\ LxcOK(conf'[o].lxc) /\ FilesOK(conf'[o].files)
               /\ pc'[o] = "naming" => left'[o] # 0
               /\ \A p \in DOMAIN placed'[o] : DOMAIN placed'[o][p] = {"owner", "mode", "data"}
    <2>1. CASE o = c
      BY <2>1, <1>2 DEF PlacedOK
    <2>2. CASE o # c
      <3>1. conf'[o] = conf[o] /\ pc'[o] = pc[o] /\ left'[o] = left[o] /\ placed'[o] = placed[o]
        BY <2>2, <1>2
      <3>2. LxcOK(conf[o].lxc) /\ FilesOK(conf[o].files) /\ (pc[o] = "naming" => left[o] # 0)
        BY DEF Control
      <3>3. PlacedOK(placed[o])
        BY DEF Control, PlacedOK
      <3>4. PlacedOK(placed'[o])
        BY <3>1, <3>3
      <3> QED  BY <3>1, <3>2, <3>4 DEF PlacedOK
    <2> QED  BY <2>1, <2>2
  <1>4. Control'
    BY <1>0, <1>1, <1>3 DEF Control
  <1> QED  BY <1>2, <1>4 DEF StepOf

\* The parts of the control state that a step leaves alone.
LEMMA Same ==
  ASSUME Control, NEW c \in Clients
  PROVE  /\ pc = [pc EXCEPT ![c] = pc[c]] /\ left = [left EXCEPT ![c] = left[c]]
         /\ dir = [dir EXCEPT ![c] = dir[c]] /\ conf = [conf EXCEPT ![c] = conf[c]]
         /\ lxc = [lxc EXCEPT ![c] = lxc[c]] /\ calls = [calls EXCEPT ![c] = calls[c]]
         /\ placed = [placed EXCEPT ![c] = placed[c]]
         /\ StateOK(pc[c], left[c], dir[c], conf[c], lxc[c], calls[c], placed[c])
         /\ abandoned \subseteq Names \ Foreign
  <1>1. conf = [conf EXCEPT ![c] = conf[c]] /\ placed = [placed EXCEPT ![c] = placed[c]]
    <2>1. ASSUME NEW f, f = [o \in Clients |-> f[o]]  PROVE f = [f EXCEPT ![c] = f[c]]
      BY <2>1
    <2>2. conf = [o \in Clients |-> conf[o]] /\ placed = [o \in Clients |-> placed[o]]
      BY DEF Control
    <2>3. conf = [conf EXCEPT ![c] = conf[c]]
      BY <2>1, <2>2
    <2>4. placed = [placed EXCEPT ![c] = placed[c]]
      BY <2>1, <2>2
    <2> QED  BY <2>3, <2>4
  <1>2. /\ pc = [pc EXCEPT ![c] = pc[c]] /\ left = [left EXCEPT ![c] = left[c]]
        /\ dir = [dir EXCEPT ![c] = dir[c]]
        /\ lxc = [lxc EXCEPT ![c] = lxc[c]] /\ calls = [calls EXCEPT ![c] = calls[c]]
    BY DEF Control
  <1> QED  BY <1>1, <1>2 DEF Control, PlacedOK, StateOK

\* A step of a client that keeps its container and its name.
LEMMA ControlMoves ==
  ASSUME Control, NEW c \in Clients, NEW at, NEW state, NEW k, NEW files,
         StateOK(at, left[c], dir[c], conf[c], state, k, files),
         UNCHANGED <<left, dir, conf, abandoned>>,
         pc' = [pc EXCEPT ![c] = at], lxc' = [lxc EXCEPT ![c] = state],
         calls' = [calls EXCEPT ![c] = k], placed' = [placed EXCEPT ![c] = files]
  PROVE  Control' /\ StepOf(c) /\ pc'[c] = at /\ dir'[c] = dir[c] /\ placed'[c] = files
  <1>1. Becomes(c, at, left[c], dir[c], conf[c], state, k, files)
    BY Same DEF Becomes
  <1>2. abandoned' \subseteq Names \ Foreign
    BY Same
  <1> QED  BY <1>1, <1>2, ControlStep

\* One that changes only where the client is and its LXC.
LEMMA ControlGoes ==
  ASSUME Control, NEW c \in Clients, NEW at, NEW state,
         StateOK(at, left[c], dir[c], conf[c], state, calls[c], placed[c]),
         UNCHANGED <<left, dir, conf, calls, placed, abandoned>>,
         pc' = [pc EXCEPT ![c] = at], lxc' = [lxc EXCEPT ![c] = state]
  PROVE  Control' /\ StepOf(c) /\ pc'[c] = at /\ dir'[c] = dir[c] /\ placed'[c] = placed[c]
  <1>1. Becomes(c, at, left[c], dir[c], conf[c], state, calls[c], placed[c])
    BY Same DEF Becomes
  <1>2. abandoned' \subseteq Names \ Foreign
    BY Same
  <1> QED  BY <1>1, <1>2, ControlStep

\* One that changes only where the client is.
LEMMA ControlAt ==
  ASSUME Control, NEW c \in Clients, NEW at,
         StateOK(at, left[c], dir[c], conf[c], lxc[c], calls[c], placed[c]),
         UNCHANGED <<left, dir, conf, lxc, calls, placed, abandoned>>,
         pc' = [pc EXCEPT ![c] = at]
  PROVE  Control' /\ StepOf(c) /\ pc'[c] = at /\ dir'[c] = dir[c] /\ placed'[c] = placed[c]
  <1>1. lxc' = [lxc EXCEPT ![c] = lxc[c]]
    BY Same
  <1>2. UNCHANGED <<left, dir, conf, calls, placed, abandoned>>
    OBVIOUS
  <1> QED  BY <1>1, <1>2, ControlGoes

-----------------------------------------------------------------------------
(* Creating a container. *)

LEMMA AttemptsAre ==
  Attempts \in Nat /\ Attempts # 0 /\ Attempts \in 0 .. Attempts /\ 0 \in 0 .. Attempts
  <1>1. Attempts \in Nat /\ Attempts # 0
    BY NamesAssumption
  <1> QED  BY <1>1

LEMMA CreateContainerKeeps ==
  ASSUME ContainerInv, NEW c \in Clients, CreateContainer(c)
  PROVE  ContainerInv' /\ StaysInRoot(c)
  <1>1. PICK config \in FromEnvironment(disk), patches \in {{}} \cup {{p} : p \in Patches} :
          conf' = [conf EXCEPT ![c] =
           [config EXCEPT !.lxc = CHOOSE l \in {Patch(@, p) : p \in patches}
                                               \cup (IF patches = {} THEN {@} ELSE {}) : TRUE]]
    BY DEF CreateContainer
  <1> DEFINE l == CHOOSE l \in {Patch(config.lxc, p) : p \in patches}
                               \cup (IF patches = {} THEN {config.lxc} ELSE {}) : TRUE
             new == [config EXCEPT !.lxc = l]
  <1>2. conf' = [conf EXCEPT ![c] = new]
    BY <1>1
  <1>3. DOMAIN config = {"lxc", "files"} /\ LxcOK(config.lxc) /\ FilesOK(config.files)
    <2>1. CASE config = DefaultConfig(disk)
      <3>1. config.lxc = DefaultLxcConfig(disk) /\ config.files = DefaultFiles
            /\ DOMAIN config = {"lxc", "files"}
        BY <2>1 DEF DefaultConfig
      <3> QED  BY <3>1, DefaultLxcOK, DefaultFilesOK
    <2>2. CASE config \in Configs
      BY <2>2, ConfigsAssumption
    <2> QED  BY <2>1, <2>2 DEF FromEnvironment
  <1>4. LxcOK(l)
    <2>1. CASE patches = {}
      <3>1. l = config.lxc
        BY <2>1
      <3> QED  BY <3>1, <1>3
    <2>2. CASE \E p \in Patches : patches = {p}
      <3>1. PICK p \in Patches : patches = {p}
        BY <2>2
      <3>2. l = Patch(config.lxc, p)
        BY <3>1
      <3> QED  BY <3>1, <3>2, <1>3, PatchesAssumption, PatchOK
    <2> QED  BY <2>1, <2>2
  <1> HIDE DEF l
  <1>5. LxcOK(new.lxc) /\ FilesOK(new.files)
    <2>1. new.lxc = l /\ new.files = config.files
      BY <1>3
    <2> QED  BY <2>1, <1>3, <1>4
  <1> HIDE DEF new
  <1>6. /\ pc[c] = "idle" /\ left' = [left EXCEPT ![c] = Attempts] /\ pc' = [pc EXCEPT ![c] = "naming"]
        /\ UNCHANGED <<disk, dir, lxc, calls, placed, abandoned>>
    BY DEF CreateContainer, Goto, useVars
  <1>7. Attempts # 0 /\ Attempts \in 0 .. Attempts
    BY AttemptsAre
  <1>8. Control
    BY DEF ContainerInv
  <1>9. Control' /\ StepOf(c) /\ pc'[c] = "naming" /\ dir'[c] = dir[c] /\ placed'[c] = placed[c]
    <2> DEFINE at == "naming"
    <2>1. StateOK(at, Attempts, dir[c], new, lxc[c], calls[c], placed[c])
      BY <1>5, <1>7, <1>8, Same DEF StateOK
    <2>2. Becomes(c, at, Attempts, dir[c], new, lxc[c], calls[c], placed[c])
      BY <1>2, <1>6, <1>8, Same DEF Becomes
    <2>3. abandoned' \subseteq Names \ Foreign
      BY <1>6, <1>8, Same
    <2> HIDE DEF at
    <2>4. Control' /\ StepOf(c) /\ pc'[c] = at /\ dir'[c] = dir[c] /\ placed'[c] = placed[c]
      BY <1>8, <2>1, <2>2, <2>3, ControlStep
    <2> QED  BY <2>4 DEF at
  <1>10. Holding(c)' <=> Holding(c)
    BY <1>6, <1>9 DEF Holding
  <1> QED  BY <1>6, <1>9, <1>10, IdleStep

LEMMA TryNameKeeps ==
  ASSUME ContainerInv, NEW c \in Clients, TryName(c)
  PROVE  ContainerInv' /\ StaysInRoot(c)
  <1> DEFINE n == left[c] - 1
  <1>1. /\ pc[c] = "naming" /\ left' = [left EXCEPT ![c] = n]
        /\ UNCHANGED <<conf, lxc, calls, placed, abandoned>>
    BY DEF TryName, useVars
  <1>2. Control /\ left[c] \in 0 .. Attempts /\ left[c] # 0
    BY <1>1, Same DEF ContainerInv, StateOK
  <1>3. n \in 0 .. Attempts /\ (~OutOfTries(c) => n # 0)
    <2>1. left[c] \in Nat /\ left[c] # 0 /\ left[c] <= Attempts
      BY <1>2, AttemptsAre
    <2> QED  BY <2>1, AttemptsAre DEF OutOfTries
  <1> HIDE DEF n
  <1>6. abandoned' \subseteq Names \ Foreign
    BY <1>1, <1>2, Same
  <1>4. CASE OutOfTries(c)
    <2>1. pc' = [pc EXCEPT ![c] = "failed"] /\ UNCHANGED <<disk, dir>>
      BY <1>4 DEF TryName, Goto
    <2>2. Control' /\ StepOf(c) /\ pc'[c] = "failed" /\ dir'[c] = dir[c] /\ placed'[c] = placed[c]
      <3> DEFINE at == "failed"
      <3>1. StateOK(at, n, dir[c], conf[c], lxc[c], calls[c], placed[c])
        BY <1>2, <1>3, Same DEF StateOK
      <3>2. Becomes(c, at, n, dir[c], conf[c], lxc[c], calls[c], placed[c])
        BY <1>1, <1>2, <2>1, Same DEF Becomes
      <3> HIDE DEF at
      <3>3. Control' /\ StepOf(c) /\ pc'[c] = at /\ dir'[c] = dir[c] /\ placed'[c] = placed[c]
        BY <1>6, <1>2, <3>1, <3>2, ControlStep
      <3> QED  BY <3>3 DEF at
    <2>3. Holding(c)' <=> Holding(c)
      BY <1>1, <2>2 DEF Holding
    <2> QED  BY <1>1, <2>1, <2>2, <2>3, IdleStep
  <1>5. CASE ~OutOfTries(c)
    <2>1. PICK name \in Names :
                IF NewDirectoryCreated(name)
                  THEN /\ disk' = MakeDirs(disk, <<name>>, Umasked).disk
                       /\ dir' = [dir EXCEPT ![c] = name]
                       /\ pc' = [pc EXCEPT ![c] = "constructing"]
                  ELSE UNCHANGED <<disk, dir, pc>>
      BY <1>5 DEF TryName, Goto
    <2>2. CASE NewDirectoryCreated(name)
      <3>1. /\ disk' = MakeDirs(disk, <<name>>, Umasked).disk
            /\ dir' = [dir EXCEPT ![c] = name] /\ pc' = [pc EXCEPT ![c] = "constructing"]
        BY <2>1, <2>2
      <3>2. Control'
        <4> DEFINE at == "constructing"
        <4>1. StateOK(at, n, name, conf[c], lxc[c], calls[c], placed[c])
          BY <1>2, <1>3, Same DEF StateOK
        <4>2. Becomes(c, at, n, name, conf[c], lxc[c], calls[c], placed[c])
          BY <1>1, <1>2, <3>1, Same DEF Becomes
        <4> HIDE DEF at
        <4> QED  BY <1>6, <1>2, <4>1, <4>2, ControlStep
      <3>3. ~Holding(c) /\ ~Exists(disk, <<name>>)
        BY <1>1, <2>2 DEF Holding, NewDirectoryCreated
      <3> QED  BY <1>1, <3>1, <3>2, <3>3, NamedStep
    <2>3. CASE ~NewDirectoryCreated(name)
      <3>1. UNCHANGED <<disk, dir, pc>>
        BY <2>1, <2>3
      <3>2. pc' = [pc EXCEPT ![c] = "naming"] /\ "naming" = pc[c]
        BY <1>1, <1>2, <3>1, Same
      <3>3. Control' /\ StepOf(c) /\ pc'[c] = "naming" /\ dir'[c] = dir[c] /\ placed'[c] = placed[c]
        <4> DEFINE at == "naming"
        <4>1. StateOK(at, n, dir[c], conf[c], lxc[c], calls[c], placed[c])
          BY <1>2, <1>3, <1>5, Same DEF StateOK
        <4>2. Becomes(c, at, n, dir[c], conf[c], lxc[c], calls[c], placed[c])
          BY <1>1, <1>2, <3>1, <3>2, Same DEF Becomes
        <4> HIDE DEF at
        <4>3. Control' /\ StepOf(c) /\ pc'[c] = at /\ dir'[c] = dir[c] /\ placed'[c] = placed[c]
          BY <1>6, <1>2, <4>1, <4>2, ControlStep
        <4> QED  BY <4>3 DEF at
      <3>4. Holding(c)' <=> Holding(c)
        BY <1>1, <3>3 DEF Holding
      <3> QED  BY <1>1, <3>1, <3>3, <3>4, IdleStep
    <2> QED  BY <2>2, <2>3
  <1> QED  BY <1>4, <1>5

LEMMA NamingFailsKeeps ==
  ASSUME ContainerInv, NEW c \in Clients, NamingFails(c)
  PROVE  ContainerInv' /\ StaysInRoot(c)
  <1>1. /\ pc[c] = "naming" /\ pc' = [pc EXCEPT ![c] = "failed"]
        /\ UNCHANGED <<disk, left, dir, conf, lxc, calls, placed, abandoned>>
    BY DEF NamingFails, Goto, createVars, useVars
  <1>2. Control
    BY DEF ContainerInv
  <1>3. Control' /\ StepOf(c) /\ pc'[c] = "failed" /\ dir'[c] = dir[c] /\ placed'[c] = placed[c]
    <2> DEFINE at == "failed"
    <2>1. /\ StateOK(at, left[c], dir[c], conf[c], lxc[c], calls[c], placed[c])
           /\ pc' = [pc EXCEPT ![c] = at]
      BY <1>1, <1>2, Same DEF StateOK
    <2> HIDE DEF at
    <2>2. Control' /\ StepOf(c) /\ pc'[c] = at /\ dir'[c] = dir[c] /\ placed'[c] = placed[c]
      BY <1>1, <1>2, <2>1, ControlAt
    <2> QED  BY <2>2 DEF at
  <1>4. Holding(c)' <=> Holding(c)
    BY <1>1, <1>3 DEF Holding
  <1> QED  BY <1>1, <1>3, <1>4, IdleStep

LEMMA ConstructLxcKeeps ==
  ASSUME ContainerInv, NEW c \in Clients, ConstructLxc(c)
  PROVE  ContainerInv' /\ StaysInRoot(c)
  <1> DEFINE r == Lxc(disk, conf[c].lxc, dir[c])
             n == dir[c]
  <1>1. /\ pc[c] = "constructing"
        /\ UNCHANGED <<left, dir, conf, lxc, calls, placed, abandoned>>
        /\ \/ r.ok /\ disk' = r.disk /\ pc' = [pc EXCEPT ![c] = "filling"]
           \/ disk' \in {disk, r.disk} /\ pc' = [pc EXCEPT ![c] = "undo"]
    BY DEF ConstructLxc, createVars, useVars, Goto
  <1>2. Control /\ Sound(disk) /\ LxcOK(conf[c].lxc) /\ Holding(c)
    BY <1>1, Same DEF ContainerInv, Holding, StateOK
  <1>3. n \in Names /\ n \in Text /\ <<n>> \in Path /\ <<n>> \in DOMAIN disk
    BY <1>2, AliveRoot
  <1>4. r = Lxc(disk, conf[c].lxc, n)
    OBVIOUS
  <1> HIDE DEF r
  <1>5. /\ Built(disk, r.disk, <<n>>)
        /\ r.ok => /\ <<n, "config">> \in DOMAIN r.disk
                   /\ r.disk[<<n, "config">>].data = <<n, "rootfs">>
                   /\ <<n, "rootfs">> \in DOMAIN r.disk /\ r.disk[<<n, "rootfs">>].kind = "dir"
    BY <1>2, <1>3, <1>4, LxcDef
  <1>6. Built(disk, disk, <<n>>)
    BY <1>2, GrownItself
  <1>7. Built(disk, disk', <<n>>)
    BY <1>1, <1>5, <1>6
  <1>8. Within(disk, disk', <<n>>) /\ <<n>> \in DOMAIN disk' /\ Own(disk', <<n>>)
        /\ Linkless(disk', <<n>>)
    <2>1. Own(disk, <<n>>) /\ Linkless(disk, <<n>>)
      BY <1>1 DEF ContainerInv, ClientOK
    <2>2. Own(disk', <<n>>)
      BY <1>7, <2>1, GrownOwn DEF Built
    <2>3. Linkless(disk', <<n>>)
      BY <1>7, <2>1 DEF Built, NoNewLinks, Linkless, IsLink, Exists
    <2> QED  BY <1>3, <1>7, <2>2, <2>3 DEF Built, Grown
  <1>9. CASE r.ok /\ disk' = r.disk /\ pc' = [pc EXCEPT ![c] = "filling"]
    <2>1. Control' /\ StepOf(c) /\ pc'[c] = "filling" /\ dir'[c] = dir[c] /\ placed'[c] = placed[c]
      <3> DEFINE at == "filling"
      <3>1. /\ StateOK(at, left[c], dir[c], conf[c], lxc[c], calls[c], placed[c])
             /\ pc' = [pc EXCEPT ![c] = at]
        BY <1>1, <1>2, <1>9, Same DEF StateOK
      <3> HIDE DEF at
      <3>2. Control' /\ StepOf(c) /\ pc'[c] = at /\ dir'[c] = dir[c] /\ placed'[c] = placed[c]
        BY <1>1, <1>2, <3>1, ControlAt
      <3> QED  BY <3>2 DEF at
    <2>2. Holding(c)'
      BY <2>1 DEF Holding
    <2>3. ClientOK(disk', pc'[c], dir[c], placed'[c])
      BY <1>5, <1>8, <1>9, <2>1 DEF ClientOK
    <2>4. IsPrefix(<<dir[c]>>, <<n>>)
      BY <1>3, NamePath
    <2> QED  BY <1>1, <1>2, <1>3, <1>8, <2>1, <2>2, <2>3, <2>4, HeldStep
  <1>10. CASE pc' = [pc EXCEPT ![c] = "undo"]
    <2>1. Control' /\ StepOf(c) /\ pc'[c] = "undo" /\ dir'[c] = dir[c] /\ placed'[c] = placed[c]
      <3> DEFINE at == "undo"
      <3>1. /\ StateOK(at, left[c], dir[c], conf[c], lxc[c], calls[c], placed[c])
             /\ pc' = [pc EXCEPT ![c] = at]
        BY <1>1, <1>2, <1>10, Same DEF StateOK
      <3> HIDE DEF at
      <3>2. Control' /\ StepOf(c) /\ pc'[c] = at /\ dir'[c] = dir[c] /\ placed'[c] = placed[c]
        BY <1>1, <1>2, <3>1, ControlAt
      <3> QED  BY <3>2 DEF at
    <2>2. Holding(c)'
      BY <2>1 DEF Holding
    <2>3. ClientOK(disk', pc'[c], dir[c], placed'[c])
      BY <2>1 DEF ClientOK
    <2>4. IsPrefix(<<dir[c]>>, <<n>>)
      BY <1>3, NamePath
    <2> QED  BY <1>1, <1>2, <1>3, <1>8, <2>1, <2>2, <2>3, <2>4, HeldStep
  <1> QED  BY <1>1, <1>9, <1>10

\* Undo and the destructor both end in removing the directory.
LEMMA RemoveKeeps ==
  ASSUME ContainerInv, NEW c \in Clients, pc[c] \in {"undo", "removing"}, RemoveDirectory(c),
         NEW at \in {"gone", "failed"}, pc' = [pc EXCEPT ![c] = at], UNCHANGED <<lxc, calls>>
  PROVE  ContainerInv' /\ StaysInRoot(c)
  <1>1. /\ dir' = [dir EXCEPT ![c] = ""] /\ conf' = [conf EXCEPT ![c] = NoConfig]
        /\ left' = [left EXCEPT ![c] = 0] /\ placed' = [placed EXCEPT ![c] = <<>>]
        /\ abandoned' \subseteq abandoned \cup {dir[c]}
    BY DEF RemoveDirectory
  <1>2. Control /\ Holding(c)
    BY DEF ContainerInv, Holding
  <1>3. LxcOK(NoConfig.lxc) /\ FilesOK(NoConfig.files) /\ PlacedOK(<<>>)
    <2>1. NoConfig.lxc.mount = {} /\ NoConfig.files = <<>>
      BY DEF NoConfig
    <2>2. <<>> \in Seq(Entry)
      OBVIOUS
    <2> QED  BY <2>1, <2>2 DEF LxcOK, FilesOK, PlacedOK
  <1>4. abandoned' \subseteq Names \ Foreign
    BY <1>1, <1>2, AliveRoot DEF Control
  <1>7. Control' /\ StepOf(c) /\ pc'[c] = at
    <2> DEFINE none == <<>>
               name == ""
               n == 0
               config == NoConfig
    <2>1. StateOK(at, n, name, config, lxc[c], calls[c], none)
      BY <1>2, <1>3, AttemptsAre, Same DEF StateOK
    <2>2. Becomes(c, at, n, name, config, lxc[c], calls[c], none)
      BY <1>1, <1>2, Same DEF Becomes
    <2> HIDE DEF none, name, n, config
    <2> QED  BY <1>2, <1>4, <2>1, <2>2, ControlStep
  <1>8. ~Holding(c)' /\ pc'[c] # pc[c] /\ pc[c] # "alive"
    BY <1>7 DEF Holding
  <1> QED  BY <1>2, <1>7, <1>8, RemovedStep

-----------------------------------------------------------------------------
(* Undoing, destroying, and the calls for files. *)

LEMMA UndoKeeps ==
  ASSUME ContainerInv, NEW c \in Clients, Undo(c)
  PROVE  ContainerInv' /\ StaysInRoot(c)
  <1> DEFINE at == "failed"
  <1>1. /\ pc[c] \in {"undo", "removing"} /\ RemoveDirectory(c) /\ at \in {"gone", "failed"}
        /\ pc' = [pc EXCEPT ![c] = at] /\ UNCHANGED <<lxc, calls>>
    BY DEF Undo, Goto
  <1> HIDE DEF at
  <1> QED  BY <1>1, RemoveKeeps

LEMMA DestroyRemovesKeeps ==
  ASSUME ContainerInv, NEW c \in Clients, DestroyRemoves(c)
  PROVE  ContainerInv' /\ StaysInRoot(c)
  <1> DEFINE at == "gone"
  <1>1. /\ pc[c] \in {"undo", "removing"} /\ RemoveDirectory(c) /\ at \in {"gone", "failed"}
        /\ pc' = [pc EXCEPT ![c] = at] /\ UNCHANGED <<lxc, calls>>
    BY DEF DestroyRemoves, Goto
  <1> HIDE DEF at
  <1> QED  BY <1>1, RemoveKeeps

LEMMA ConfiguredFilesKeeps ==
  ASSUME ContainerInv, NEW c \in Clients, CreateConfiguredFiles(c)
  PROVE  ContainerInv' /\ StaysInRoot(c) /\ IsDirectory(disk, Root(c))'
  <1> DEFINE files == conf[c].files
             root == Root(c)
             r == CreateFiles(disk, files, root)
             f == Promised(disk, files)
             n == <<dir[c]>>
             config == <<dir[c], "config">>
  <1>1. /\ pc[c] = "filling" /\ disk' = r.disk
        /\ UNCHANGED <<left, dir, conf, lxc, calls, abandoned>>
        /\ \/ r.ok /\ pc' = [pc EXCEPT ![c] = "alive"] /\ placed' = [placed EXCEPT ![c] = f]
           \/ pc' = [pc EXCEPT ![c] = "destroying"] /\ UNCHANGED placed
    BY DEF CreateConfiguredFiles, createVars, Goto, Unwinding
  <1>2. Control /\ Sound(disk) /\ FilesOK(files) /\ Holding(c)
    BY <1>1, Same DEF ContainerInv, Holding, StateOK
  <1>3. /\ IsRoot(root) /\ root \in Path /\ n \in Path /\ dir[c] \in Text
        /\ IsPrefix(n, root) /\ ~IsPrefix(root, n) /\ n \in DOMAIN disk
    BY <1>2, AliveRoot
  <1>4. config \in Path /\ ~IsPrefix(root, config) /\ config \in DOMAIN disk /\ disk[config].data = root
    <2>1. "config" \in Text /\ "rootfs" \in Text /\ "config" # "rootfs"
      BY TextsAssumption
    <2>2. config \in Path /\ ~IsPrefix(root, config)
      BY <1>3, <2>1, Places DEF Root
    <2>3. config \in DOMAIN disk /\ disk[config].data = root
      BY <1>1 DEF ContainerInv, ClientOK, Root
    <2> QED  BY <2>2, <2>3
  <1>5. /\ Own(disk, root) /\ Linkless(disk, root)
        /\ root \in DOMAIN disk /\ disk[root].kind = "dir"
    <2>1. /\ Own(disk, n) /\ Linkless(disk, n)
          /\ root \in DOMAIN disk /\ disk[root].kind = "dir"
      BY <1>1 DEF ContainerInv, ClientOK, Root
    <2>2. \A q \in DOMAIN disk : IsPrefix(root, q) => IsPrefix(n, q)
      BY <1>2, <1>3, SoundNode, PrefixOrder
    <2> QED  BY <2>1, <2>2 DEF Own, Linkless
  <1>6. r = CreateFiles(disk, files, root) /\ f = Promised(disk, files)
    OBVIOUS
  <1>7. Grown(disk, r.disk, root) /\ (r.ok => Fulfilled(r.disk, root, f))
    <2> HIDE DEF r, f, files, root
    <2> QED  BY <1>2, <1>3, <1>5, <1>6, CreateFilesFulfils
  <1>8. Within(disk, disk', root)
    BY <1>1, <1>7 DEF Grown
  <1>12. ~Below(root, n) /\ ~Below(root, config)
    <2>1. dir[c] \in Names /\ "config" \in Text
      BY <1>2, AliveRoot, TextsAssumption
    <2>2. IsPrefix(n, n) /\ IsPrefix(n, config)
      BY <1>3, <2>1, Places, PrefixOrder
    <2>3. Clear(n) /\ Clear(config)
      BY <1>3, <1>4, <2>1, <2>2, UnderName
    <2> HIDE DEF n, config, root
    <2> QED  BY <1>3, <1>4, <2>3 DEF Below, Clear
  <1>9. n \in DOMAIN disk' /\ config \in DOMAIN disk' /\ disk'[config].data = root
    <2> HIDE DEF n, config, root
    <2> QED  BY <1>3, <1>4, <1>8, <1>12 DEF Within
  <1>13. IsDirectory(disk, Root(c))'
    <2>1. root \in DOMAIN disk' /\ disk'[root].kind = "dir"
      BY <1>1, <1>5, <1>7 DEF Grown
    <2>2. Root(c)' = root
      BY <1>1 DEF Root
    <2> HIDE DEF root
    <2> QED  BY <2>1, <2>2 DEF IsDirectory, Exists
  <1>10. CASE r.ok /\ pc' = [pc EXCEPT ![c] = "alive"] /\ placed' = [placed EXCEPT ![c] = f]
    <2>1. Fulfilled(disk', root, f)
      BY <1>1, <1>7, <1>10
    <2> DEFINE at == "alive"
    <2>2. StateOK(at, left[c], dir[c], conf[c], lxc[c], calls[c], f)
      BY <1>2, <2>1, Same, FulfilledPlaced DEF StateOK
    <2>3. Becomes(c, at, left[c], dir[c], conf[c], lxc[c], calls[c], f)
      BY <1>1, <1>2, <1>10, Same DEF Becomes
    <2>4. abandoned' \subseteq Names \ Foreign
      BY <1>1, <1>2, Same
    <2> HIDE DEF at, f
    <2>5. Control' /\ StepOf(c) /\ pc'[c] = at /\ placed'[c] = f
      BY <1>2, <2>2, <2>3, <2>4, ControlStep
    <2>6. pc'[c] = "alive" /\ Holding(c)'
      BY <2>5 DEF at, Holding
    <2>7. ClientOK(disk', pc'[c], dir[c], placed'[c])
      BY <1>9, <2>1, <2>5, <2>6 DEF ClientOK, Root
    <2>8. pc[c] # "alive"
      BY <1>1
    <2> HIDE DEF root
    <2> QED  BY <1>1, <1>2, <1>3, <1>8, <1>9, <2>5, <2>6, <2>7, <2>8, <1>13, HeldStep
  <1>11. CASE pc' = [pc EXCEPT ![c] = "destroying"] /\ UNCHANGED placed
    <2> DEFINE at == "destroying"
    <2>1. StateOK(at, left[c], dir[c], conf[c], lxc[c], calls[c], placed[c])
      BY <1>2, Same DEF StateOK
    <2>2. pc' = [pc EXCEPT ![c] = at]
      BY <1>11
    <2> HIDE DEF at
    <2>3. Control' /\ StepOf(c) /\ pc'[c] = at
      BY <1>1, <1>2, <1>11, <2>1, <2>2, ControlAt
    <2>4. pc'[c] = "destroying" /\ Holding(c)'
      BY <2>3 DEF at, Holding
    <2>5. ClientOK(disk', pc'[c], dir[c], placed'[c])
      BY <2>4 DEF ClientOK
    <2>6. pc[c] # "alive"
      BY <1>1
    <2> HIDE DEF root
    <2> QED  BY <1>1, <1>2, <1>3, <1>8, <1>9, <2>3, <2>4, <2>5, <2>6, <1>13, HeldStep
  <1> QED  BY <1>1, <1>10, <1>11

LEMMA CallCounted ==
  ASSUME Control, NEW c \in Clients, calls[c] < MaxCalls
  PROVE  calls[c] + 1 \in 0 .. MaxCalls
  <1>1. calls[c] \in 0 .. MaxCalls /\ MaxCalls \in Nat
    BY NamesAssumption DEF Control
  <1> QED  BY <1>1

\* The control state after a call on the files.
LEMMA CalledControl ==
  ASSUME Control, NEW c \in Clients, MayCall(c), Called(c), NEW files, PlacedOK(files),
         placed' = [placed EXCEPT ![c] = files],
         UNCHANGED <<pc, createVars, lxc, abandoned>>
  PROVE  Control' /\ StepOf(c) /\ pc'[c] = "alive" /\ dir' = dir /\ placed'[c] = files
  <1> DEFINE k == calls[c] + 1
  <1>1. k \in 0 .. MaxCalls
    BY CallCounted DEF MayCall
  <1> HIDE DEF k
  <1>2. StateOK(pc[c], left[c], dir[c], conf[c], lxc[c], k, files)
    BY <1>1, Same DEF StateOK
  <1>3. Becomes(c, pc[c], left[c], dir[c], conf[c], lxc[c], k, files)
    BY Same DEF Becomes, createVars, Called, k
  <1>4. abandoned' \subseteq Names \ Foreign
    BY Same
  <1>5. Control' /\ StepOf(c) /\ pc'[c] = pc[c] /\ placed'[c] = files
    BY <1>2, <1>3, <1>4, ControlStep
  <1> QED  BY <1>5 DEF MayCall, createVars

LEMMA AliveFacts ==
  ASSUME ContainerInv, NEW c \in Clients, pc[c] = "alive"
  PROVE  Control /\ Sound(disk) /\ IsRoot(Root(c)) /\ Root(c) \in Path
         /\ Fulfilled(disk, Root(c), placed[c])
  BY AliveRoot DEF Holding, ContainerInv, ClientOK, Root

LEMMA PushFileKeeps ==
  ASSUME ContainerInv, NEW c \in Clients, PushFile(c)
  PROVE  ContainerInv' /\ StaysInRoot(c)
  <1>1. PICK local \in Locals, remote \in Remotes, owner \in Owners, mode \in Modes :
          /\ disk' = Push(disk, local, remote, owner, mode, Root(c)).disk
          /\ placed' = [placed EXCEPT ![c] =
               AfterPush(c, Push(disk, local, remote, owner, mode, Root(c)), At(c, remote),
                         local, owner, mode)]
    BY DEF PushFile
  <1> DEFINE r == Push(disk, local, remote, owner, mode, Root(c))
             files == AfterPush(c, r, Inside(remote), local, owner, mode)
  <1>2. MayCall(c) /\ Called(c) /\ UNCHANGED <<pc, createVars, lxc, abandoned>> /\ pc[c] = "alive"
    BY DEF PushFile, MayCall
  <1>3. Control /\ Sound(disk) /\ IsRoot(Root(c)) /\ Root(c) \in Path
    BY <1>2, AliveFacts
  <1>4. IsHostPath(local) /\ remote \in Path /\ owner \in Text /\ mode \in Text
    BY CallsAssumption
  <1>5. At(c, remote) = Inside(remote)
    BY <1>3, <1>4, AtDef
  <1>6. PlacedOK(files)
    BY <1>3, AfterPushPlaced
  <1>7. placed' = [placed EXCEPT ![c] = files]
    BY <1>1, <1>5
  <1> HIDE DEF files
  <1>8. Control' /\ StepOf(c) /\ pc'[c] = "alive" /\ dir' = dir /\ placed'[c] = files
        /\ abandoned' = abandoned
    BY <1>2, <1>3, <1>6, <1>7, CalledControl
  <1>9. /\ r = Push(disk, local, remote, owner, mode, Root(c)) /\ disk' = r.disk
        /\ placed'[c] = AfterPush(c, r, Inside(remote), local, owner, mode)
    BY <1>1, <1>8 DEF files
  <1> HIDE DEF r
  <1> QED  BY <1>2, <1>4, <1>8, <1>9, PushStep

LEMMA PushFileLinkKeeps ==
  ASSUME ContainerInv, NEW c \in Clients, PushFileLink(c)
  PROVE  ContainerInv' /\ StaysInRoot(c)
  <1>1. PICK local \in Locals, remote \in Remotes, owner \in Owners, mode \in Modes :
          /\ disk' = PushLink(disk, local, remote, owner, mode, Root(c)).disk
          /\ placed' = [placed EXCEPT ![c] = Forgotten(c, At(c, remote))]
    BY DEF PushFileLink
  <1> DEFINE r == PushLink(disk, local, remote, owner, mode, Root(c))
             p == KeepInRoot(remote, Root(c))
             k == Inside(remote)
             root == Root(c)
  <1>2. MayCall(c) /\ Called(c) /\ UNCHANGED <<pc, createVars, lxc, abandoned>> /\ pc[c] = "alive"
    BY DEF PushFileLink, MayCall
  <1>3. Control /\ Sound(disk) /\ IsRoot(root) /\ root \in Path
    BY <1>2, AliveFacts
  <1>4. IsHostPath(local) /\ remote \in Path /\ owner \in Text /\ mode \in Text
    BY CallsAssumption
  <1>5. At(c, remote) = k /\ p = Root(c) \o k /\ k \in Path
    BY <1>3, <1>4, AtDef
  <1>6. placed' = [placed EXCEPT ![c] = Forgotten(c, k)]
    BY <1>1, <1>5
  <1>7. r = PushLink(disk, local, remote, owner, mode, root) /\ p = KeepInRoot(remote, root)
        /\ disk' = r.disk
    BY <1>1
  <1>8. Within(disk, disk', p)
    <2> HIDE DEF r, p, root
    <2> QED  BY <1>3, <1>4, <1>7, PushLinkDef
  <1> HIDE DEF k
  <1>9. Control' /\ StepOf(c) /\ pc'[c] = "alive" /\ dir' = dir /\ placed'[c] = Forgotten(c, k)
        /\ abandoned' = abandoned
    BY <1>2, <1>3, <1>6, ForgottenPlaced, CalledControl
  <1>10. Fulfilled(disk', Root(c), placed'[c]) /\ Within(disk, disk', Root(c) \o k)
    BY <1>2, <1>5, <1>8, <1>9, ForgottenKeeps
  <1> QED  BY <1>2, <1>5, <1>9, <1>10, CallStep

LEMMA PullFileKeeps ==
  ASSUME ContainerInv, NEW c \in Clients, PullFile(c)
  PROVE  ContainerInv' /\ StaysInRoot(c)
  <1>1. PICK remote \in Remotes, local \in Locals : disk' = Pull(disk, remote, local, Root(c)).disk
    BY DEF PullFile
  <1> DEFINE r == Pull(disk, remote, local, Root(c))
  <1>2. MayCall(c) /\ Called(c) /\ UNCHANGED <<pc, createVars, lxc, abandoned>> /\ pc[c] = "alive"
        /\ placed' = placed
    BY DEF PullFile, MayCall
  <1>3. Control /\ Sound(disk) /\ Root(c) \in Path
    BY <1>2, AliveFacts
  <1>4. IsHostPath(local) /\ remote \in Path /\ local \in Path
    BY CallsAssumption DEF IsHostPath
  <1>5. r = Pull(disk, remote, local, Root(c)) /\ disk' = r.disk
    BY <1>1
  <1>6. Only(disk, disk', local) /\ Kept(disk, disk')
    <2> HIDE DEF r
    <2> QED  BY <1>3, <1>4, <1>5, PullDef
  <1>7. placed' = [placed EXCEPT ![c] = placed[c]] /\ PlacedOK(placed[c])
    BY <1>2, <1>3, Same DEF StateOK
  <1>8. Control' /\ StepOf(c) /\ pc'[c] = "alive" /\ dir' = dir /\ abandoned' = abandoned
    BY <1>2, <1>3, <1>7, CalledControl
  <1> QED  BY <1>2, <1>4, <1>6, <1>8, HostStep

\* setOwnerId or setMode, of a file that was placed or another.
LEMMA AttributeStep ==
  ASSUME ContainerInv, NEW c \in Clients, MayCall(c), Called(c),
         UNCHANGED <<pc, createVars, lxc, abandoned>>,
         NEW p, Resolved(p), NEW file, NEW mine \in BOOLEAN, Only(disk, disk', Root(c) \o p),
         placed' = IF mine THEN [placed EXCEPT ![c] = Put(placed[c], p, file)] ELSE placed,
         mine => p \in DOMAIN placed[c] /\ file = StatusAt(disk', Root(c) \o p),
         ~mine /\ p \in DOMAIN placed[c] => disk'[Root(c) \o p] = disk[Root(c) \o p]
  PROVE  ContainerInv' /\ StaysInRoot(c)
  <1> DEFINE root == Root(c)
             f == placed[c]
             g == IF mine THEN Put(f, p, file) ELSE f
             a == root \o p
  <1>1. Control /\ Sound(disk) /\ IsRoot(root) /\ root \in Path /\ Fulfilled(disk, root, f)
        /\ pc[c] = "alive"
    BY AliveFacts DEF MayCall
  <1>2. p \in Path /\ a \in Path
    BY <1>1, ConcatPath DEF Resolved
  <1>3. Within(disk, disk', a)
    <2> HIDE DEF a
    <2>1. IsPrefix(a, a)
      BY <1>2, PrefixOrder
    <2>2. Only(disk, disk', a)
      BY DEF a
    <2> QED  BY <1>1, <1>2, <2>1, <2>2, OnlyWithin DEF Below
  <1>4. placed' = [placed EXCEPT ![c] = g]
    BY <1>1, Same
  <1>5. PlacedOK(f) /\ PlacedOK(g)
    <2>1. PlacedOK(f)
      BY <1>1, FulfilledPlaced
    <2>2. mine => DOMAIN file = {"owner", "mode", "data"}
      BY DEF StatusAt
    <2> QED  BY <2>1, <2>2 DEF PlacedOK, Put
  <1>6. Fulfilled(disk', root, g)
    <2>1. ASSUME NEW k \in DOMAIN g, k # p
          PROVE  /\ Resolved(k) /\ root \o k \in DOMAIN disk' /\ disk'[root \o k].ino = root \o k
                 /\ g[k] = StatusAt(disk', root \o k)
      <3>1. k \in DOMAIN f /\ g[k] = f[k]
        BY <2>1 DEF Put
      <3> DEFINE q == root \o k
      <3>2. /\ Resolved(k) /\ q \in DOMAIN disk /\ disk[q].ino = q /\ f[k] = StatusAt(disk, q)
        BY <1>1, <3>1 DEF Fulfilled
      <3>3. k \in Path
        BY <3>2 DEF Resolved
      <3>4. IsPrefix(root, q) /\ q \in Path
        BY <1>1, <3>3, ConcatPath
      <3>5. q # a
        BY <1>1, <1>2, <2>1, <3>3, PrefixOfConcat
      <3> HIDE DEF g, f, q, a
      <3>6. ~IsHostPath(q)
        BY <1>1, <3>4, InRoot
      <3>7. q \in DOMAIN disk' /\ disk'[q] = disk[q]
        BY <3>2, <3>5, <3>6 DEF Only, a
      <3>8. g[k] = StatusAt(disk', q) /\ disk'[q].ino = q
        BY <3>1, <3>2, <3>7 DEF StatusAt
      <3> QED  BY <3>2, <3>7, <3>8 DEF q
    <2>2. ASSUME p \in DOMAIN g
          PROVE  /\ Resolved(p) /\ a \in DOMAIN disk' /\ disk'[a].ino = a /\ g[p] = StatusAt(disk', a)
      <3>1. p \in DOMAIN f
        BY <2>2 DEF Put
      <3>2. mine => g[p] = StatusAt(disk', a)
        BY DEF Put
      <3>3. a \in DOMAIN disk /\ disk[a].ino = a /\ f[p] = StatusAt(disk, a)
        BY <1>1, <3>1 DEF Fulfilled
      <3>4. a \in DOMAIN disk' /\ disk'[a].ino = a
        BY <3>3 DEF Only
      <3>5. ~mine => g[p] = StatusAt(disk', a)
        BY <3>1, <3>3 DEF StatusAt
      <3> QED  BY <3>2, <3>4, <3>5
    <2> HIDE DEF g, root
    <2>3. ASSUME NEW k \in DOMAIN g
          PROVE  /\ Resolved(k) /\ root \o k \in DOMAIN disk' /\ disk'[root \o k].ino = root \o k
                 /\ g[k] = StatusAt(disk', root \o k)
      <3>1. CASE k = p
        BY <3>1, <2>2
      <3>2. CASE k # p
        BY <3>2, <2>1
      <3> QED  BY <3>1, <3>2
    <2> QED  BY <2>3 DEF Fulfilled
  <1>7. Control' /\ StepOf(c) /\ pc'[c] = "alive" /\ dir' = dir /\ placed'[c] = g
        /\ abandoned' = abandoned
    <2> HIDE DEF g
    <2> QED  BY <1>1, <1>4, <1>5, CalledControl
  <1>8. Fulfilled(disk', Root(c), placed'[c]) /\ Within(disk, disk', Root(c) \o p)
    BY <1>3, <1>6, <1>7
  <1> QED  BY <1>1, <1>2, <1>7, <1>8, CallStep

\* Attributes are set where the path leads; of a file that was placed there is no
\* other name, and where it is a link what it leads to is not its own.
LEMMA AttributeOf ==
  ASSUME NEW d, Sound(d), NEW root, IsRoot(root), NEW a \in Path, IsPrefix(root, a),
         NEW x, NEW t, t = Followed(d, a), Only(d, x, t), IsLink(d, t) => x = d
  PROVE  /\ Only(d, x, a)
         /\ a \in DOMAIN d /\ ~IsLink(d, a) => t = a
         /\ a \in DOMAIN d /\ IsLink(d, a) /\ d[a].ino = a => x[a] = d[a]
  <1>1. t \in Path /\ (Straight(d, a) => t = a)
    BY FollowedDef
  <1>2. Only(d, x, a)
    BY OnlyFollowed
  <1>3. a \in DOMAIN d /\ ~IsLink(d, a) => t = a
    BY <1>1, StraightFront
  <1>4. ASSUME a \in DOMAIN d, IsLink(d, a), d[a].ino = a  PROVE x[a] = d[a]
    <2>1. CASE t = a
      BY <1>4, <2>1
    <2>2. CASE t # a
      <3>1. ~IsHostPath(a)
        BY InRoot
      <3> QED  BY <1>4, <2>2, <3>1 DEF Only
    <2> QED  BY <2>1, <2>2
  <1> QED  BY <1>2, <1>3, <1>4

\* Attributes of a file reach no other that was placed: two paths placed by one
\* client are different inodes, as hard links are made to host files only.
LEMMA SetAttributeKeeps ==
  ASSUME ContainerInv, NEW c \in Clients, SetAttribute(c)
  PROVE  ContainerInv' /\ StaysInRoot(c)
  <1> DEFINE told(remote) == At(c, remote) \in DOMAIN placed[c] /\ ~IsLink(disk, Root(c) \o At(c, remote))
             owned(remote, owner) ==
               [placed[c][At(c, remote)] EXCEPT !.owner = owner,
                  !.mode = WithoutSetId(FileStatus(disk, remote, Root(c)).kind, @)]
             moded(remote, mode) == [placed[c][At(c, remote)] EXCEPT !.mode = mode]
  <1>1. MayCall(c) /\ Called(c) /\ UNCHANGED <<pc, createVars, lxc, abandoned>> /\ pc[c] = "alive"
    BY DEF SetAttribute, MayCall
  <1>2. Control /\ Sound(disk) /\ Root(c) \in Path /\ Fulfilled(disk, Root(c), placed[c])
        /\ IsRoot(Root(c))
    BY <1>1, AliveFacts
  <1>3. PICK remote \in Remotes :
          \/ \E owner \in Owners :
               /\ disk' = SetOwnerId(disk, remote, owner, Root(c)).disk
               /\ placed' = IF told(remote)
                    THEN [placed EXCEPT ![c] = Put(placed[c], At(c, remote), owned(remote, owner))] ELSE placed
          \/ \E mode \in Modes :
               /\ disk' = SetMode(disk, remote, mode, Root(c)).disk
               /\ placed' = IF told(remote)
                    THEN [placed EXCEPT ![c] = Put(placed[c], At(c, remote), moded(remote, mode))] ELSE placed
    BY DEF SetAttribute
  <1> DEFINE p == Inside(remote)
             a == KeepInRoot(remote, Root(c))
             t == Followed(disk, a)
             f == placed[c]
             mine == p \in DOMAIN f /\ ~IsLink(disk, a)
  <1>4. remote \in Path
    BY CallsAssumption
  <1>5. At(c, remote) = p /\ a = Root(c) \o p /\ p \in Path /\ Resolved(p) /\ a \in Path
        /\ IsPrefix(Root(c), a)
    <2>1. At(c, remote) = p /\ a = Root(c) \o p /\ p \in Path /\ Resolved(p)
      BY <1>2, <1>4, AtDef
    <2>2. Root(c) \o p \in Path /\ IsPrefix(Root(c), Root(c) \o p)
      <3> HIDE DEF p
      <3> QED  BY <1>2, <2>1, ConcatPath
    <2> QED  BY <2>1, <2>2
  <1>6. p \in DOMAIN f => /\ a \in DOMAIN disk /\ disk[a].ino = a /\ f[p] = StatusAt(disk, a)
    BY <1>2, <1>5 DEF Fulfilled
  <1>7. told(remote) <=> mine
    BY <1>5
  <1>8. t \in Path
    <2> HIDE DEF a
    <2> QED  BY <1>2, <1>5, FollowedDef
  <1>9. ASSUME NEW owner \in Owners, disk' = SetOwnerId(disk, remote, owner, Root(c)).disk,
               placed' = IF told(remote)
                    THEN [placed EXCEPT ![c] = Put(placed[c], At(c, remote), owned(remote, owner))] ELSE placed
        PROVE  ContainerInv' /\ StaysInRoot(c)
    <2> DEFINE file == owned(remote, owner)
               r == Chown(disk, t, owner)
    <2>1. r = Chown(disk, t, owner) /\ disk' = r.disk /\ owner \in Text
      BY <1>9, CallsAssumption DEF SetOwnerId
    <2>7. IsLink(disk, t) => disk' = disk
      BY <2>1 DEF Chown, Failed
    <2> HIDE DEF r
    <2>2. /\ Only(disk, r.disk, t)
          /\ r.ok <=> t \in DOMAIN disk /\ ~IsLink(disk, t)
          /\ r.ok => r.disk[t] = Node(disk[t].kind, owner, WithoutSetId(disk[t].kind, disk[t].mode),
                                      disk[t].data, disk[t].ino)
      <3> HIDE DEF t
      <3> QED  BY <1>2, <1>8, <2>1, ChownDef
    <2>8. /\ Only(disk, disk', a)
          /\ a \in DOMAIN disk /\ ~IsLink(disk, a) => t = a
          /\ a \in DOMAIN disk /\ IsLink(disk, a) /\ disk[a].ino = a => disk'[a] = disk[a]
      <3>1. t = Followed(disk, a)
        OBVIOUS
      <3> HIDE DEF a, t
      <3>2. Only(disk, disk', t)
        BY <2>1, <2>2
      <3>3. Sound(disk) /\ IsRoot(Root(c)) /\ a \in Path /\ IsPrefix(Root(c), a)
        BY <1>2, <1>5
      <3> QED  BY <2>7, <3>1, <3>2, <3>3, AttributeOf
    <2>3. ASSUME mine  PROVE file = StatusAt(disk', a)
      <3>1. t = a /\ a \in DOMAIN disk /\ ~IsLink(disk, a)
        BY <2>3, <1>6, <2>8
      <3> DEFINE m == WithoutSetId(disk[a].kind, disk[a].mode)
      <3>2. disk'[a] = Node(disk[a].kind, owner, m, disk[a].data, disk[a].ino)
        BY <2>1, <2>2, <3>1
      <3>3. f[p] = [owner |-> disk[a].owner, mode |-> disk[a].mode, data |-> disk[a].data]
        BY <2>3, <1>6 DEF StatusAt
      <3>4. disk'[a].owner = owner /\ disk'[a].mode = m /\ disk'[a].data = disk[a].data
        BY <3>2 DEF Node
      <3>5. file = [f[p] EXCEPT !.owner = owner, !.mode = WithoutSetId(disk[a].kind, @)]
        <4>1. FileStatus(disk, remote, Root(c)) = disk[a]
          BY <3>1 DEF FileStatus
        <4> QED  BY <1>5, <4>1
      <3>6. file = [owner |-> owner, mode |-> m, data |-> disk[a].data]
        <4> DEFINE one == [f[p] EXCEPT !.owner = owner]
                   bits(mode) == WithoutSetId(disk[a].kind, mode)
                   both == [f[p] EXCEPT !.owner = owner, !.mode = WithoutSetId(disk[a].kind, @)]
        <4>1. one = [owner |-> owner, mode |-> disk[a].mode, data |-> disk[a].data]
          BY <3>3
        <4>2. both = [one EXCEPT !.mode = bits(@)]
          OBVIOUS
        <4>3. m = bits(disk[a].mode)
          OBVIOUS
        <4>4. file = both
          BY <3>5
        <4> HIDE DEF one, file, m, bits, both
        <4> QED  BY <4>1, <4>2, <4>3, <4>4
      <3> HIDE DEF m, file
      <3> QED  BY <3>4, <3>6 DEF StatusAt
    <2>4. placed' = IF mine THEN [placed EXCEPT ![c] = Put(placed[c], p, file)] ELSE placed
      <3> HIDE DEF p, mine
      <3> QED  BY <1>5, <1>7, <1>9
    <2>6. /\ Only(disk, disk', Root(c) \o p) /\ mine \in BOOLEAN
          /\ mine => p \in DOMAIN placed[c] /\ file = StatusAt(disk', Root(c) \o p)
          /\ ~mine /\ p \in DOMAIN placed[c] => disk'[Root(c) \o p] = disk[Root(c) \o p]
      BY <1>5, <1>6, <2>3, <2>8
    <2> HIDE DEF file, p, a, mine
    <2> QED  BY <1>1, <1>5, <2>4, <2>6, AttributeStep
  <1>10. ASSUME NEW mode \in Modes, disk' = SetMode(disk, remote, mode, Root(c)).disk,
                placed' = IF told(remote)
                    THEN [placed EXCEPT ![c] = Put(placed[c], At(c, remote), moded(remote, mode))] ELSE placed
         PROVE  ContainerInv' /\ StaysInRoot(c)
    <2> DEFINE file == moded(remote, mode)
               r == Chmod(disk, t, mode)
    <2>1. r = Chmod(disk, t, mode) /\ disk' = r.disk /\ mode \in Text
      BY <1>10, CallsAssumption DEF SetMode
    <2>7. IsLink(disk, t) => disk' = disk
      BY <2>1 DEF Chmod, Failed
    <2> HIDE DEF r
    <2>2. /\ Only(disk, r.disk, t)
          /\ r.ok <=> t \in DOMAIN disk /\ ~IsLink(disk, t)
          /\ r.ok => r.disk[t] = Node(disk[t].kind, disk[t].owner, mode, disk[t].data, disk[t].ino)
      <3> HIDE DEF t
      <3> QED  BY <1>2, <1>8, <2>1, ChmodDef
    <2>8. /\ Only(disk, disk', a)
          /\ a \in DOMAIN disk /\ ~IsLink(disk, a) => t = a
          /\ a \in DOMAIN disk /\ IsLink(disk, a) /\ disk[a].ino = a => disk'[a] = disk[a]
      <3>1. t = Followed(disk, a)
        OBVIOUS
      <3> HIDE DEF a, t
      <3>2. Only(disk, disk', t)
        BY <2>1, <2>2
      <3>3. Sound(disk) /\ IsRoot(Root(c)) /\ a \in Path /\ IsPrefix(Root(c), a)
        BY <1>2, <1>5
      <3> QED  BY <2>7, <3>1, <3>2, <3>3, AttributeOf
    <2>3. ASSUME mine  PROVE file = StatusAt(disk', a)
      <3>1. t = a /\ a \in DOMAIN disk /\ ~IsLink(disk, a)
        BY <2>3, <1>6, <2>8
      <3>2. disk'[a] = Node(disk[a].kind, disk[a].owner, mode, disk[a].data, disk[a].ino)
        BY <2>1, <2>2, <3>1
      <3>3. f[p] = [owner |-> disk[a].owner, mode |-> disk[a].mode, data |-> disk[a].data]
        BY <2>3, <1>6 DEF StatusAt
      <3>4. /\ disk'[a].owner = disk[a].owner /\ disk'[a].mode = mode
            /\ disk'[a].data = disk[a].data
        BY <3>2 DEF Node
      <3>5. file = [f[p] EXCEPT !.mode = mode]
        BY <1>5
      <3> QED  BY <3>3, <3>4, <3>5 DEF StatusAt
    <2>4. placed' = IF mine THEN [placed EXCEPT ![c] = Put(placed[c], p, file)] ELSE placed
      <3> HIDE DEF p, mine
      <3> QED  BY <1>5, <1>7, <1>10
    <2>6. /\ Only(disk, disk', Root(c) \o p) /\ mine \in BOOLEAN
          /\ mine => p \in DOMAIN placed[c] /\ file = StatusAt(disk', Root(c) \o p)
          /\ ~mine /\ p \in DOMAIN placed[c] => disk'[Root(c) \o p] = disk[Root(c) \o p]
      BY <1>5, <1>6, <2>3, <2>8
    <2> HIDE DEF file, p, a, mine
    <2> QED  BY <1>1, <1>5, <2>4, <2>6, AttributeStep
  <1> QED  BY <1>3, <1>9, <1>10

-----------------------------------------------------------------------------
(* The start, and the whole of Container. *)

\* The host before any container.
LEMMA HostSound == Sound(Host) /\ \A p \in DOMAIN Host : p # <<>> => IsHostPath(p)
  BY HostAssumption

LEMMA InitSound ==
  ASSUME ContainerInit
  PROVE  /\ Sound(disk)
         /\ \A n \in Names : <<n>> \in DOMAIN disk <=> n \in Foreign
  <1> DEFINE new == {<<n>> : n \in Foreign}
             made(p) == Node("dir", "root", Umasked, <<>>, p)
             x == Over(Host, [p \in new |-> made(p)])
  <1>1. disk = x
    BY DEF ContainerInit
  <1>2. /\ \A q : q \in DOMAIN x <=> q \in DOMAIN Host \/ q \in new
        /\ \A q \in DOMAIN Host : x[q] = Host[q]
        /\ \A q \in new : q \notin DOMAIN Host => x[q] = made(q)
    BY DEF Over
  <1>3. \A q \in new : \E n \in Foreign : q = <<n>>
    OBVIOUS
  <1>4. Sound(Host) /\ \A p \in DOMAIN Host : p # <<>> => IsHostPath(p)
    BY HostSound
  <1>5. \A q \in new : q \in Path /\ q # <<>> /\ ~IsHostPath(q) /\ q \notin DOMAIN Host
    <2>1. ASSUME NEW n \in Foreign  PROVE <<n>> \in Path /\ <<n>> # <<>> /\ ~IsHostPath(<<n>>)
      <3>1. n \in Names
        BY NamesAreText
      <3> QED  BY <3>1, NamePath, UnderName
    <2> QED  BY <2>1, <1>3, <1>4
  <1>6. \A q \in new : /\ made(q) \in Nodes /\ made(q).kind = "dir" /\ made(q).data = <<>>
                       /\ made(q).ino = q
    BY <1>4, <1>5, SoundRoot, TextsAssumption DEF Node, Nodes, Kind, Umasked
  <1> HIDE DEF x, made
  <1>7. Sound(x)
    <2>1. <<>> \in DOMAIN x /\ x[<<>>].kind = "dir"
      BY <1>2, <1>4, SoundRoot
    <2>2. ASSUME NEW q \in DOMAIN x
          PROVE  /\ q \in Path /\ x[q] \in Nodes
                 /\ x[q].kind = "dir" => x[q].data = <<>>
                 /\ x[q].ino = q \/ IsHostPath(x[q].ino)
                 /\ x[q].kind = "link" => x[q].data \in Leads
      <3>1. CASE q \in DOMAIN Host
        BY <3>1, <1>2, <1>4, SoundNode
      <3>2. CASE q \notin DOMAIN Host
        BY <3>2, <1>2, <1>5, <1>6
      <3> QED  BY <3>1, <3>2
    <2>3. ASSUME NEW q \in DOMAIN x, NEW a \in Path, IsPrefix(a, q), a # q
          PROVE  a \in DOMAIN x /\ x[a].kind = "dir"
      <3>1. CASE q \in DOMAIN Host
        BY <2>3, <3>1, <1>2, <1>4, SoundNode
      <3>2. CASE q \notin DOMAIN Host
        <4>1. PICK n \in Foreign : q = <<n>>
          BY <3>2, <1>2, <1>3
        <4>2. a = <<>>
          BY <2>3, <4>1, NamesAreText, FirstName
        <4> QED  BY <4>2, <2>1
      <3> QED  BY <3>1, <3>2
    <2> QED  BY <2>1, <2>2, <2>3, SoundIf
  <1>8. ASSUME NEW n \in Names  PROVE <<n>> \in DOMAIN x <=> n \in Foreign
    <2>1. <<n>> \notin DOMAIN Host
      BY <1>4, NamePath, UnderName
    <2>2. <<n>> \in new <=> n \in Foreign
      OBVIOUS
    <2> QED  BY <2>1, <2>2, <1>2
  <1> QED  BY <1>1, <1>7, <1>8

\* The invariant holds at the start.
LEMMA InitInvariant ==
  ASSUME ContainerInit
  PROVE  ContainerInv
  <1>1. Sound(disk) /\ \A n \in Names : <<n>> \in DOMAIN disk <=> n \in Foreign
    BY InitSound
  <1>2. \A c \in Clients : /\ pc[c] = "idle" /\ left[c] = 0 /\ dir[c] = "" /\ conf[c] = NoConfig
                           /\ placed[c] = <<>>
    BY DEF ContainerInit
  <1>3. LxcOK(NoConfig.lxc) /\ FilesOK(NoConfig.files)
    <2>1. NoConfig.lxc.mount = {} /\ NoConfig.files = <<>>
      BY DEF NoConfig
    <2>2. <<>> \in Seq(Entry)
      OBVIOUS
    <2> QED  BY <2>1, <2>2 DEF LxcOK, FilesOK
  <1>4. Control
    <2>1. 0 \in 0 .. Attempts /\ 0 \in 0 .. MaxCalls
      <3>1. MaxCalls \in Nat
        BY NamesAssumption
      <3> QED  BY <3>1, AttemptsAre
    <2>2. /\ pc \in [Clients -> {"idle", "naming", "constructing", "undo", "filling", "alive",
                           "destroying", "removing", "gone", "failed"}]
          /\ left \in [Clients -> 0 .. Attempts]
          /\ dir \in [Clients -> Names \cup {""}]
          /\ lxc \in [Clients -> {"STOPPED", "starting", "RUNNING", "FROZEN"}]
          /\ calls \in [Clients -> 0 .. MaxCalls]
          /\ abandoned \subseteq Names \ Foreign
      BY <2>1 DEF ContainerInit
    <2>3. conf = [c \in Clients |-> conf[c]] /\ placed = [c \in Clients |-> placed[c]]
      BY DEF ContainerInit
    <2>4. ASSUME NEW c \in Clients
          PROVE /\ LxcOK(conf[c].lxc) /\ FilesOK(conf[c].files)
                /\ pc[c] = "naming" => left[c] # 0
                /\ \A p \in DOMAIN placed[c] : DOMAIN placed[c][p] = {"owner", "mode", "data"}
      <3>1. LxcOK(conf[c].lxc) /\ FilesOK(conf[c].files) /\ pc[c] # "naming"
        BY <1>2, <1>3
      <3>2. placed[c] = <<>>
        BY <1>2
      <3> QED  BY <3>1, <3>2
    <2> QED  BY <2>2, <2>3, <2>4 DEF Control
  <1>5. Ownership
    <2>1. \A c \in Clients : ~Holding(c)
      BY <1>2 DEF Holding
    <2>2. abandoned = {}
      BY DEF ContainerInit
    <2> QED  BY <1>1, <2>1, <2>2, NamesAreText DEF Ownership
  <1>6. \A c \in Clients : ClientOK(disk, pc[c], dir[c], placed[c])
    BY <1>2 DEF ClientOK
  <1> QED  BY <1>1, <1>4, <1>5, <1>6 DEF ContainerInv

LEMMA LxcStateKeeps ==
  ASSUME ContainerInv, NEW c \in Clients,
         NEW state \in {"STOPPED", "starting", "RUNNING", "FROZEN"},
         lxc' = [lxc EXCEPT ![c] = state],
         UNCHANGED <<disk, pc, createVars, useVars, abandoned>>
  PROVE  ContainerInv' /\ StaysInRoot(c)
  <1>1. Control
    BY DEF ContainerInv
  <1>2. StateOK(pc[c], left[c], dir[c], conf[c], state, calls[c], placed[c])
    BY <1>1, Same DEF StateOK
  <1>3. UNCHANGED <<left, dir, conf, calls, placed, abandoned>> /\ pc' = [pc EXCEPT ![c] = pc[c]]
        /\ pc' = pc
    BY <1>1, Same DEF createVars, useVars
  <1>4. Control' /\ StepOf(c)
    BY <1>1, <1>2, <1>3, ControlGoes
  <1>5. Holding(c)' <=> Holding(c)
    BY <1>3 DEF Holding
  <1> QED  BY <1>3, <1>4, <1>5, IdleStep

\* A client that has no more use for its container.
LEMMA LeavesKeeps ==
  ASSUME ContainerInv, NEW c \in Clients,
         NEW at, NEW state \in {"STOPPED", "starting", "RUNNING", "FROZEN"},
         pc[c] \in {"alive", "destroying"}, at \in {"destroying", "removing"},
         pc' = [pc EXCEPT ![c] = at], lxc' = [lxc EXCEPT ![c] = state],
         UNCHANGED <<disk, createVars, useVars, abandoned>>
  PROVE  ContainerInv' /\ StaysInRoot(c)
  <1>1. Control
    BY DEF ContainerInv
  <1>2. StateOK(at, left[c], dir[c], conf[c], state, calls[c], placed[c])
    BY <1>1, Same DEF StateOK
  <1>3. UNCHANGED <<left, dir, conf, calls, placed, abandoned>>
    BY DEF createVars, useVars
  <1>4. Control' /\ StepOf(c) /\ pc'[c] = at
    BY <1>1, <1>2, <1>3, ControlGoes
  <1>5. Holding(c)' <=> Holding(c)
    BY <1>4 DEF Holding
  <1>6. pc'[c] \notin {"constructing", "filling", "alive"}
    BY <1>4
  <1> QED  BY <1>3, <1>4, <1>5, <1>6, IdleStep

LEMMA Kill ==
  ASSUME NEW state \in {"STOPPED", "starting", "RUNNING", "FROZEN"}
  PROVE  Killed(state) \in {"STOPPED", "starting", "RUNNING", "FROZEN"}
  BY DEF Killed

LEMMA LxcStates ==
  ASSUME ContainerInv, NEW c \in Clients
  PROVE  lxc[c] \in {"STOPPED", "starting", "RUNNING", "FROZEN"}
  BY Same DEF ContainerInv, StateOK

LEMMA SetLxcKeeps ==
  ASSUME ContainerInv, NEW c \in Clients, ComesUp(c) \/ Freeze(c) \/ Unfreeze(c)
  PROVE  ContainerInv' /\ StaysInRoot(c)
  <1>1. PICK state \in {"RUNNING", "FROZEN"} : SetLxc(c, state)
    BY DEF ComesUp, Freeze, Unfreeze
  <1> QED  BY <1>1, LxcStateKeeps DEF SetLxc

LEMMA DropKeeps ==
  ASSUME ContainerInv, NEW c \in Clients, Drop(c)
  PROVE  ContainerInv' /\ StaysInRoot(c)
  <1> DEFINE at == "destroying"
             state == Killed(lxc[c])
  <1>1. /\ pc[c] \in {"alive", "destroying"} /\ at \in {"destroying", "removing"}
        /\ pc' = [pc EXCEPT ![c] = at] /\ lxc' = [lxc EXCEPT ![c] = state]
        /\ UNCHANGED <<disk, createVars, useVars, abandoned>>
    BY DEF Drop, Goto
  <1>2. state \in {"STOPPED", "starting", "RUNNING", "FROZEN"}
    BY LxcStates, Kill
  <1> HIDE DEF at, state
  <1> QED  BY <1>1, <1>2, LeavesKeeps

LEMMA DestroyStopsKeeps ==
  ASSUME ContainerInv, NEW c \in Clients, DestroyStops(c)
  PROVE  ContainerInv' /\ StaysInRoot(c)
  <1> DEFINE at == "removing"
  <1>1. PICK state \in {"STOPPED", "RUNNING", lxc[c]} : lxc' = [lxc EXCEPT ![c] = state]
    BY DEF DestroyStops
  <1>2. /\ pc[c] \in {"alive", "destroying"} /\ at \in {"destroying", "removing"}
        /\ pc' = [pc EXCEPT ![c] = at]
        /\ UNCHANGED <<disk, createVars, useVars, abandoned>>
    BY DEF DestroyStops, Goto
  <1>3. state \in {"STOPPED", "starting", "RUNNING", "FROZEN"}
    BY LxcStates
  <1> HIDE DEF at
  <1> QED  BY <1>1, <1>2, <1>3, LeavesKeeps

\* Every step of Container keeps the invariant.
LEMMA ContainerStepKeeps ==
  ASSUME ContainerInv, NEW c \in Clients,
         \/ Creation(c) \/ FileCalls(c) \/ Drop(c) \/ ComesUp(c) \/ Freeze(c) \/ Unfreeze(c)
         \/ Destruction(c)
  PROVE  ContainerInv' /\ StaysInRoot(c)
  <1>1. CASE Creation(c)
    BY <1>1, CreateContainerKeeps, TryNameKeeps, NamingFailsKeeps, ConstructLxcKeeps, UndoKeeps,
       ConfiguredFilesKeeps DEF Creation
  <1>2. CASE FileCalls(c)
    BY <1>2, PushFileKeeps, PushFileLinkKeeps, SetAttributeKeeps, PullFileKeeps DEF FileCalls
  <1>3. CASE Drop(c)
    BY <1>3, DropKeeps
  <1>4. CASE ComesUp(c) \/ Freeze(c) \/ Unfreeze(c)
    BY <1>4, SetLxcKeeps
  <1>5. CASE Destruction(c)
    BY <1>5, DestroyStopsKeeps, DestroyRemovesKeeps DEF Destruction
  <1> QED  BY <1>1, <1>2, <1>3, <1>4, <1>5

LEMMA StutterKeeps ==
  ASSUME ContainerInv, UNCHANGED containerVars
  PROVE  ContainerInv' /\ \A c \in Clients : StaysInRoot(c)
  <1>1. UNCHANGED <<disk, pc, left, dir, conf, lxc, calls, placed, abandoned>>
    BY DEF containerVars, createVars, useVars
  <1>2. \A c \in Clients : StaysInRoot(c)
    BY <1>1 DEF StaysInRoot, Untouched
  <1>3. Control' /\ Ownership' /\ Sound(disk')
    BY <1>1 DEF ContainerInv, Control, Ownership, Holding
  <1>4. \A c \in Clients : ClientOK(disk', pc'[c], dir'[c], placed'[c])
    BY <1>1 DEF ContainerInv
  <1> QED  BY <1>2, <1>3, <1>4 DEF ContainerInv

\* The invariant implies the properties the runs check.
LEMMA OwnersFollow ==
  ASSUME ContainerInv
  PROVE  OneOwnerEach
  <1> DEFINE holders == {c \in Clients : Holding(c)}
             firsts == {p[1] : p \in DOMAIN disk \ {<<>>}}
  <1>1. \A n \in Names : n \in firsts <=> <<n>> \in DOMAIN disk
    <2>1. ASSUME NEW n \in Names, NEW p \in DOMAIN disk \ {<<>>}, p[1] = n  PROVE <<n>> \in DOMAIN disk
      <3>1. p \in Path /\ Sound(disk)
        BY SoundNode DEF ContainerInv
      <3>2. IsPrefix(<<n>>, p) /\ <<n>> \in Path
        BY <2>1, <3>1, NamesAreText, FirstName
      <3>3. CASE p = <<n>>
        BY <3>3
      <3>4. CASE p # <<n>>
        BY <3>1, <3>2, <3>4, SoundNode
      <3> QED  BY <3>3, <3>4
    <2>2. ASSUME NEW n \in Names, <<n>> \in DOMAIN disk  PROVE n \in firsts
      <3>1. <<n>> # <<>> /\ <<n>>[1] = n
        OBVIOUS
      <3> QED  BY <2>2, <3>1
    <2> QED  BY <2>1, <2>2
  <1> HIDE DEF firsts
  <1>2. firsts \cap (Names \ Foreign) = {dir[c] : c \in holders} \cup abandoned
    <2>1. \A n \in Names \ Foreign :
            n \in firsts <=> n \in abandoned \/ \E c \in Clients : Holding(c) /\ dir[c] = n
      BY <1>1 DEF ContainerInv, Ownership
    <2>2. abandoned \subseteq Names \ Foreign
      BY DEF ContainerInv, Control
    <2>3. \A c \in Clients : Holding(c) => dir[c] \in Names \ Foreign
      BY DEF ContainerInv, Ownership
    <2>4. \A n : n \in {dir[c] : c \in holders} <=> \E c \in Clients : Holding(c) /\ dir[c] = n
      OBVIOUS
    <2> HIDE DEF holders
    <2> QED  BY <2>1, <2>2, <2>3, <2>4
  <1>3. \A c, other \in holders : dir[c] = dir[other] => c = other
    BY DEF ContainerInv, Ownership
  <1>4. \A c \in holders : dir[c] \notin Foreign \cup abandoned
    BY DEF ContainerInv, Ownership
  <1> QED  BY <1>2, <1>3, <1>4 DEF OneOwnerEach, firsts

LEMMA FilesFollow ==
  ASSUME ContainerInv
  PROVE  FilesAsAsked
  <1> SUFFICES ASSUME NEW c \in Clients, pc[c] = "alive"
               PROVE  /\ disk[<<dir[c], "config">>].data = Root(c)
                      /\ \A p \in DOMAIN placed[c] :
                           /\ Exists(disk, Root(c) \o p)
                           /\ placed[c][p] = StatusAt(disk, Root(c) \o p)
    BY DEF FilesAsAsked, StatusAt
  <1>1. disk[<<dir[c], "config">>].data = Root(c)
    BY DEF ContainerInv, ClientOK, Root
  <1>2. Fulfilled(disk, Root(c), placed[c])
    BY AliveFacts
  <1> QED  BY <1>1, <1>2 DEF Fulfilled, Exists

LEMMA TypesFollow ==
  ASSUME ContainerInv
  PROVE  ContainerTypeOK
  <1>1. \A c \in Clients : Holding(c) => dir[c] # ""
    BY NamesAreText DEF ContainerInv, Ownership
  <1> QED  BY <1>1 DEF ContainerInv, Control, ContainerTypeOK

LEMMA RootsFollow ==
  ASSUME NEW actor, StaysInRoot(actor)
  PROVE  \A p \in DOMAIN disk :
        LET beside == \E c \in Clients :
              pc[c] = "alive" /\ pc'[c] = "alive" /\ p # Root(c)
              /\ IsPrefix(<<dir[c]>>, p) /\ ~IsPrefix(Root(c), p)
            theirs == p # <<>> /\ p[1] \notin Names \ Foreign /\ Clear(p)
        IN  (beside \/ theirs) =>
              p \in DOMAIN disk' /\ disk'[p].kind = disk[p].kind /\ disk'[p].data = disk[p].data
  BY DEF StaysInRoot, Beside, Theirs, Untouched
=============================================================================
