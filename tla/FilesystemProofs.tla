------------------------- MODULE FilesystemProofs -------------------------
(***************************************************************************)
(* What the operations on a disk do, for every disk, path and root: where  *)
(* a change may reach and what it leaves.  A fold over the components of a *)
(* path is taken apart by FoldTheorems.                                    *)
(***************************************************************************)
EXTENDS Container, SequenceTheorems, TLAPS

-----------------------------------------------------------------------------
(* Paths and their prefixes. *)

LEMMA PathLen ==
  ASSUME NEW s \in Path
  PROVE  Len(s) \in Nat /\ DOMAIN s = 1 .. Len(s) /\ \A i \in 1 .. Len(s) : s[i] \in Text
  BY DEF Path

\* IsPrefix, component by component.
LEMMA PrefixDef ==
  ASSUME NEW s \in Path, NEW t \in Path
  PROVE  IsPrefix(s, t) <=> Len(s) <= Len(t) /\ \A i \in 1 .. Len(s) : s[i] = t[i]
  <1>1. SubSeq(s, 1, Len(s)) = s
    BY SubSeqFull DEF Path
  <1>2. ASSUME Len(s) <= Len(t)
        PROVE  /\ SubSeq(t, 1, Len(s)) \in Path
               /\ Len(SubSeq(t, 1, Len(s))) = Len(s)
               /\ \A i \in 1 .. Len(s) : SubSeq(t, 1, Len(s))[i] = t[i]
    <2>1. Len(s) \in Int /\ 1 \in Int /\ \A i \in 1 .. Len(s) : t[i] \in Text
      BY <1>2, PathLen
    <2>2. /\ SubSeq(t, 1, Len(s)) \in Seq(Text)
          /\ Len(SubSeq(t, 1, Len(s))) = IF 1 <= Len(s) THEN Len(s) - 1 + 1 ELSE 0
          /\ \A i \in 1 .. Len(s) - 1 + 1 : SubSeq(t, 1, Len(s))[i] = t[1 + i - 1]
      BY <2>1, SubSeqProperties
    <2> QED  BY <2>2, PathLen DEF Path
  <1>3. CASE Len(s) <= Len(t)
    <2>1. s = SubSeq(t, 1, Len(s)) <=> \A i \in 1 .. Len(s) : s[i] = t[i]
      <3>1. ASSUME \A i \in 1 .. Len(s) : s[i] = t[i]
            PROVE  s = SubSeq(t, 1, Len(s))
        BY <1>2, <1>3, <3>1, SeqEqual DEF Path
      <3> QED  BY <3>1, <1>2, <1>3
    <2> QED  BY <1>1, <1>3, <2>1 DEF IsPrefix
  <1> QED  BY <1>3 DEF IsPrefix

LEMMA PathEqual ==
  ASSUME NEW s \in Path, NEW t \in Path, Len(s) = Len(t), \A i \in 1 .. Len(s) : s[i] = t[i]
  PROVE  s = t
  BY SeqEqual DEF Path

\* Prefixes are ordered, and those of one path form a chain.
LEMMA PrefixOrder ==
  ASSUME NEW s \in Path, NEW t \in Path, NEW u \in Path
  PROVE  /\ IsPrefix(s, s)
         /\ IsPrefix(s, t) /\ IsPrefix(t, u) => IsPrefix(s, u)
         /\ IsPrefix(s, t) /\ IsPrefix(t, s) => s = t
         /\ IsPrefix(s, u) /\ IsPrefix(t, u) => IsPrefix(s, t) \/ IsPrefix(t, s)
  <1>1. /\ IsPrefix(s, s)
        /\ IsPrefix(s, t) /\ IsPrefix(t, u) => IsPrefix(s, u)
        /\ IsPrefix(s, u) /\ IsPrefix(t, u) => IsPrefix(s, t) \/ IsPrefix(t, s)
    BY PrefixDef, PathLen
  <1>2. ASSUME IsPrefix(s, t), IsPrefix(t, s)  PROVE s = t
    BY <1>2, PrefixDef, PathLen, PathEqual
  <1> QED  BY <1>1, <1>2

LEMMA PrefixesDef ==
  ASSUME NEW p \in Path
  PROVE  \A q : q \in Prefixes(p) <=> q \in Path /\ IsPrefix(q, p)
  <1>1. ASSUME NEW l \in 0 .. Len(p)
        PROVE  /\ SubSeq(p, 1, l) \in Path /\ Len(SubSeq(p, 1, l)) = l
               /\ \A i \in 1 .. l : SubSeq(p, 1, l)[i] = p[i]
    <2>1. l \in Int /\ 1 \in Int /\ \A i \in 1 .. l : p[i] \in Text
      BY PathLen
    <2>2. /\ SubSeq(p, 1, l) \in Seq(Text)
          /\ Len(SubSeq(p, 1, l)) = IF 1 <= l THEN l - 1 + 1 ELSE 0
          /\ \A i \in 1 .. l - 1 + 1 : SubSeq(p, 1, l)[i] = p[1 + i - 1]
      BY <2>1, SubSeqProperties
    <2>3. l \in Nat
      BY PathLen
    <2> QED  BY <2>2, <2>3 DEF Path
  <1>2. ASSUME NEW q \in Prefixes(p)  PROVE q \in Path /\ IsPrefix(q, p)
    <2>1. PICK l \in 0 .. Len(p) : q = SubSeq(p, 1, l)
      BY DEF Prefixes
    <2>2. q \in Path /\ Len(q) = l /\ \A i \in 1 .. l : q[i] = p[i]
      BY <1>1, <2>1
    <2>3. l <= Len(p)
      BY PathLen
    <2> QED  BY <2>2, <2>3, PrefixDef
  <1>3. ASSUME NEW q \in Path, IsPrefix(q, p)  PROVE q \in Prefixes(p)
    <2>1. Len(q) \in 0 .. Len(p) /\ \A i \in 1 .. Len(q) : q[i] = p[i]
      BY <1>3, PrefixDef, PathLen
    <2>2. q = SubSeq(p, 1, Len(q))
      <3> DEFINE r == SubSeq(p, 1, Len(q))
      <3>1. r \in Path /\ Len(r) = Len(q) /\ \A i \in 1 .. Len(q) : r[i] = q[i]
        BY <1>1, <2>1
      <3> HIDE DEF r
      <3>2. q = r
        BY <3>1, PathEqual
      <3> QED  BY <3>2 DEF r
    <2> QED  BY <2>1, <2>2 DEF Prefixes
  <1> QED  BY <1>2, <1>3

\* parent_path().
LEMMA FrontDef ==
  ASSUME NEW p \in Path
  PROVE  /\ Front(p) \in Path /\ IsPrefix(Front(p), p)
         /\ \A q \in Path : IsPrefix(q, p) /\ q # p => IsPrefix(q, Front(p))
         /\ p # <<>> => Front(p) # p
         /\ p = <<>> => Front(p) = <<>>
         /\ p # <<>> => Len(Front(p)) = Len(p) - 1
         /\ \A i \in 1 .. Len(p) - 1 : Front(p)[i] = p[i]
  <1>1. Len(p) - 1 \in Int /\ 1 \in Int /\ \A i \in 1 .. Len(p) - 1 : p[i] \in Text
    BY PathLen
  <1>2. /\ Front(p) \in Seq(Text)
        /\ Len(Front(p)) = IF 1 <= Len(p) - 1 THEN Len(p) - 1 - 1 + 1 ELSE 0
        /\ \A i \in 1 .. Len(p) - 1 - 1 + 1 : Front(p)[i] = p[1 + i - 1]
    BY <1>1, SubSeqProperties DEF Front
  <1>3. p # <<>> => Len(p) > 0
    BY PathLen, EmptySeq DEF Path
  <1>4. Front(p) \in Path /\ \A i \in 1 .. Len(p) - 1 : Front(p)[i] = p[i]
    BY <1>2, PathLen DEF Path
  <1>5. ASSUME p # <<>>  PROVE Len(Front(p)) = Len(p) - 1
    <2>1. Len(p) \in Nat /\ Len(p) > 0
      BY <1>3, <1>5, PathLen
    <2>2. Len(Front(p)) = IF 1 <= Len(p) - 1 THEN Len(p) - 1 - 1 + 1 ELSE 0
      BY <1>2
    <2> DEFINE n == Len(p)
               m == Len(Front(p))
    <2>3. n \in Nat /\ n > 0 /\ m = IF 1 <= n - 1 THEN n - 1 - 1 + 1 ELSE 0
      BY <2>1, <2>2
    <2> HIDE DEF n, m
    <2>4. m = n - 1
      BY <2>3
    <2> QED  BY <2>4 DEF n, m
  <1>6. p = <<>> => Front(p) = <<>>
    <2>1. p = <<>> => Len(p) = 0 /\ Len(Front(p)) = 0
      BY <1>2, EmptySeq
    <2> QED  BY <2>1, <1>4, EmptySeq, PathEqual DEF Path
  <1>7. IsPrefix(Front(p), p)
    <2>1. CASE p = <<>>
      BY <2>1, <1>6, PrefixOrder
    <2>2. CASE p # <<>>
      BY <2>2, <1>4, <1>5, PrefixDef, PathLen
    <2> QED  BY <2>1, <2>2
  <1>8. ASSUME NEW q \in Path, IsPrefix(q, p), q # p  PROVE IsPrefix(q, Front(p))
    <2>1. Len(q) <= Len(p) /\ \A i \in 1 .. Len(q) : q[i] = p[i]
      BY <1>8, PrefixDef
    <2>2. Len(q) # Len(p)
      BY <2>1, <1>8, PathEqual
    <2>3. Len(q) <= Len(p) - 1 /\ p # <<>>
      BY <2>1, <2>2, PathLen, EmptySeq
    <2> QED  BY <2>1, <2>3, <1>4, <1>5, PrefixDef, PathLen
  <1>9. p # <<>> => Front(p) # p
    BY <1>5, PathLen
  <1> QED  BY <1>4, <1>5, <1>6, <1>7, <1>8, <1>9

-----------------------------------------------------------------------------
(* Paths below a root. *)

LEMMA ShortSeq ==
  ASSUME NEW S, NEW n \in S, NEW m \in S
  PROVE  <<>> \in Seq(S) /\ <<n>> \in Seq(S) /\ <<n, m>> \in Seq(S)
  OBVIOUS

LEMMA ConcatPath ==
  ASSUME NEW r \in Path, NEW k \in Path
  PROVE  /\ r \o k \in Path /\ Len(r \o k) = Len(r) + Len(k)
         /\ \A i \in 1 .. Len(r) : (r \o k)[i] = r[i]
         /\ \A i \in 1 .. Len(k) : (r \o k)[Len(r) + i] = k[i]
         /\ IsPrefix(r, r \o k)
         /\ <<>> \o k = k
  <1>1. /\ r \o k \in Path /\ Len(r \o k) = Len(r) + Len(k)
        /\ \A i \in 1 .. Len(r) + Len(k) : (r \o k)[i] = IF i <= Len(r) THEN r[i] ELSE k[i - Len(r)]
    BY ConcatProperties DEF Path
  <1>2. Len(r) \in Nat /\ Len(k) \in Nat
    BY PathLen
  <1>3. \A i \in 1 .. Len(r) : (r \o k)[i] = r[i]
    BY <1>1, <1>2
  <1>4. ASSUME NEW i \in 1 .. Len(k)  PROVE (r \o k)[Len(r) + i] = k[i]
    <2> DEFINE j == Len(r) + i
    <2>1. j \in 1 .. Len(r) + Len(k) /\ ~(j <= Len(r)) /\ j - Len(r) = i
      BY <1>2
    <2>2. (r \o k)[j] = IF j <= Len(r) THEN r[j] ELSE k[j - Len(r)]
      BY <1>1, <2>1
    <2> QED  BY <2>1, <2>2
  <1>5. IsPrefix(r, r \o k)
    <2>1. Len(r) <= Len(r \o k)
      BY <1>1, <1>2
    <2>2. \A i \in 1 .. Len(r) : r[i] = (r \o k)[i]
      BY <1>3
    <2>3. r \o k \in Path
      BY <1>1
    <2> QED  BY <2>1, <2>2, <2>3, PrefixDef
  <1>6. <<>> \o k = k
    BY ConcatEmptySeq DEF Path
  <1> QED  BY <1>1, <1>3, <1>4, <1>5, <1>6

\* Appending to a root keeps prefixes apart.
LEMMA PrefixOfConcat ==
  ASSUME NEW r \in Path, NEW k \in Path, NEW x \in Path
  PROVE  /\ IsPrefix(r \o k, r \o x) <=> IsPrefix(k, x)
         /\ r \o k = r \o x => k = x
  <1>1. /\ r \o k \in Path /\ Len(r \o k) = Len(r) + Len(k)
        /\ r \o x \in Path /\ Len(r \o x) = Len(r) + Len(x)
        /\ Len(r) \in Nat /\ Len(k) \in Nat /\ Len(x) \in Nat
    BY ConcatPath, PathLen
  <1>2. ASSUME IsPrefix(r \o k, r \o x)  PROVE IsPrefix(k, x)
    <2>1. /\ Len(r \o k) <= Len(r \o x)
          /\ \A i \in 1 .. Len(r \o k) : (r \o k)[i] = (r \o x)[i]
      BY <1>1, <1>2, PrefixDef
    <2>2. Len(k) <= Len(x)
      BY <1>1, <2>1
    <2>3. ASSUME NEW i \in 1 .. Len(k)  PROVE k[i] = x[i]
      <3>1. Len(r) + i \in 1 .. Len(r \o k) /\ i \in 1 .. Len(x)
        BY <1>1, <2>2
      <3> QED  BY <2>1, <3>1, ConcatPath
    <2> QED  BY <2>2, <2>3, PrefixDef
  <1>3. ASSUME IsPrefix(k, x)  PROVE IsPrefix(r \o k, r \o x)
    <2>1. Len(k) <= Len(x) /\ \A i \in 1 .. Len(k) : k[i] = x[i]
      BY <1>3, PrefixDef
    <2>2. ASSUME NEW i \in 1 .. Len(r \o k)  PROVE (r \o k)[i] = (r \o x)[i]
      <3>1. CASE i \in 1 .. Len(r)
        BY <3>1, ConcatPath
      <3>2. CASE i \notin 1 .. Len(r)
        <4> DEFINE j == i - Len(r)
        <4>1. j \in 1 .. Len(k) /\ j \in 1 .. Len(x) /\ i = Len(r) + j
          BY <1>1, <2>1, <3>2
        <4> HIDE DEF j
        <4> QED  BY <2>1, <4>1, ConcatPath
      <3> QED  BY <3>1, <3>2
    <2>3. Len(r \o k) <= Len(r \o x)
      BY <1>1, <2>1
    <2> DEFINE s == r \o k
               t == r \o x
    <2>4. s \in Path /\ t \in Path /\ Len(s) <= Len(t) /\ \A i \in 1 .. Len(s) : s[i] = t[i]
      BY <1>1, <2>2, <2>3
    <2> HIDE DEF s, t
    <2>5. IsPrefix(s, t)
      BY <2>4, PrefixDef
    <2> QED  BY <2>5 DEF s, t
  <1>4. ASSUME r \o k = r \o x  PROVE k = x
    <2>1. IsPrefix(r \o k, r \o x) /\ IsPrefix(r \o x, r \o k)
      BY <1>1, <1>4, PrefixOrder
    <2>2. IsPrefix(k, x)
      BY <2>1, <1>2
    <2>3. Len(k) = Len(x)
      BY <1>1, <1>4
    <2> QED  BY <2>2, <2>3, PathEqual, PrefixDef
  <1> QED  BY <1>2, <1>3, <1>4

\* containerPath undoes the prepending of the root.
LEMMA ContainerPathDef ==
  ASSUME NEW r \in Path, NEW k \in Path
  PROVE  ContainerPath(r \o k, r) = k
  <1> DEFINE a == Len(r) + 1
             b == Len(r \o k)
  <1>1. /\ Len(r \o k) = Len(r) + Len(k) /\ Len(r) \in Nat /\ Len(k) \in Nat
        /\ \A i \in 1 .. Len(k) : (r \o k)[Len(r) + i] = k[i]
    BY ConcatPath, PathLen
  <1>2. a \in Int /\ b \in Int /\ b - a + 1 = Len(k) /\ (a <= b <=> 1 <= Len(k))
    BY <1>1
  <1>3. ASSUME NEW i \in a .. b  PROVE (r \o k)[i] \in Text
    <2>1. i \in 1 .. Len(r \o k)
      BY <1>1
    <2> QED  BY <2>1, ConcatPath, PathLen
  <1>4. \A i \in 1 .. Len(k) : (r \o k)[a + i - 1] = k[i]
    <2>1. \A i \in 1 .. Len(k) : a + i - 1 = Len(r) + i
      BY <1>1
    <2> QED  BY <1>1, <2>1
  <1> DEFINE s == r \o k
  <1>5. (\A i \in a .. b : s[i] \in Text) /\ \A i \in 1 .. Len(k) : s[a + i - 1] = k[i]
    BY <1>3, <1>4
  <1> HIDE DEF a, b, s
  <1> DEFINE t == SubSeq(s, a, b)
  <1>6. /\ t \in Seq(Text)
        /\ Len(t) = IF a <= b THEN b - a + 1 ELSE 0
        /\ \A i \in 1 .. b - a + 1 : t[i] = s[a + i - 1]
    BY <1>2, <1>5, SubSeqProperties
  <1> HIDE DEF t
  <1>7. Len(t) = Len(k)
    <2>1. Len(k) \in Nat
      BY <1>1
    <2> QED  BY <2>1, <1>2, <1>6
  <1>8. t = k
    BY <1>2, <1>5, <1>6, <1>7, PathEqual DEF Path
  <1> QED  BY <1>8 DEF ContainerPath, a, b, s, t

\* What is under a directory that a name stands for.
LEMMA FirstName ==
  ASSUME NEW n \in Text, NEW p \in Path
  PROVE  /\ <<n>> \in Path /\ <<n>> # <<>> /\ <<n>>[1] = n /\ <<>> \in Path
         /\ IsPrefix(<<n>>, p) <=> p # <<>> /\ p[1] = n
         /\ IsPrefix(p, <<n>>) <=> p = <<>> \/ p = <<n>>
         /\ IsPrefix(<<>>, p)
  <1> DEFINE w == <<n>>
             e == <<>>
  <1>1. w \in Path /\ Len(w) = 1 /\ w[1] = n
    <2>1. Len(<<n>>) = 1
      OBVIOUS
    <2>2. <<n>>[1] = n
      OBVIOUS
    <2>3. <<n>> \in Seq(Text)
      BY ShortSeq
    <2> QED  BY <2>1, <2>2, <2>3 DEF Path
  <1>2. e \in Path /\ Len(e) = 0
    BY EmptySeq DEF Path
  <1>3. p # e <=> Len(p) > 0
    BY <1>2, EmptySeq, PathLen DEF Path
  <1> HIDE DEF w, e
  <1>4. Len(p) \in Nat
    BY PathLen
  <1>5. IsPrefix(w, p) <=> p # e /\ p[1] = n
    <2>1. IsPrefix(w, p) <=> 1 <= Len(p) /\ \A i \in 1 .. 1 : w[i] = p[i]
      BY <1>1, PrefixDef
    <2>2. (\A i \in 1 .. 1 : w[i] = p[i]) <=> w[1] = p[1]
      OBVIOUS
    <2>3. 1 <= Len(p) <=> Len(p) > 0
      BY <1>4
    <2> QED  BY <2>1, <2>2, <2>3, <1>1, <1>3
  <1>6. IsPrefix(e, p)
    BY <1>2, <1>4, PrefixDef
  <1>7. ASSUME IsPrefix(p, w), p # e  PROVE p = w
    <2>1. Len(p) <= 1 /\ \A i \in 1 .. Len(p) : p[i] = w[i]
      BY <1>1, <1>7, PrefixDef
    <2>2. Len(p) = Len(w)
      <3> DEFINE l == Len(p)
      <3>1. l \in Nat /\ l <= 1 /\ l > 0
        BY <2>1, <1>3, <1>4, <1>7
      <3> HIDE DEF l
      <3>2. l = 1
        BY <3>1
      <3> QED  BY <3>2, <1>1 DEF l
    <2> QED  BY <1>1, <2>1, <2>2, PathEqual
  <1>8. IsPrefix(e, w) /\ IsPrefix(w, w)
    BY <1>1, <1>2, PrefixOrder, PrefixDef
  <1>9. w # e
    BY <1>1, <1>2
  <1> QED  BY <1>1, <1>2, <1>5, <1>6, <1>7, <1>8, <1>9 DEF w, e

-----------------------------------------------------------------------------
(* What a change of a disk leaves alone. *)

\* Below a, or where a symbolic link may lead.
Below(a, q) == IsPrefix(a, q) \/ \E v \in Leads : IsPrefix(v, q)

\* On the way to there.
Above(a, q) == IsPrefix(q, a) \/ \E v \in Leads : IsPrefix(q, v)

LEMMA LeadsAre ==
  ASSUME NEW v \in Leads
  PROVE  v \in Path /\ IsHostPath(v)
  BY LeadsAssumption DEF IsHostPath

LEMMA BelowItself ==
  ASSUME NEW a \in Path, NEW q \in Path, IsPrefix(a, q)
  PROVE  Below(a, q)
  BY DEF Below

LEMMA BelowTrans ==
  ASSUME NEW a \in Path, NEW t \in Path, NEW q \in Path, Below(a, t), IsPrefix(t, q)
  PROVE  Below(a, q)
  BY PrefixOrder, LeadsAre DEF Below

\* What leads to a place below a is below it or above it.
LEMMA BelowOrder ==
  ASSUME NEW a \in Path, NEW t \in Path, NEW q \in Path, Below(a, t), IsPrefix(q, t)
  PROVE  Below(a, q) \/ Above(a, q)
  <1>1. CASE IsPrefix(a, t)
    BY <1>1, PrefixOrder DEF Below, Above
  <1>2. CASE \E v \in Leads : IsPrefix(v, t)
    BY <1>2, PrefixOrder, LeadsAre DEF Below, Above
  <1> QED  BY <1>1, <1>2 DEF Below

\* x comes from d by a change below a: whatever is not below a is where it was,
\* and keeps its owner and mode too unless it shares an inode with another name.
Within(d, x, a) ==
  /\ Sound(x)
  /\ \A q \in DOMAIN d : ~Below(a, q) =>
       /\ q \in DOMAIN x
       /\ x[q].kind = d[q].kind /\ x[q].data = d[q].data /\ x[q].ino = d[q].ino
       /\ d[q].ino = q /\ ~IsHostPath(q) => x[q] = d[q]
  /\ \A q \in DOMAIN x \ DOMAIN d : Below(a, q) \/ (Above(a, q) /\ x[q].kind = "dir")

LEMMA NodeFields ==
  ASSUME NEW kind, NEW owner, NEW mode, NEW data, NEW ino
  PROVE  LET node == Node(kind, owner, mode, data, ino)
         IN  /\ node.kind = kind /\ node.owner = owner /\ node.mode = mode
             /\ node.data = data /\ node.ino = ino
             /\ kind \in Kind /\ owner \in Text /\ mode \in Text /\ data \in Path
                /\ ino \in Path => node \in Nodes
  BY DEF Node, Nodes

\* A sound disk, seen from one of its nodes.
LEMMA SoundNode ==
  ASSUME NEW d, Sound(d), NEW q \in DOMAIN d
  PROVE  /\ q \in Path /\ d[q] \in Nodes
         /\ d[q] = Node(d[q].kind, d[q].owner, d[q].mode, d[q].data, d[q].ino)
         /\ \A a \in Path : IsPrefix(a, q) /\ a # q => a \in DOMAIN d /\ d[a].kind = "dir"
         /\ d[q].kind = "dir" => d[q].data = <<>>
         /\ d[q].ino = q \/ IsHostPath(d[q].ino)
         /\ d[q].kind = "link" => d[q].data \in Leads
  <1>1. q \in Path /\ d[q] \in Nodes
    BY DEF Sound, IsDisk
  <1>2. ASSUME NEW a \in Path, IsPrefix(a, q), a # q  PROVE a \in DOMAIN d /\ d[a].kind = "dir"
    <2>1. a \in Prefixes(Front(q))
      BY <1>1, <1>2, FrontDef, PrefixesDef
    <2> QED  BY <2>1 DEF Sound, IsDisk, IsDirectory, Exists
  <1>3. d[q] = Node(d[q].kind, d[q].owner, d[q].mode, d[q].data, d[q].ino)
    BY <1>1 DEF Nodes, Node
  <1> QED  BY <1>1, <1>2, <1>3 DEF Sound, IsDisk

\* And how a disk is shown to be sound.
LEMMA SoundIf ==
  ASSUME NEW x, <<>> \in DOMAIN x,
         \A q \in DOMAIN x : /\ q \in Path /\ x[q] \in Nodes
                             /\ x[q].kind = "dir" => x[q].data = <<>>
                             /\ x[q].ino = q \/ IsHostPath(x[q].ino)
                             /\ x[q].kind = "link" => x[q].data \in Leads,
         \A q \in DOMAIN x : \A a \in Path :
            IsPrefix(a, q) /\ a # q => a \in DOMAIN x /\ x[a].kind = "dir",
         x[<<>>].kind = "dir"
  PROVE  Sound(x)
  <1>1. ASSUME NEW q \in DOMAIN x, NEW a \in Prefixes(Front(q))  PROVE IsDirectory(x, a)
    <2>1. q \in Path
      OBVIOUS
    <2>2. a \in Path /\ IsPrefix(a, Front(q))
      BY <2>1, FrontDef, PrefixesDef
    <2>3. CASE q = <<>>
      <3>1. a = <<>>
        <4>1. IsPrefix(a, <<>>) /\ IsPrefix(<<>>, a) /\ <<>> \in Path
          <5>1. Front(q) = <<>> /\ <<>> \in Path
            BY <2>1, <2>3, FrontDef
          <5>2. IsPrefix(<<>>, a)
            BY <2>2, <5>1, FirstName, TextsAssumption
          <5> QED  BY <2>2, <5>1, <5>2
        <4> QED  BY <2>2, <4>1, PrefixOrder
      <3> QED  BY <3>1 DEF IsDirectory, Exists
    <2>4. CASE q # <<>>
      <3>1. IsPrefix(a, q)
        BY <2>1, <2>2, FrontDef, PrefixOrder
      <3>2. a # q
        BY <2>1, <2>2, <2>4, FrontDef, PrefixOrder
      <3> QED  BY <2>2, <3>1, <3>2 DEF IsDirectory, Exists
    <2> QED  BY <2>3, <2>4
  <1> QED  BY <1>1 DEF Sound, IsDisk

LEMMA SoundRoot ==
  ASSUME NEW d, Sound(d)
  PROVE  <<>> \in DOMAIN d /\ d[<<>>].kind = "dir" /\ <<>> \in Path
  <1>1. <<>> \in DOMAIN d /\ <<>> \in Path
    BY FirstName DEF Sound, IsDisk
  <1>2. <<>> \in Prefixes(Front(<<>>))
    BY <1>1, FrontDef, PrefixesDef, PrefixOrder
  <1> QED  BY <1>1, <1>2 DEF Sound, IsDisk, IsDirectory

LEMMA WithinItself ==
  ASSUME NEW d, Sound(d), NEW a
  PROVE  Within(d, d, a)
  BY DEF Within

LEMMA WithinTrans ==
  ASSUME NEW d, NEW x, NEW y, NEW a \in Path, Sound(d), Within(d, x, a), Within(x, y, a)
  PROVE  Within(d, y, a)
  <1>1. ASSUME NEW q \in DOMAIN d, ~Below(a, q)
        PROVE  /\ q \in DOMAIN y
               /\ y[q].kind = d[q].kind /\ y[q].data = d[q].data /\ y[q].ino = d[q].ino
               /\ d[q].ino = q /\ ~IsHostPath(q) => y[q] = d[q]
    BY <1>1 DEF Within
  <1>2. ASSUME NEW q \in DOMAIN y \ DOMAIN d
        PROVE  Below(a, q) \/ (Above(a, q) /\ y[q].kind = "dir")
    BY <1>2 DEF Within
  <1> QED  BY <1>1, <1>2 DEF Within

LEMMA WithinWeaken ==
  ASSUME NEW d, NEW x, NEW a \in Path, NEW b \in Path, Sound(d), Within(d, x, a), Below(b, a)
  PROVE  Within(d, x, b)
  <1>1. Sound(x)
    BY DEF Within
  <1>2. ASSUME NEW q \in Path, Below(a, q)  PROVE Below(b, q)
    BY <1>2, BelowTrans DEF Below
  <1>3. ASSUME NEW q \in Path, Above(a, q)  PROVE Below(b, q) \/ Above(b, q)
    <2>1. CASE IsPrefix(q, a)
      BY <2>1, BelowOrder
    <2>2. CASE \E v \in Leads : IsPrefix(q, v)
      BY <2>2 DEF Above
    <2> QED  BY <1>3, <2>1, <2>2 DEF Above
  <1>4. \A q \in DOMAIN d : ~Below(b, q) => ~Below(a, q)
    BY <1>2, SoundNode
  <1>5. \A q \in DOMAIN x \ DOMAIN d : Below(b, q) \/ (Above(b, q) /\ x[q].kind = "dir")
    BY <1>1, <1>2, <1>3, SoundNode DEF Within
  <1> QED  BY <1>1, <1>4, <1>5 DEF Within

\* x comes from d by a change of p, or where a symbolic link may lead, and of
\* directories made on the way.
Only(d, x, p) ==
  /\ Sound(x)
  /\ \A q \in DOMAIN d :
       /\ q \in DOMAIN x /\ x[q].ino = d[q].ino /\ x[q].kind = d[q].kind
       /\ q # p /\ Clear(q) => x[q].data = d[q].data
       /\ q # p /\ d[q].ino = q /\ ~IsHostPath(q) => x[q] = d[q]
  /\ \A q \in DOMAIN x \ DOMAIN d :
       x[q].ino = q /\ (q = p \/ ~Clear(q) \/ (Above(p, q) /\ x[q].kind = "dir"))

\* Nothing of d is changed in x.
Kept(d, x) == \A q \in DOMAIN d : q \in DOMAIN x /\ x[q] = d[q]

LEMMA OnlyItself ==
  ASSUME NEW d, Sound(d), NEW p
  PROVE  Only(d, d, p)
  BY DEF Only

LEMMA OnlyTrans ==
  ASSUME NEW d, NEW x, NEW y, NEW p, Only(d, x, p), Only(x, y, p)
  PROVE  Only(d, y, p)
  <1>1. ASSUME NEW q \in DOMAIN d
        PROVE  /\ q \in DOMAIN y /\ y[q].ino = d[q].ino /\ y[q].kind = d[q].kind
               /\ q # p /\ Clear(q) => y[q].data = d[q].data
               /\ q # p /\ d[q].ino = q /\ ~IsHostPath(q) => y[q] = d[q]
    BY DEF Only
  <1>2. ASSUME NEW q \in DOMAIN y \ DOMAIN d
        PROVE  y[q].ino = q /\ (q = p \/ ~Clear(q) \/ (Above(p, q) /\ y[q].kind = "dir"))
    BY DEF Only
  <1> QED  BY <1>1, <1>2 DEF Only

\* A change of one path is a change below any of its ancestors.
LEMMA OnlyWithin ==
  ASSUME NEW d, NEW x, NEW p \in Path, Sound(d), Only(d, x, p), NEW a \in Path, Below(a, p)
  PROVE  Within(d, x, a)
  <1>1. \A q \in DOMAIN d : ~Below(a, q) => q # p /\ Clear(q)
    BY DEF Below, Clear
  <1>2. ASSUME NEW q \in DOMAIN x \ DOMAIN d
        PROVE  Below(a, q) \/ (Above(a, q) /\ x[q].kind = "dir")
    <2>1. q \in Path
      BY SoundNode DEF Only
    <2>2. CASE Above(p, q) /\ x[q].kind = "dir"
      <3>1. CASE IsPrefix(q, p)
        BY <2>1, <2>2, <3>1, BelowOrder
      <3>2. CASE ~IsPrefix(q, p)
        BY <2>2, <3>2 DEF Above
      <3> QED  BY <3>1, <3>2
    <2> QED  BY <2>2 DEF Only, Below, Clear
  <1> QED  BY <1>1, <1>2 DEF Only, Within

\* Where a symbolic link may lead is the host.
LEMMA HostBelow ==
  ASSUME NEW p \in Path, ~Clear(p)
  PROVE  IsHostPath(p)
  <1>1. PICK v \in Leads : IsPrefix(v, p)
    BY DEF Clear
  <1>2. v \in Path /\ v # <<>> /\ v[1] \notin Names
    BY LeadsAre DEF IsHostPath
  <1>3. v[1] \in Text
    <2>1. Len(v) \in Nat /\ Len(v) # 0
      BY <1>2, PathLen, EmptySeq DEF Path
    <2>2. 1 \in 1 .. Len(v)
      BY <2>1
    <2> QED  BY <1>2, <2>2, PathLen
  <1>4. <<v[1]>> \in Path /\ IsPrefix(<<v[1]>>, v)
    BY <1>2, <1>3, FirstName
  <1>5. IsPrefix(<<v[1]>>, p)
    BY <1>1, <1>2, <1>4, PrefixOrder
  <1>6. p # <<>> /\ p[1] = v[1]
    BY <1>3, <1>5, FirstName
  <1> QED  BY <1>2, <1>6 DEF IsHostPath

\* A change of what a link leads to, for one of whatever named the link.
LEMMA OnlyMoved ==
  ASSUME NEW d, NEW x, Sound(d), NEW t \in Path, NEW p \in Path, Only(d, x, t), ~Clear(t)
  PROVE  Only(d, x, p)
  <1>1. IsHostPath(t)
    BY HostBelow
  <1>2. ASSUME NEW q \in DOMAIN x \ DOMAIN d
        PROVE  x[q].ino = q /\ (q = p \/ ~Clear(q) \/ (Above(p, q) /\ x[q].kind = "dir"))
    <2>1. q \in Path
      BY SoundNode DEF Only
    <2>2. PICK v \in Leads : IsPrefix(v, t)
      BY DEF Clear
    <2>3. ASSUME IsPrefix(q, t)  PROVE ~Clear(q) \/ Above(p, q)
      BY <2>1, <2>2, <2>3, PrefixOrder, LeadsAre DEF Above, Clear
    <2> QED  BY <2>3 DEF Only, Above
  <1>3. \A q \in DOMAIN d : Clear(q) => q # t
    OBVIOUS
  <1>4. \A q \in DOMAIN d : ~IsHostPath(q) => q # t
    BY <1>1
  <1> QED  BY <1>2, <1>3, <1>4 DEF Only

\* create_directories: what leads to p is a directory, nothing else is new.
LEMMA MakeDirsDef ==
  ASSUME NEW d, Sound(d), NEW p \in Path, NEW mode \in Text, NEW a \in Path, IsPrefix(p, a),
         NEW r, r = MakeDirs(d, p, mode)
  PROVE  /\ r.ok \in BOOLEAN
         /\ Only(d, r.disk, a)
         /\ Kept(d, r.disk)
         /\ ~r.ok => r.disk = d
         /\ r.ok => \A q \in Path : IsPrefix(q, p) => q \in DOMAIN r.disk /\ r.disk[q].kind = "dir"
         /\ \A q \in DOMAIN r.disk \ DOMAIN d :
              q \in Path /\ IsPrefix(q, p) /\ r.disk[q] = Node("dir", "root", mode, <<>>, q)
  <1> DEFINE x == Over(d, [q \in Prefixes(p) |-> Node("dir", "root", mode, <<>>, q)])
             bad == \E q \in Prefixes(p) : Exists(d, q) /\ ~IsDirectory(d, q)
  <1>1. CASE bad
    <2>1. MakeDirs(d, p, mode) = Failed(d)
      BY <1>1 DEF MakeDirs
    <2> QED  BY <2>1, OnlyItself DEF Failed, Kept
  <1>2. CASE ~bad
    <2>1. MakeDirs(d, p, mode) = Done(x)
      BY <1>2 DEF MakeDirs
    <2>2. \A q : q \in DOMAIN x <=> q \in DOMAIN d \/ (q \in Path /\ IsPrefix(q, p))
      BY PrefixesDef DEF Over
    <2>3. \A q \in DOMAIN d : q \in DOMAIN x /\ x[q] = d[q]
      BY DEF Over
    <2>4. \A q \in Path : IsPrefix(q, p) /\ q \notin DOMAIN d =>
            x[q] = Node("dir", "root", mode, <<>>, q)
      BY PrefixesDef DEF Over
    <2>5. \A q \in Path : IsPrefix(q, p) /\ q \in DOMAIN d => d[q].kind = "dir"
      BY <1>2, PrefixesDef DEF IsDirectory, Exists
    <2> HIDE DEF x, bad
    <2>6. \A q \in Path : IsPrefix(q, p) => q \in DOMAIN x /\ x[q].kind = "dir"
      <3>1. ASSUME NEW q \in Path, IsPrefix(q, p)  PROVE q \in DOMAIN x /\ x[q].kind = "dir"
        <4>1. CASE q \in DOMAIN d
          BY <4>1, <3>1, <2>3, <2>5
        <4>2. CASE q \notin DOMAIN d
          <5>1. q \in DOMAIN x /\ x[q] = Node("dir", "root", mode, <<>>, q)
            BY <4>2, <3>1, <2>2, <2>4
          <5> QED  BY <5>1, NodeFields
        <4> QED  BY <4>1, <4>2
      <3> QED  BY <3>1
    <2>7. \A q \in DOMAIN x \ DOMAIN d : /\ q \in Path /\ IsPrefix(q, p)
                                         /\ x[q] = Node("dir", "root", mode, <<>>, q)
      BY <2>2, <2>4
    <2>8. Sound(x)
      <3>1. <<>> \in DOMAIN x /\ x[<<>>].kind = "dir" /\ <<>> \in Path
        BY <2>3, SoundRoot
      <3>2. ASSUME NEW q \in DOMAIN x
            PROVE  /\ q \in Path /\ x[q] \in Nodes
                   /\ x[q].kind = "dir" => x[q].data = <<>>
                   /\ x[q].ino = q \/ IsHostPath(x[q].ino)
                   /\ x[q].kind = "link" => x[q].data \in Leads
        <4>1. CASE q \in DOMAIN d
          BY <4>1, <2>3, SoundNode
        <4>2. CASE q \notin DOMAIN d
          BY <4>2, <2>7, <3>1, TextsAssumption DEF Node, Nodes, Kind
        <4> QED  BY <4>1, <4>2
      <3>3. ASSUME NEW q \in DOMAIN x, NEW b \in Path, IsPrefix(b, q), b # q
            PROVE  b \in DOMAIN x /\ x[b].kind = "dir"
        <4>1. CASE q \in DOMAIN d
          BY <4>1, <2>3, <3>3, SoundNode
        <4>2. CASE q \notin DOMAIN d
          BY <4>2, <2>6, <2>7, <3>3, PrefixOrder
        <4> QED  BY <4>1, <4>2
      <3> QED  BY <3>1, <3>2, <3>3, SoundIf
    <2>9. Only(d, x, a)
      <3>1. ASSUME NEW q \in DOMAIN x \ DOMAIN d
            PROVE  x[q].ino = q /\ IsPrefix(q, a) /\ x[q].kind = "dir"
        BY <2>7, PrefixOrder, NodeFields
      <3> QED  BY <2>3, <2>8, <3>1 DEF Only, Above
    <2> QED  BY <2>1, <2>3, <2>6, <2>7, <2>9 DEF Done, Kept
  <1> QED  BY <1>1, <1>2

-----------------------------------------------------------------------------
(* Each operation on a disk. *)

\* remove_all takes what is below p and nothing else.
LEMMA RemoveAllDef ==
  ASSUME NEW d, Sound(d), NEW p \in Path, p # <<>>
  PROVE  LET x == RemoveAll(d, p)
         IN  /\ Within(d, x, p)
             /\ \A q : q \in DOMAIN x <=> q \in DOMAIN d /\ ~IsPrefix(p, q)
             /\ \A q \in DOMAIN x : x[q] = d[q]
  <1> DEFINE x == RemoveAll(d, p)
  <1>1. /\ \A q : q \in DOMAIN x <=> q \in DOMAIN d /\ ~IsPrefix(p, q)
        /\ \A q \in DOMAIN x : x[q] = d[q]
    BY DEF RemoveAll
  <1> HIDE DEF x
  <1>2. Sound(x)
    <2>1. <<>> \in DOMAIN x /\ x[<<>>].kind = "dir"
      <3>1. <<>> \in DOMAIN d /\ d[<<>>].kind = "dir" /\ <<>> \in Path
        BY SoundRoot
      <3>2. IsPrefix(<<>>, p)
        BY FirstName, TextsAssumption
      <3>3. ~IsPrefix(p, <<>>)
        BY <3>1, <3>2, PrefixOrder
      <3> QED  BY <3>1, <3>3, <1>1
    <2>2. ASSUME NEW q \in DOMAIN x
          PROVE  /\ q \in Path /\ x[q] \in Nodes
                 /\ x[q].kind = "dir" => x[q].data = <<>>
                 /\ x[q].ino = q \/ IsHostPath(x[q].ino)
                 /\ x[q].kind = "link" => x[q].data \in Leads
      BY <1>1, SoundNode
    <2>3. ASSUME NEW q \in DOMAIN x, NEW a \in Path, IsPrefix(a, q), a # q
          PROVE  a \in DOMAIN x /\ x[a].kind = "dir"
      <3>1. q \in DOMAIN d /\ ~IsPrefix(p, q) /\ q \in Path
        BY <1>1, <2>2
      <3>2. a \in DOMAIN d /\ d[a].kind = "dir"
        BY <2>3, <3>1, SoundNode
      <3>3. ~IsPrefix(p, a)
        BY <2>3, <3>1, PrefixOrder
      <3> QED  BY <1>1, <3>2, <3>3
    <2> QED  BY <2>1, <2>2, <2>3, SoundIf
  <1>3. Within(d, x, p)
    BY <1>1, <1>2 DEF Within, Below
  <1> QED  BY <1>1, <1>3 DEF x

\* One more node in a directory that is there.
LEMMA PutSound ==
  ASSUME NEW d, Sound(d), NEW p \in Path, p \notin DOMAIN d, IsDirectory(d, Front(p)),
         NEW node \in Nodes, node.kind = "dir" => node.data = <<>>,
         node.ino = p \/ IsHostPath(node.ino), node.kind = "link" => node.data \in Leads
  PROVE  LET x == Put(d, p, node)
         IN  /\ Sound(x) /\ Kept(d, x)
             /\ DOMAIN x = DOMAIN d \cup {p} /\ x[p] = node
  <1> DEFINE x == Put(d, p, node)
  <1>1. DOMAIN x = DOMAIN d \cup {p} /\ x[p] = node /\ \A q \in DOMAIN d : x[q] = d[q]
    BY DEF Put
  <1> HIDE DEF x
  <1>2. <<>> \in DOMAIN x /\ x[<<>>].kind = "dir"
    BY <1>1, SoundRoot
  <1>3. ASSUME NEW q \in DOMAIN x
        PROVE  /\ q \in Path /\ x[q] \in Nodes
               /\ x[q].kind = "dir" => x[q].data = <<>>
               /\ x[q].ino = q \/ IsHostPath(x[q].ino)
               /\ x[q].kind = "link" => x[q].data \in Leads
    BY <1>1, SoundNode
  <1>4. ASSUME NEW q \in DOMAIN x, NEW a \in Path, IsPrefix(a, q), a # q
        PROVE  a \in DOMAIN x /\ x[a].kind = "dir"
    <2>1. CASE q \in DOMAIN d
      BY <2>1, <1>1, <1>4, SoundNode
    <2>2. CASE q = p
      <3>1. IsPrefix(a, Front(p)) /\ Front(p) \in Path
        BY <2>2, <1>4, FrontDef
      <3>2. a \in DOMAIN d /\ d[a].kind = "dir"
        BY <3>1, SoundNode DEF IsDirectory, Exists
      <3> QED  BY <3>2, <1>1
    <2> QED  BY <2>1, <2>2, <1>1
  <1>5. Sound(x)
    BY <1>2, <1>3, <1>4, SoundIf
  <1>6. Kept(d, x)
    BY <1>1 DEF Kept
  <1> QED  BY <1>1, <1>5, <1>6 DEF x

\* Create makes p, or throws and leaves the disk.
LEMMA CreateDef ==
  ASSUME NEW d, Sound(d), NEW p \in Path, NEW kind \in Kind, NEW mode \in Text,
         NEW data \in Path, kind = "dir" => data = <<>>, kind = "link" => data \in Leads,
         NEW r, r = Create(d, p, kind, mode, data)
  PROVE  /\ r.ok \in BOOLEAN /\ Only(d, r.disk, p) /\ Kept(d, r.disk)
         /\ ~r.ok => r.disk = d
         /\ r.ok => /\ p \notin DOMAIN d
                    /\ \A q : q \in DOMAIN r.disk <=> q \in DOMAIN d \/ q = p
                    /\ r.disk[p] = Node(kind, "root", mode, data, p)
  <1> DEFINE node == Node(kind, "root", mode, data, p)
             x == Put(d, p, node)
             bad == Exists(d, p) \/ ~IsDirectory(d, Front(p))
  <1>1. CASE bad
    <2>1. Create(d, p, kind, mode, data) = Failed(d)
      BY <1>1 DEF Create
    <2> QED  BY <2>1, OnlyItself DEF Failed, Kept
  <1>2. CASE ~bad
    <2>1. Create(d, p, kind, mode, data) = Done(x)
      BY <1>2 DEF Create
    <2>2. p \notin DOMAIN d /\ IsDirectory(d, Front(p))
      BY <1>2 DEF Exists
    <2>3. /\ node \in Nodes /\ node.kind = kind /\ node.data = data /\ node.ino = p
          /\ node.kind = "dir" => node.data = <<>>
          /\ node.ino = p \/ IsHostPath(node.ino)
          /\ node.kind = "link" => node.data \in Leads
      BY NodeFields, TextsAssumption
    <2> HIDE DEF node
    <2>4. Sound(x) /\ Kept(d, x) /\ DOMAIN x = DOMAIN d \cup {p} /\ x[p] = node
      <3>1. ASSUME NEW n \in Nodes, n.kind = "dir" => n.data = <<>>, n.ino = p \/ IsHostPath(n.ino),
                   n.kind = "link" => n.data \in Leads
            PROVE  LET y == Put(d, p, n)
                   IN  Sound(y) /\ Kept(d, y) /\ DOMAIN y = DOMAIN d \cup {p} /\ y[p] = n
        <4> DEFINE y == Put(d, p, n)
        <4>1. Sound(y)
          BY <2>2, <3>1, PutSound
        <4>2. Kept(d, y)
          BY <2>2, <3>1, PutSound
        <4>3. DOMAIN y = DOMAIN d \cup {p} /\ y[p] = n
          BY DEF Put
        <4> QED  BY <4>1, <4>2, <4>3
      <3> QED  BY <2>3, <3>1
    <2> HIDE DEF x
    <2>5. Only(d, x, p)
      BY <2>3, <2>4 DEF Only, Kept
    <2> QED  BY <2>1, <2>2, <2>4, <2>5 DEF Done, node
  <1> QED  BY <1>1, <1>2

\* Writing changes the contents of p, which may not have been there.
LEMMA WriteDef ==
  ASSUME NEW d, Sound(d), NEW p \in Path, NEW data \in Path,
         NEW r, r = Write(d, p, data)
  PROVE  /\ r.ok \in BOOLEAN /\ Only(d, r.disk, p)
         /\ \A q \in DOMAIN d \ {p} : r.disk[q] = d[q]
         /\ ~r.ok => r.disk = d
         /\ r.ok => /\ p \in DOMAIN r.disk
                    /\ \A q : q \in DOMAIN r.disk <=> q \in DOMAIN d \/ q = p
                    /\ r.disk[p].data = data
                    /\ r.disk[p].kind \notin {"dir", "link"}
                    /\ p \notin DOMAIN d => r.disk[p] = Node("file", "root", "0644", data, p)
  <1>1. CASE IsDirectory(d, p) \/ IsLink(d, p)
    <2>1. r = Failed(d)
      BY <1>1 DEF Write
    <2> QED  BY <2>1, OnlyItself DEF Failed
  <1>2. CASE ~IsDirectory(d, p) /\ ~IsLink(d, p) /\ Exists(d, p)
    <2> DEFINE x == [d EXCEPT ![p].data = data]
    <2>1. r = Done(x)
      BY <1>2 DEF Write
    <2>2. p \in DOMAIN d /\ d[p].kind \notin {"dir", "link"}
      BY <1>2 DEF IsDirectory, IsLink, Exists
    <2>3. DOMAIN x = DOMAIN d /\ (\A q \in DOMAIN d \ {p} : x[q] = d[q])
          /\ x[p] = [d[p] EXCEPT !.data = data]
      BY <2>2
    <2> HIDE DEF x
    <2>4. d[p] = Node(d[p].kind, d[p].owner, d[p].mode, d[p].data, d[p].ino) /\ d[p] \in Nodes
          /\ (d[p].ino = p \/ IsHostPath(d[p].ino))
      BY <2>2, SoundNode
    <2>5. x[p].kind = d[p].kind /\ x[p].data = data /\ x[p].ino = d[p].ino /\ x[p] \in Nodes
      <3>1. d[p] \in [kind : Kind, owner : Text, mode : Text, data : Path, ino : Path]
        BY <2>4 DEF Nodes
      <3> QED  BY <2>3, <3>1 DEF Nodes
    <2>6. Sound(x)
      <3>1. <<>> \in DOMAIN x /\ x[<<>>].kind = "dir"
        BY <2>2, <2>3, SoundRoot
      <3>2. ASSUME NEW q \in DOMAIN x
            PROVE  /\ q \in Path /\ x[q] \in Nodes
                   /\ x[q].kind = "dir" => x[q].data = <<>>
                   /\ x[q].ino = q \/ IsHostPath(x[q].ino)
                   /\ x[q].kind = "link" => x[q].data \in Leads
        <4>1. CASE q = p
          BY <4>1, <2>2, <2>4, <2>5
        <4>2. CASE q # p
          <5>1. q \in DOMAIN d /\ x[q] = d[q]
            BY <4>2, <2>3
          <5> QED  BY <5>1, SoundNode
        <4> QED  BY <4>1, <4>2
      <3>3. ASSUME NEW q \in DOMAIN x, NEW a \in Path, IsPrefix(a, q), a # q
            PROVE  a \in DOMAIN x /\ x[a].kind = "dir"
        <4>1. a \in DOMAIN d /\ d[a].kind = "dir"
          BY <2>3, <3>3, SoundNode
        <4> QED  BY <4>1, <2>2, <2>3
      <3> QED  BY <3>1, <3>2, <3>3, SoundIf
    <2>7. Only(d, x, p)
      BY <2>3, <2>5, <2>6 DEF Only
    <2>8. r.ok = TRUE /\ r.disk = x
      BY <2>1 DEF Done
    <2>9. x[p].kind \notin {"dir", "link"} /\ DOMAIN x = DOMAIN d \cup {p} /\ p \in DOMAIN x
      BY <2>2, <2>3, <2>5
    <2> QED  BY <2>2, <2>3, <2>5, <2>7, <2>8, <2>9
  <1>3. CASE ~Exists(d, p)
    <2>1. r = Create(d, p, "file", "0644", data)
      BY <1>3 DEF Write, IsDirectory, IsLink
    <2>2. "file" \in Kind /\ "0644" \in Text
      BY TextsAssumption DEF Kind
    <2>3. /\ r.ok \in BOOLEAN /\ Only(d, r.disk, p) /\ Kept(d, r.disk)
          /\ ~r.ok => r.disk = d
          /\ r.ok => /\ p \notin DOMAIN d
                     /\ \A q : q \in DOMAIN r.disk <=> q \in DOMAIN d \/ q = p
                     /\ r.disk[p] = Node("file", "root", "0644", data, p)
      BY <2>1, <2>2, CreateDef
    <2>4. r.ok => r.disk[p].data = data /\ r.disk[p].kind \notin {"dir", "link"}
      BY <2>3, NodeFields
    <2>5. p \notin DOMAIN d
      BY <1>3 DEF Exists
    <2> QED  BY <2>3, <2>4, <2>5 DEF Kept
  <1> QED  BY <1>1, <1>2, <1>3

\* copy_file does not overwrite.
LEMMA CopyFileDef ==
  ASSUME NEW d, Sound(d), NEW from \in Path, NEW p \in Path,
         NEW r, r = CopyFile(d, from, p)
  PROVE  /\ r.ok \in BOOLEAN /\ Only(d, r.disk, p) /\ Kept(d, r.disk)
         /\ ~r.ok => r.disk = d
         /\ r.ok => /\ p \notin DOMAIN d /\ from \in DOMAIN d
                    /\ p \in DOMAIN r.disk
                    /\ r.disk[p] = Node("file", "root", d[from].mode, d[from].data, p)
  <1>1. CASE IsRegularFile(d, from)
    <2>1. CopyFile(d, from, p) = Create(d, p, "file", d[from].mode, d[from].data)
      BY <1>1 DEF CopyFile
    <2>2. from \in DOMAIN d /\ d[from] \in Nodes
      BY <1>1, SoundNode DEF IsRegularFile, Exists
    <2>3. "file" \in Kind /\ d[from].mode \in Text /\ d[from].data \in Path
      BY <2>2 DEF Kind, Nodes
    <2>4. /\ r.ok \in BOOLEAN /\ Only(d, r.disk, p) /\ Kept(d, r.disk)
          /\ ~r.ok => r.disk = d
          /\ r.ok => /\ p \notin DOMAIN d
                     /\ r.disk[p] = Node("file", "root", d[from].mode, d[from].data, p)
      BY <2>1, <2>3, CreateDef
    <2>5. r.ok => p \in DOMAIN r.disk
      BY <2>1, <2>3, CreateDef
    <2> QED  BY <2>2, <2>4, <2>5
  <1>2. CASE ~IsRegularFile(d, from)
    <2>1. CopyFile(d, from, p) = Failed(d)
      BY <1>2 DEF CopyFile
    <2> QED  BY <2>1, OnlyItself DEF Failed, Kept
  <1> QED  BY <1>1, <1>2

\* A hard link shares the inode of what it links to, a symbolic link maybe.
LEMMA LinkDef ==
  ASSUME NEW d, Sound(d), NEW from \in Path, IsHostPath(from), NEW p \in Path,
         NEW r, r = Link(d, from, p)
  PROVE  r.ok \in BOOLEAN /\ Within(d, r.disk, p) /\ Kept(d, r.disk)
  <1> DEFINE bad == ~(Exists(d, from) /\ ~IsDirectory(d, from) /\ ~Exists(d, p) /\ IsDirectory(d, Front(p)))
             x == Put(d, p, d[from])
  <1>1. CASE bad
    <2>1. Link(d, from, p) = Failed(d)
      BY <1>1 DEF Link
    <2> QED  BY <2>1, WithinItself DEF Failed, Kept
  <1>2. CASE ~bad
    <2>1. Link(d, from, p) = Done(x)
      BY <1>2 DEF Link
    <2>2. from \in DOMAIN d /\ d[from].kind # "dir" /\ p \notin DOMAIN d /\ IsDirectory(d, Front(p))
      BY <1>2 DEF IsDirectory, Exists
    <2>3. /\ d[from] \in Nodes /\ IsHostPath(d[from].ino)
          /\ d[from].kind = "link" => d[from].data \in Leads
      BY <2>2, SoundNode
    <2>4. Sound(x) /\ Kept(d, x) /\ DOMAIN x = DOMAIN d \cup {p}
      BY <2>2, <2>3, PutSound
    <2> HIDE DEF x
    <2>5. Within(d, x, p)
      BY <2>4, PrefixOrder DEF Within, Below, Kept
    <2> QED  BY <2>1, <2>4, <2>5 DEF Done
  <1> QED  BY <1>1, <1>2

\* A change of the attributes of one inode.
LEMMA Reattributed ==
  ASSUME NEW d, Sound(d), NEW p \in DOMAIN d, NEW x, DOMAIN x = DOMAIN d,
         \A q \in DOMAIN d : /\ x[q] \in Nodes /\ x[q].kind = d[q].kind
                             /\ x[q].data = d[q].data /\ x[q].ino = d[q].ino
                             /\ d[q].ino # d[p].ino => x[q] = d[q]
  PROVE  Only(d, x, p)
  <1>1. Sound(x)
    <2>1. <<>> \in DOMAIN x /\ x[<<>>].kind = "dir"
      BY SoundRoot
    <2>2. ASSUME NEW q \in DOMAIN x
          PROVE  /\ q \in Path /\ x[q] \in Nodes
                 /\ x[q].kind = "dir" => x[q].data = <<>>
                 /\ x[q].ino = q \/ IsHostPath(x[q].ino)
                 /\ x[q].kind = "link" => x[q].data \in Leads
      BY SoundNode
    <2>3. ASSUME NEW q \in DOMAIN x, NEW a \in Path, IsPrefix(a, q), a # q
          PROVE  a \in DOMAIN x /\ x[a].kind = "dir"
      BY <2>3, SoundNode
    <2> QED  BY <2>1, <2>2, <2>3, SoundIf
  <1>2. d[p].ino = p \/ IsHostPath(d[p].ino)
    BY SoundNode
  <1>3. ASSUME NEW q \in DOMAIN d, q # p, d[q].ino = q, ~IsHostPath(q)  PROVE x[q] = d[q]
    BY <1>2, <1>3
  <1> QED  BY <1>1, <1>3 DEF Only

\* chmod sets the mode and nothing else; of a symbolic link it sets nothing.
LEMMA ChmodDef ==
  ASSUME NEW d, Sound(d), NEW p, NEW mode \in Text,
         NEW r, r = Chmod(d, p, mode)
  PROVE  /\ r.ok \in BOOLEAN /\ Only(d, r.disk, p)
         /\ \A q : q \in DOMAIN r.disk <=> q \in DOMAIN d
         /\ r.ok <=> p \in DOMAIN d /\ ~IsLink(d, p)
         /\ r.ok => r.disk[p] = Node(d[p].kind, d[p].owner, mode, d[p].data, d[p].ino)
  <1> DEFINE x == [q \in DOMAIN d |-> IF d[q].ino = d[p].ino THEN [d[q] EXCEPT !.mode = mode] ELSE d[q]]
  <1>1. CASE p \in DOMAIN d /\ ~IsLink(d, p)
    <2>1. Chmod(d, p, mode) = Done(x)
      BY <1>1 DEF Chmod, Change, Exists
    <2>2. ASSUME NEW q \in DOMAIN d
          PROVE  /\ [d[q] EXCEPT !.mode = mode] = Node(d[q].kind, d[q].owner, mode, d[q].data, d[q].ino)
                 /\ [d[q] EXCEPT !.mode = mode] \in Nodes
      <3>1. d[q] \in [kind : Kind, owner : Text, mode : Text, data : Path, ino : Path]
        BY SoundNode DEF Nodes
      <3> QED  BY <3>1 DEF Nodes, Node
    <2>3. ASSUME NEW q \in DOMAIN d
          PROVE  /\ x[q] = IF d[q].ino = d[p].ino
                             THEN Node(d[q].kind, d[q].owner, mode, d[q].data, d[q].ino) ELSE d[q]
                 /\ x[q] \in Nodes
      BY <2>2, SoundNode
    <2>4. DOMAIN x = DOMAIN d
      OBVIOUS
    <2> HIDE DEF x
    <2>5. Only(d, x, p)
      BY <1>1, <2>3, <2>4, Reattributed, NodeFields
    <2> QED  BY <1>1, <2>1, <2>3, <2>4, <2>5 DEF Done
  <1>2. CASE p \notin DOMAIN d \/ IsLink(d, p)
    <2>1. Chmod(d, p, mode) = Failed(d)
      BY <1>2 DEF Chmod, Change, Exists
    <2> QED  BY <1>2, <2>1, OnlyItself DEF Failed
  <1> QED  BY <1>1, <1>2

\* lchown sets the owner and drops the set-id bits of a file.
LEMMA LchownDef ==
  ASSUME NEW d, Sound(d), NEW p, NEW owner \in Text,
         NEW r, r = Lchown(d, p, owner)
  PROVE  /\ r.ok \in BOOLEAN /\ Only(d, r.disk, p)
         /\ \A q : q \in DOMAIN r.disk <=> q \in DOMAIN d
         /\ r.ok <=> p \in DOMAIN d
         /\ r.ok => r.disk[p] = Node(d[p].kind, owner, WithoutSetId(d[p].kind, d[p].mode),
                                     d[p].data, d[p].ino)
  <1> DEFINE new(q) == [d[q] EXCEPT !.owner = owner, !.mode = WithoutSetId(d[q].kind, @)]
             x == [q \in DOMAIN d |-> IF d[q].ino = d[p].ino THEN new(q) ELSE d[q]]
  <1>1. CASE p \in DOMAIN d
    <2>1. Lchown(d, p, owner) = Done(x)
      BY <1>1 DEF Lchown, Change, Exists
    <2>2. ASSUME NEW q \in DOMAIN d
          PROVE  /\ new(q) = Node(d[q].kind, owner, WithoutSetId(d[q].kind, d[q].mode), d[q].data, d[q].ino)
                 /\ new(q) \in Nodes
      <3> DEFINE mode == WithoutSetId(d[q].kind, d[q].mode)
      <3>1. d[q] \in [kind : Kind, owner : Text, mode : Text, data : Path, ino : Path]
        BY SoundNode DEF Nodes
      <3>2. mode \in Text
        BY <3>1, TextsAssumption DEF WithoutSetId
      <3>3. new(q) = [[d[q] EXCEPT !.owner = owner] EXCEPT !.mode = mode]
        OBVIOUS
      <3> HIDE DEF mode
      <3>4. [[d[q] EXCEPT !.owner = owner] EXCEPT !.mode = mode]
              = Node(d[q].kind, owner, mode, d[q].data, d[q].ino)
        <4>1. [d[q] EXCEPT !.owner = owner] = Node(d[q].kind, owner, d[q].mode, d[q].data, d[q].ino)
          BY <3>1 DEF Node
        <4>2. [Node(d[q].kind, owner, d[q].mode, d[q].data, d[q].ino) EXCEPT !.mode = mode]
                = Node(d[q].kind, owner, mode, d[q].data, d[q].ino)
          BY DEF Node
        <4> QED  BY <4>1, <4>2
      <3>5. Node(d[q].kind, owner, mode, d[q].data, d[q].ino) \in Nodes
        BY <3>1, <3>2, NodeFields
      <3> QED  BY <3>3, <3>4, <3>5 DEF mode
    <2>3. ASSUME NEW q \in DOMAIN d
          PROVE  /\ x[q] = IF d[q].ino = d[p].ino
                             THEN Node(d[q].kind, owner, WithoutSetId(d[q].kind, d[q].mode), d[q].data, d[q].ino)
                             ELSE d[q]
                 /\ x[q] \in Nodes
      BY <2>2, SoundNode
    <2>4. DOMAIN x = DOMAIN d
      OBVIOUS
    <2> HIDE DEF x
    <2>5. Only(d, x, p)
      BY <1>1, <2>3, <2>4, Reattributed, NodeFields
    <2> QED  BY <1>1, <2>1, <2>3, <2>4, <2>5 DEF Done
  <1>2. CASE p \notin DOMAIN d
    <2>1. Lchown(d, p, owner) = Failed(d)
      BY <1>2 DEF Lchown, Change, Exists
    <2> QED  BY <1>2, <2>1, OnlyItself DEF Failed
  <1> QED  BY <1>1, <1>2

\* chown does the same, but not to a symbolic link.
LEMMA ChownDef ==
  ASSUME NEW d, Sound(d), NEW p, NEW owner \in Text,
         NEW r, r = Chown(d, p, owner)
  PROVE  /\ r.ok \in BOOLEAN /\ Only(d, r.disk, p)
         /\ \A q : q \in DOMAIN r.disk <=> q \in DOMAIN d
         /\ r.ok <=> p \in DOMAIN d /\ ~IsLink(d, p)
         /\ r.ok => r.disk[p] = Node(d[p].kind, owner, WithoutSetId(d[p].kind, d[p].mode),
                                     d[p].data, d[p].ino)
  <1>1. CASE IsLink(d, p)
    <2>1. r = Failed(d)
      BY <1>1 DEF Chown
    <2> QED  BY <1>1, <2>1, OnlyItself DEF Failed
  <1>2. CASE ~IsLink(d, p)
    <2>1. r = Lchown(d, p, owner)
      BY <1>2 DEF Chown
    <2> QED  BY <1>2, <2>1, LchownDef
  <1> QED  BY <1>1, <1>2


-----------------------------------------------------------------------------
(* KeepInRoot. *)

\* Descend for FoldTheorems, without a context.
DescendInto(ctx, stack, name) == Descend(stack, name)
DescendFolds == INSTANCE FoldTheorems WITH Op <- DescendInto

\* A path without "." and "..".
Resolved(p) == p \in Path /\ \A i \in 1 .. Len(p) : p[i] \notin {".", ".."}

\* What KeepInRoot leaves of a path, seen from the root.
Inside(path) == FoldLeft(Descend, <<>>, path)

\* The fold, as its steps.
LEMMA DescendSteps ==
  ASSUME NEW path \in Path
  PROVE  \E g : /\ g[0] = <<>>
                /\ \A i \in 1 .. Len(path) : g[i] = Descend(g[i - 1], path[i])
                /\ Inside(path) = g[Len(path)]
  <1>1. Len(path) \in Nat /\ DOMAIN path = 1 .. Len(path)
    BY PathLen
  <1>2. PICK g : /\ g[0] = <<>>
                 /\ \A i \in 1 .. Len(path) : g[i] = DescendInto({}, g[i - 1], path[i])
                 /\ DescendFolds!Fold({}, <<>>, path) = g[Len(path)]
    <2> DEFINE n == Len(path)
               base == <<>>
    <2>1. n \in Nat /\ DOMAIN path = 1 .. n
      BY <1>1
    <2> HIDE DEF n, base
    <2>2. \E g : /\ g[0] = base
                 /\ \A i \in 1 .. n : g[i] = DescendInto({}, g[i - 1], path[i])
                 /\ DescendFolds!Fold({}, base, path) = g[n]
      BY <2>1, DescendFolds!FoldSteps
    <2> QED  BY <2>2 DEF n, base
  <1>3. DescendFolds!Fold({}, <<>>, path) = Inside(path)
    BY DEF Inside, DescendInto, FoldLeft, MapThenFoldSet, DescendFolds!Fold, DescendFolds!FoldLeft, DescendFolds!MapThenFoldSet, Max, DescendFolds!Max
  <1> QED  BY <1>2, <1>3 DEF DescendInto

LEMMA AppendPath ==
  ASSUME NEW s \in Path, NEW name \in Text
  PROVE  /\ Append(s, name) \in Path /\ Len(Append(s, name)) = Len(s) + 1
         /\ \A i \in 1 .. Len(s) : Append(s, name)[i] = s[i]
         /\ Append(s, name)[Len(s) + 1] = name
  BY AppendProperties DEF Path

\* A step keeps the path resolved.
LEMMA DescendResolved ==
  ASSUME NEW s, Resolved(s), NEW name \in Text
  PROVE  /\ Resolved(Descend(s, name))
         /\ name \notin {".", ".."} => Descend(s, name) = Append(s, name)
  <1>1. s \in Path /\ Len(s) \in Nat
    BY PathLen DEF Resolved
  <1>2. CASE name = ".." /\ s # <<>>
    <2>1. Descend(s, name) = Front(s)
      BY <1>2 DEF Descend
    <2>2. Front(s) \in Path /\ Len(Front(s)) = Len(s) - 1 /\ \A i \in 1 .. Len(s) - 1 : Front(s)[i] = s[i]
      BY <1>1, <1>2, FrontDef
    <2>3. \A i \in 1 .. Len(s) - 1 : i \in 1 .. Len(s)
      BY <1>1
    <2> QED  BY <1>2, <2>1, <2>2, <2>3 DEF Resolved
  <1>3. CASE name \notin {".", ".."}
    <2>1. Descend(s, name) = Append(s, name)
      BY <1>3 DEF Descend
    <2> DEFINE t == Append(s, name)
    <2>2. /\ t \in Path /\ Len(t) = Len(s) + 1 /\ t[Len(s) + 1] = name
          /\ \A i \in 1 .. Len(s) : t[i] = s[i]
      BY <1>1, AppendPath
    <2> HIDE DEF t
    <2>3. ASSUME NEW i \in 1 .. Len(t)  PROVE t[i] \notin {".", ".."}
      <3>1. i \in 1 .. Len(s) \/ i = Len(s) + 1
        BY <1>1, <2>2
      <3> QED  BY <1>3, <2>2, <3>1 DEF Resolved
    <2>4. Resolved(t)
      BY <2>2, <2>3 DEF Resolved
    <2> QED  BY <2>1, <2>4 DEF t
  <1>4. CASE name \in {".", ".."} /\ ~(name = ".." /\ s # <<>>)
    BY <1>4 DEF Descend
  <1> QED  BY <1>2, <1>3, <1>4

\* By induction over the components.
LEMMA InsideResolved ==
  ASSUME NEW path \in Path
  PROVE  Resolved(Inside(path))
  <1>1. PICK g : /\ g[0] = <<>>
                 /\ \A i \in 1 .. Len(path) : g[i] = Descend(g[i - 1], path[i])
                 /\ Inside(path) = g[Len(path)]
    BY DescendSteps
  <1> DEFINE n == Len(path)
             S == {i \in 0 .. n : Resolved(g[i])}
  <1>2. n \in Nat /\ \A i \in 1 .. n : path[i] \in Text
    BY PathLen
  <1>3. 0 \in S
    <2>1. <<>> \in Path /\ Len(<<>>) = 0
      BY EmptySeq DEF Path
    <2>2. Resolved(<<>>)
      BY <2>1 DEF Resolved
    <2> HIDE DEF n
    <2> QED  BY <1>1, <1>2, <2>2
  <1>4. ASSUME NEW i \in 1 .. n, i - 1 \in S  PROVE i \in S
    BY <1>1, <1>2, <1>4, DescendResolved
  <1> HIDE DEF S
  <1>5. n \in S
    BY <1>2, <1>3, <1>4, DescendFolds!Climb
  <1> QED  BY <1>1, <1>5 DEF S

\* What is resolved already stays what it is.
LEMMA ResolvedInside ==
  ASSUME NEW path, Resolved(path)
  PROVE  Inside(path) = path
  <1>1. path \in Path
    BY DEF Resolved
  <1>2. PICK g : /\ g[0] = <<>>
                 /\ \A i \in 1 .. Len(path) : g[i] = Descend(g[i - 1], path[i])
                 /\ Inside(path) = g[Len(path)]
    BY <1>1, DescendSteps
  <1> DEFINE n == Len(path)
             S == {i \in 0 .. n : Resolved(g[i]) /\ Len(g[i]) = i /\ \A j \in 1 .. i : g[i][j] = path[j]}
  <1>3. n \in Nat /\ \A i \in 1 .. n : path[i] \in Text
    BY <1>1, PathLen
  <1>4. 0 \in S
    <2>1. <<>> \in Path /\ Len(<<>>) = 0
      BY EmptySeq DEF Path
    <2>2. Resolved(<<>>)
      BY <2>1 DEF Resolved
    <2> HIDE DEF n
    <2> QED  BY <1>2, <1>3, <2>1, <2>2
  <1>5. ASSUME NEW i \in 1 .. n, i - 1 \in S  PROVE i \in S
    <2> DEFINE s == g[i - 1]
               t == g[i]
    <2>1. /\ Resolved(s) /\ Len(s) = i - 1 /\ (\A j \in 1 .. i - 1 : s[j] = path[j])
          /\ s \in Path
      BY <1>5 DEF Resolved
    <2>2. path[i] \in Text /\ path[i] \notin {".", ".."}
      BY <1>3 DEF Resolved
    <2>3. t = Descend(s, path[i])
      BY <1>2
    <2> HIDE DEF s, t
    <2>4. Resolved(t) /\ t = Append(s, path[i])
      BY <2>1, <2>2, <2>3, DescendResolved
    <2>5. /\ Len(t) = Len(s) + 1 /\ t[Len(s) + 1] = path[i]
          /\ \A j \in 1 .. Len(s) : t[j] = s[j]
      BY <2>1, <2>2, <2>4, AppendPath
    <2>6. Len(t) = i /\ \A j \in 1 .. i : t[j] = path[j]
      <3>1. i \in Int /\ Len(s) + 1 = i /\ \A j \in 1 .. i : j \in 1 .. i - 1 \/ j = i
        BY <1>3, <2>1
      <3> QED  BY <2>1, <2>5, <3>1
    <2>7. i \in 0 .. n
      BY <1>3
    <2> QED  BY <2>4, <2>6, <2>7 DEF t
  <1> HIDE DEF S
  <1>6. n \in S
    BY <1>3, <1>4, <1>5, DescendFolds!Climb
  <1>7. g[n] \in Path /\ Len(g[n]) = Len(path) /\ \A j \in 1 .. Len(path) : g[n][j] = path[j]
    BY <1>6 DEF S, Resolved
  <1>8. g[n] = path
    BY <1>1, <1>7, PathEqual
  <1> QED  BY <1>2, <1>8

\* Filesystem::keepInRoot, for every path and root: the result is below the root,
\* whatever "..", "." and names the path is made of, and resolving it again
\* changes nothing.
THEOREM KeptPaths ==
  ASSUME NEW path \in Path, NEW root \in Path
  PROVE  /\ KeepInRoot(path, root) = root \o Inside(path)
         /\ KeepInRoot(path, root) \in Path
         /\ IsPrefix(root, KeepInRoot(path, root))
         /\ ContainerPath(KeepInRoot(path, root), root) = Inside(path)
         /\ Resolved(Inside(path))
         /\ Inside(Inside(path)) = Inside(path)
  <1>1. KeepInRoot(path, root) = root \o Inside(path)
    BY DEF KeepInRoot, Inside
  <1>2. Resolved(Inside(path)) /\ Inside(path) \in Path
    BY InsideResolved DEF Resolved
  <1>3. Inside(Inside(path)) = Inside(path)
    BY <1>2, ResolvedInside
  <1> QED  BY <1>1, <1>2, <1>3, ConcatPath, ContainerPathDef

\* A root in the directory of a container.
IsRoot(root) == root \in Path /\ root # <<>> /\ root[1] \in Names

\* Nothing of the host is below a root.
LEMMA InRoot ==
  ASSUME NEW root, IsRoot(root), NEW p \in Path, IsPrefix(root, p)
  PROVE  p # <<>> /\ ~IsHostPath(p) /\ \A q : IsHostPath(q) => q \in Path /\ ~IsPrefix(p, q) /\ q # p
  <1>1. root[1] \in Text /\ root \in Path
    BY NamesAssumption DEF IsRoot
  <1>2. IsPrefix(<<root[1]>>, root)
    BY <1>1, FirstName DEF IsRoot
  <1>3. <<root[1]>> \in Path
    BY <1>1, FirstName
  <1>4. IsPrefix(<<root[1]>>, p)
    BY <1>1, <1>2, <1>3, PrefixOrder
  <1>5. p # <<>> /\ p[1] = root[1]
    BY <1>1, <1>4, FirstName
  <1>6. ASSUME NEW q, IsHostPath(q), IsPrefix(p, q)  PROVE FALSE
    <2>1. q \in Path /\ IsPrefix(<<root[1]>>, q)
      BY <1>3, <1>4, <1>6, PrefixOrder DEF IsHostPath
    <2>2. q[1] = root[1]
      BY <1>1, <2>1, FirstName
    <2> QED  BY <1>6, <2>2 DEF IsRoot, IsHostPath
  <1> QED  BY <1>5, <1>6, PrefixOrder DEF IsHostPath, IsRoot

-----------------------------------------------------------------------------
(* Symbolic links. *)

\* Hop for FoldTheorems; the context is the disk and what "/" is.
HopInto(ctx, t, i) == Hop(ctx[1], t, ctx[2])
HopFolds == INSTANCE FoldTheorems WITH Op <- HopInto

\* Where there is a link of d there was one of x.
NoNewLinks(d, x) == \A q : IsLink(x, q) => IsLink(d, q)

LEMMA StraightKept ==
  ASSUME NEW d, NEW x, NoNewLinks(d, x), NEW p, Straight(d, p)
  PROVE  Straight(x, p)
  BY DEF Straight, NoNewLinks

\* What leads to a node is no link.
LEMMA StraightFront ==
  ASSUME NEW d, Sound(d), NEW p \in Path
  PROVE  /\ Straight(d, p) <=> Straight(d, Front(p)) /\ ~IsLink(d, p)
         /\ p \in DOMAIN d => Straight(d, Front(p))
  <1>1. \A q : q \in Prefixes(p) <=> q = p \/ q \in Prefixes(Front(p))
    BY PrefixesDef, FrontDef, PrefixOrder
  <1>2. ASSUME p \in DOMAIN d, NEW q \in Prefixes(Front(p))  PROVE ~IsLink(d, q)
    BY <1>2 DEF Sound, IsDisk, IsDirectory, IsLink
  <1> QED  BY <1>1, <1>2 DEF Straight

LEMMA HopDef ==
  ASSUME NEW d, Sound(d), NEW t \in Path, NEW root \in Path
  PROVE  /\ Hop(d, t, root) \in Path
         /\ Straight(d, t) => Hop(d, t, root) = t
         /\ ~Straight(d, t) => \E v \in Leads : IsPrefix(root \o v, Hop(d, t, root))
  <1>1. CASE Straight(d, t)
    BY <1>1 DEF Hop
  <1>2. CASE ~Straight(d, t)
    <2> DEFINE q == CHOOSE x \in Prefixes(t) : IsLink(d, x)
               k == SubSeq(t, Len(q) + 1, Len(t))
               v == d[q].data
    <2>1. q \in Prefixes(t) /\ IsLink(d, q)
      BY <1>2 DEF Straight
    <2>2. Hop(d, t, root) = root \o v \o k
      BY <1>2 DEF Hop
    <2> HIDE DEF q
    <2>3. v \in Leads /\ v \in Path
      BY <2>1, SoundNode, LeadsAre DEF IsLink, Exists
    <2>4. k \in Path
      <3>1. q \in Path
        BY <2>1, PrefixesDef
      <3>2. Len(q) + 1 \in Int /\ Len(t) \in Int /\ \A i \in Len(q) + 1 .. Len(t) : t[i] \in Text
        BY <3>1, PathLen
      <3> QED  BY <3>2, SubSeqProperties DEF Path
    <2> HIDE DEF k, v
    <2>5. root \o v \in Path
      BY <2>3, ConcatPath
    <2> DEFINE w == root \o v
    <2>6. w \in Path /\ Hop(d, t, root) = w \o k
      BY <2>2, <2>5
    <2> HIDE DEF w
    <2>7. w \o k \in Path /\ IsPrefix(w, w \o k)
      BY <2>4, <2>6, ConcatPath
    <2> QED  BY <1>2, <2>3, <2>6, <2>7 DEF w
  <1> QED  BY <1>1, <1>2

\* The fold, as its steps.
LEMMA HopSteps ==
  ASSUME NEW d, NEW p, NEW root
  PROVE  \E g : /\ g[0] = p
                /\ \A i \in 1 .. MaxLinks : g[i] = Hop(d, g[i - 1], root)
                /\ Real(d, p, root) = g[MaxLinks]
  <1> DEFINE seq == [i \in 1 .. MaxLinks |-> i]
             n == MaxLinks
             ctx == <<d, root>>
  <1>1. n \in Nat /\ DOMAIN seq = 1 .. n
    BY LinksAssumption
  <1>2. ctx[1] = d /\ ctx[2] = root
    OBVIOUS
  <1>3. HopFolds!Fold(ctx, p, seq) = Real(d, p, root)
    BY DEF Real, HopInto, FoldLeft, MapThenFoldSet, HopFolds!Fold, HopFolds!FoldLeft, HopFolds!MapThenFoldSet, Max, HopFolds!Max
  <1> HIDE DEF seq, n, ctx
  <1>4. \E g : /\ g[0] = p
               /\ \A i \in 1 .. n : g[i] = HopInto(ctx, g[i - 1], seq[i])
               /\ HopFolds!Fold(ctx, p, seq) = g[n]
    BY <1>1, HopFolds!FoldSteps
  <1> QED  BY <1>2, <1>3, <1>4 DEF n, HopInto

\* However many links are followed: a path that meets none stays where it is,
\* another one ends below what a link holds.
LEMMA RealDef ==
  ASSUME NEW d, Sound(d), NEW p \in Path, NEW root \in Path
  PROVE  /\ Real(d, p, root) \in Path
         /\ Straight(d, p) => Real(d, p, root) = p
         /\ Real(d, p, root) = p \/ \E v \in Leads : IsPrefix(root \o v, Real(d, p, root))
  <1>1. PICK g : /\ g[0] = p
                 /\ \A i \in 1 .. MaxLinks : g[i] = Hop(d, g[i - 1], root)
                 /\ Real(d, p, root) = g[MaxLinks]
    BY HopSteps
  <1> DEFINE n == MaxLinks
             S == {i \in 0 .. n : /\ g[i] \in Path
                                  /\ Straight(d, p) => g[i] = p
                                  /\ g[i] = p \/ \E v \in Leads : IsPrefix(root \o v, g[i])}
  <1>2. n \in Nat
    BY LinksAssumption
  <1>3. 0 \in S
    BY <1>1, <1>2
  <1>4. ASSUME NEW i \in 1 .. n, i - 1 \in S  PROVE i \in S
    <2>1. /\ g[i - 1] \in Path /\ (Straight(d, p) => g[i - 1] = p)
          /\ g[i - 1] = p \/ \E v \in Leads : IsPrefix(root \o v, g[i - 1])
          /\ g[i] = Hop(d, g[i - 1], root) /\ i \in 0 .. n
      BY <1>1, <1>2, <1>4
    <2>2. g[i] \in Path /\ (Straight(d, g[i - 1]) => g[i] = g[i - 1])
          /\ (~Straight(d, g[i - 1]) => \E v \in Leads : IsPrefix(root \o v, g[i]))
      BY <2>1, HopDef
    <2> QED  BY <2>1, <2>2
  <1> HIDE DEF S
  <1>5. n \in S
    BY <1>2, <1>3, <1>4, DescendFolds!Climb
  <1> QED  BY <1>1, <1>5 DEF S

\* On the host.
LEMMA FollowedDef ==
  ASSUME NEW d, Sound(d), NEW p \in Path
  PROVE  /\ Followed(d, p) \in Path
         /\ Straight(d, p) => Followed(d, p) = p
         /\ Followed(d, p) = p \/ ~Clear(Followed(d, p))
  <1>1. <<>> \in Path /\ \A v \in Leads : <<>> \o v = v
    BY LeadsAre, SoundRoot, ConcatPath
  <1>2. /\ Real(d, p, <<>>) \in Path
        /\ Straight(d, p) => Real(d, p, <<>>) = p
        /\ Real(d, p, <<>>) = p \/ \E v \in Leads : IsPrefix(<<>> \o v, Real(d, p, <<>>))
    BY <1>1, RealDef
  <1> QED  BY <1>1, <1>2 DEF Followed, Clear

LEMMA NamedDef ==
  ASSUME NEW d, Sound(d), NEW p \in Path
  PROVE  /\ Named(d, p) \in Path
         /\ Straight(d, Front(p)) => Named(d, p) = p
         /\ Named(d, p) = p \/ ~Clear(Named(d, p))
         /\ p # <<>> => Named(d, p) # <<>>
  <1>1. CASE p = <<>>
    BY <1>1 DEF Named
  <1>2. CASE p # <<>>
    <2> DEFINE f == Followed(d, Front(p))
               name == Last(p)
    <2>1. f \in Path /\ (Straight(d, Front(p)) => f = Front(p)) /\ (f = Front(p) \/ ~Clear(f))
      BY FrontDef, FollowedDef
    <2>2. Len(p) \in Nat /\ Len(p) # 0 /\ Len(p) \in 1 .. Len(p)
      <3>1. Len(p) \in Nat /\ Len(p) # 0
        BY <1>2, PathLen, EmptySeq DEF Path
      <3> QED  BY <3>1
    <2>3. name = p[Len(p)] /\ name \in Text
      BY <2>2, PathLen DEF Last
    <2>4. Named(d, p) = Append(f, name)
      BY <1>2 DEF Named
    <2> HIDE DEF f, name
    <2>5. /\ Append(f, name) \in Path /\ Len(Append(f, name)) = Len(f) + 1
          /\ \A i \in 1 .. Len(f) : Append(f, name)[i] = f[i]
          /\ Append(f, name)[Len(f) + 1] = name
      BY <2>1, <2>3, AppendPath
    <2>6. ASSUME f = Front(p)  PROVE Append(f, name) = p
      <3> DEFINE s == Append(f, name)
      <3>1. Len(f) = Len(p) - 1 /\ \A i \in 1 .. Len(p) - 1 : f[i] = p[i]
        BY <1>2, <2>6, FrontDef
      <3>2. s \in Path /\ Len(s) = Len(p) /\ s[Len(p)] = p[Len(p)]
            /\ \A i \in 1 .. Len(p) - 1 : s[i] = p[i]
        <4>1. Len(f) + 1 = Len(p)
          BY <2>2, <3>1
        <4> QED  BY <2>3, <2>5, <3>1, <4>1
      <3> HIDE DEF s
      <3>3. \A i \in 1 .. Len(s) : i \in 1 .. Len(p) - 1 \/ i = Len(p)
        BY <2>2, <3>2
      <3>4. s = p
        BY <3>2, <3>3, PathEqual
      <3> QED  BY <3>4 DEF s
    <2>7. IsPrefix(f, Append(f, name))
      <3> DEFINE s == Append(f, name)
      <3>1. s \in Path /\ Len(f) <= Len(s) /\ \A i \in 1 .. Len(f) : f[i] = s[i]
        BY <2>1, <2>5, PathLen
      <3> HIDE DEF s
      <3>2. IsPrefix(f, s)
        BY <2>1, <3>1, PrefixDef
      <3> QED  BY <3>2 DEF s
    <2>8. ~Clear(f) => ~Clear(Append(f, name))
      BY <2>1, <2>5, <2>7, PrefixOrder, LeadsAre DEF Clear
    <2>9. Append(f, name) # <<>>
      <3>1. Len(f) \in Nat /\ Len(<<>>) = 0
        BY <2>1, PathLen, EmptySeq
      <3> QED  BY <2>5, <3>1
    <2> QED  BY <1>2, <2>1, <2>4, <2>5, <2>6, <2>8, <2>9
  <1> QED  BY <1>1, <1>2

\* create_directories through links: nothing but directories is new.
LEMMA MakeDirsToDef ==
  ASSUME NEW d, Sound(d), NEW p \in Path, NEW mode \in Text, NEW a \in Path, IsPrefix(p, a),
         NEW r, r = MakeDirsTo(d, p, mode)
  PROVE  /\ r.ok \in BOOLEAN
         /\ Only(d, r.disk, a)
         /\ Kept(d, r.disk)
         /\ ~r.ok => r.disk = d
         /\ \A q \in DOMAIN r.disk \ DOMAIN d : r.disk[q].kind = "dir" /\ r.disk[q].ino = q
         /\ NoNewLinks(d, r.disk)
  <1> DEFINE t == Followed(d, p)
             m == MakeDirs(d, t, mode)
  <1>1. r = Failed(d) \/ r = m
    BY DEF MakeDirsTo
  <1>2. CASE r = Failed(d)
    <2>1. r.ok = FALSE /\ r.disk = d
      BY <1>2 DEF Failed
    <2> QED  BY <2>1, OnlyItself DEF Kept, NoNewLinks
  <1>3. CASE r = m
    <2>1. t \in Path /\ (t = p \/ ~Clear(t))
      BY FollowedDef
    <2> HIDE DEF t
    <2>2. /\ r.ok \in BOOLEAN /\ Only(d, r.disk, t) /\ Kept(d, r.disk) /\ (~r.ok => r.disk = d)
          /\ \A q \in DOMAIN r.disk \ DOMAIN d : r.disk[q] = Node("dir", "root", mode, <<>>, q)
      BY <1>3, <2>1, MakeDirsDef, PrefixOrder
    <2>3. Only(d, r.disk, a)
      <3>1. CASE t = p
        BY <1>3, <2>1, <3>1, MakeDirsDef
      <3>2. CASE t # p
        BY <2>1, <2>2, <3>2, OnlyMoved
      <3> QED  BY <3>1, <3>2
    <2>4. \A q \in DOMAIN r.disk \ DOMAIN d : r.disk[q].kind = "dir" /\ r.disk[q].ino = q
      BY <2>2, NodeFields
    <2>5. NoNewLinks(d, r.disk)
      BY <2>2, <2>4 DEF NoNewLinks, IsLink, Exists, Kept
    <2> QED  BY <2>2, <2>3, <2>4, <2>5
  <1> QED  BY <1>1, <1>2, <1>3

\* An operation on what a path leads to or names, as one on the path.
LEMMA OnlyFollowed ==
  ASSUME NEW d, Sound(d), NEW p \in Path, NEW x, NEW t \in {Followed(d, p), Named(d, p)}, Only(d, x, t)
  PROVE  Only(d, x, p)
  <1>1. t \in Path /\ (t = p \/ ~Clear(t))
    BY FollowedDef, NamedDef
  <1> QED  BY <1>1, OnlyMoved

-----------------------------------------------------------------------------
(* Files of a configuration. *)

\* An entry of a configuration that names a file, a directory, a link or a fifo.
FileOK(e) ==
  /\ e \in Entry
  /\ e.kind = "file" => e.data = <<>> \/ IsHostPath(e.data)
  /\ e.kind = "link" => e.data \in Leads
  /\ e.kind \notin {"file", "link"} => e.data = <<>>

\* What is asked of a file, read from the disk.
StatusAt(d, p) == [owner |-> d[p].owner, mode |-> d[p].mode, data |-> d[p].data]

\* No link of another file is met at p or on the way.
Plain(d, e, p) == Straight(d, Front(p)) /\ (e.kind # "link" => ~IsLink(d, p))

\* A link that is new is the one asked for.
LinkAsked(d, x, e) ==
  \A q \in DOMAIN x \ DOMAIN d : x[q].kind = "link" => e.kind = "link"

LEMMA SourceOK ==
  ASSUME NEW d, Sound(d), NEW e, FileOK(e), ~BadSource(d, e)
  PROVE  Source(d, e) \in Path
  <1>1. CASE e.data = <<>>
    BY <1>1, SoundRoot DEF Source
  <1>2. CASE e.data # <<>>
    <2> DEFINE t == Followed(d, e.data)
    <2>1. t \in DOMAIN d
      BY <1>2 DEF BadSource, IsRegularFile, Exists
    <2> HIDE DEF t
    <2>2. d[t] \in Nodes
      BY <2>1, SoundNode
    <2> QED  BY <1>2, <2>2 DEF Source, Nodes, t
  <1> QED  BY <1>1, <1>2

\* A node made by one create call.
LEMMA MadeDef ==
  ASSUME NEW d, Sound(d), NEW p \in Path, NEW e, FileOK(e), NEW mode \in Text,
         e.kind # "file", mode = IF e.kind = "link" THEN "0777" ELSE e.mode,
         NEW r, r = Create(d, Named(d, p), e.kind, mode, e.data)
  PROVE  /\ r.ok \in BOOLEAN /\ Only(d, r.disk, p) /\ LinkAsked(d, r.disk, e)
         /\ r.ok /\ Plain(d, e, p) =>
              /\ p \in DOMAIN r.disk
              /\ r.disk[p].kind = e.kind /\ r.disk[p].mode = mode /\ r.disk[p].data = e.data
  <1> DEFINE t == Named(d, p)
  <1>1. /\ e.kind \in Kind /\ e.data \in Path
        /\ e.kind = "dir" => e.data = <<>>
        /\ e.kind = "link" => e.data \in Leads
    BY DEF FileOK, Entry
  <1>2. t \in Path /\ t \in {Followed(d, p), Named(d, p)} /\ (Straight(d, Front(p)) => t = p)
    BY NamedDef
  <1>3. r = Create(d, t, e.kind, mode, e.data)
    OBVIOUS
  <1> HIDE DEF t
  <1>4. /\ r.ok \in BOOLEAN /\ Only(d, r.disk, t) /\ (~r.ok => r.disk = d)
        /\ r.ok => /\ \A q : q \in DOMAIN r.disk <=> q \in DOMAIN d \/ q = t
                   /\ r.disk[t] = Node(e.kind, "root", mode, e.data, t)
    BY <1>1, <1>2, <1>3, CreateDef
  <1>5. Only(d, r.disk, p)
    BY <1>2, <1>4, OnlyFollowed
  <1>6. r.ok => /\ r.disk[t].kind = e.kind /\ r.disk[t].mode = mode /\ r.disk[t].data = e.data
                /\ t \in DOMAIN r.disk
    BY <1>4, NodeFields
  <1>7. LinkAsked(d, r.disk, e)
    BY <1>4, <1>6 DEF LinkAsked
  <1> QED  BY <1>2, <1>4, <1>5, <1>6, <1>7 DEF Plain

\* Each kind of file is made with the mode and contents asked for.
LEMMA MknodDef ==
  ASSUME NEW d, Sound(d), NEW p \in Path, NEW e, FileOK(e),
         NEW r, r = Mknod(d, e, p)
  PROVE  /\ r.ok \in BOOLEAN /\ Only(d, r.disk, p) /\ LinkAsked(d, r.disk, e)
         /\ r.ok /\ Plain(d, e, p) =>
              /\ p \in DOMAIN r.disk
              /\ r.disk[p].kind = "dir" <=> e.kind = "dir"
              /\ r.disk[p].mode = IF e.kind = "link" THEN "0777" ELSE e.mode
              /\ r.disk[p].data = IF e.kind = "file" THEN Source(d, e) ELSE e.data
         /\ r.ok /\ e.kind = "file" => ~BadSource(d, e)
  <1> DEFINE Goal == /\ r.ok \in BOOLEAN /\ Only(d, r.disk, p) /\ LinkAsked(d, r.disk, e)
                     /\ r.ok /\ Plain(d, e, p) =>
                          /\ p \in DOMAIN r.disk
                          /\ r.disk[p].kind = "dir" <=> e.kind = "dir"
                          /\ r.disk[p].mode = IF e.kind = "link" THEN "0777" ELSE e.mode
                          /\ r.disk[p].data = IF e.kind = "file" THEN Source(d, e) ELSE e.data
                     /\ r.ok /\ e.kind = "file" => ~BadSource(d, e)
             t == Followed(d, p)
  <1>1. /\ e.kind \in Kind /\ e.mode \in Text /\ e.owner \in Text /\ e.data \in Path
        /\ e.kind \notin {"file", "link"} => e.data = <<>>
    BY DEF FileOK, Entry
  <1>2. e.kind \in {"dir", "file", "device", "fifo", "link"}
    BY <1>1 DEF Kind
  <1>3. t \in Path /\ t \in {Followed(d, p), Named(d, p)}
    BY FollowedDef
  <1>4. Plain(d, e, p) /\ e.kind # "link" => t = p
    BY StraightFront, FollowedDef DEF Plain
  <1> HIDE DEF t
  <1>5. ASSUME e.kind = "dir", IsDirectory(d, t)  PROVE Goal
    <2>1. r = Chmod(d, t, e.mode)
      BY <1>5 DEF Mknod, MknodDirectory, t
    <2>2. t \in DOMAIN d /\ d[t].kind = "dir" /\ d[t].data = <<>>
      BY <1>5, SoundNode DEF IsDirectory, Exists
    <2>3. r.ok \in BOOLEAN /\ Only(d, r.disk, t) /\ \A q : q \in DOMAIN r.disk <=> q \in DOMAIN d
      BY <1>1, <2>1, ChmodDef
    <2>4. r.ok => r.disk[t] = Node(d[t].kind, d[t].owner, e.mode, d[t].data, d[t].ino)
      BY <1>1, <2>1, ChmodDef
    <2>5. r.ok => r.disk[t].kind = "dir" /\ r.disk[t].mode = e.mode /\ r.disk[t].data = <<>>
      BY <2>2, <2>4, NodeFields
    <2>6. Only(d, r.disk, p)
      BY <1>3, <2>3, OnlyFollowed
    <2>7. LinkAsked(d, r.disk, e)
      BY <2>3 DEF LinkAsked
    <2> QED  BY <1>1, <1>4, <1>5, <2>2, <2>3, <2>5, <2>6, <2>7
  <1>6. ASSUME NEW mode \in Text, e.kind # "file", r = Create(d, Named(d, p), e.kind, mode, e.data),
               mode = IF e.kind = "link" THEN "0777" ELSE e.mode
        PROVE  Goal
    <2>1. /\ r.ok \in BOOLEAN /\ Only(d, r.disk, p) /\ LinkAsked(d, r.disk, e)
          /\ r.ok /\ Plain(d, e, p) =>
               /\ p \in DOMAIN r.disk
               /\ r.disk[p].kind = e.kind /\ r.disk[p].mode = mode /\ r.disk[p].data = e.data
      BY <1>6, MadeDef
    <2> QED  BY <1>6, <2>1
  <1>7. ASSUME e.kind = "dir", ~IsDirectory(d, t)  PROVE Goal
    <2>1. r = Create(d, Named(d, p), e.kind, e.mode, <<>>) /\ e.data = <<>>
      BY <1>1, <1>7 DEF Mknod, MknodDirectory, t
    <2>2. r = Create(d, Named(d, p), e.kind, e.mode, e.data)
      BY <2>1
    <2>3. e.kind # "link" /\ e.kind # "file"
      BY <1>7
    <2> HIDE DEF Goal
    <2> QED  BY <1>1, <1>6, <2>2, <2>3
  <1>8. ASSUME e.kind \in {"device", "fifo"}  PROVE Goal
    <2>1. r = Create(d, Named(d, p), e.kind, e.mode, <<>>) /\ e.data = <<>>
      BY <1>1, <1>8 DEF Mknod, MknodDevice, MknodFifo
    <2>2. r = Create(d, Named(d, p), e.kind, e.mode, e.data)
      BY <2>1
    <2>3. e.kind # "link" /\ e.kind # "file" /\ e.kind # "dir"
      BY <1>8
    <2> HIDE DEF Goal
    <2> QED  BY <1>1, <1>6, <2>2, <2>3
  <1>9. ASSUME e.kind = "link"  PROVE Goal
    <2>1. r = Create(d, Named(d, p), e.kind, "0777", e.data)
      BY <1>9 DEF Mknod, MknodSymLink
    <2>2. "0777" \in Text /\ e.kind # "file" /\ e.kind # "dir"
      BY <1>9, TextsAssumption
    <2> HIDE DEF Goal
    <2> QED  BY <1>6, <1>9, <2>1, <2>2
  <1>10. ASSUME e.kind = "file", BadSource(d, e)  PROVE Goal
    <2>1. r = Failed(d)
      BY <1>10 DEF Mknod, MknodRegularFile
    <2>2. r.ok = FALSE /\ r.disk = d
      BY <2>1 DEF Failed
    <2> QED  BY <2>2, OnlyItself DEF LinkAsked
  <1>11. ASSUME e.kind = "file", ~BadSource(d, e)  PROVE Goal
    <2> DEFINE w == Write(d, t, Source(d, e))
               u == Followed(w.disk, p)
               c == Chmod(w.disk, u, e.mode)
    <2>1. r = IF w.ok THEN c ELSE w
      BY <1>11 DEF Mknod, MknodRegularFile, Then, t
    <2>2. Source(d, e) \in Path
      BY <1>11, SourceOK
    <2>3. /\ w.ok \in BOOLEAN /\ Only(d, w.disk, t) /\ (~w.ok => w.disk = d)
          /\ w.ok => /\ t \in DOMAIN w.disk /\ w.disk[t].data = Source(d, e)
                     /\ w.disk[t].kind \notin {"dir", "link"}
                     /\ \A q : q \in DOMAIN w.disk <=> q \in DOMAIN d \/ q = t
      BY <1>3, <2>2, WriteDef
    <2> HIDE DEF w
    <2>4. Sound(w.disk) /\ Only(d, w.disk, p)
      BY <1>3, <2>3, OnlyFollowed DEF Only
    <2>5. u \in Path /\ u \in {Followed(w.disk, p), Named(w.disk, p)}
      BY <2>4, FollowedDef
    <2>6. w.ok /\ t = p => u = p
      <3>1. w.ok /\ t = p => ~IsLink(w.disk, p) /\ p \in DOMAIN w.disk
        BY <2>3 DEF IsLink
      <3> QED  BY <2>4, <3>1, StraightFront, FollowedDef
    <2> HIDE DEF u
    <2>7. /\ c.ok \in BOOLEAN /\ Only(w.disk, c.disk, u)
          /\ \A q : q \in DOMAIN c.disk <=> q \in DOMAIN w.disk
      BY <1>1, <2>4, ChmodDef
    <2>8. c.ok => c.disk[u] = Node(w.disk[u].kind, w.disk[u].owner, e.mode, w.disk[u].data,
                                   w.disk[u].ino)
      BY <1>1, <2>4, ChmodDef
    <2> HIDE DEF c
    <2>9. c.ok => c.disk[u].kind = w.disk[u].kind /\ c.disk[u].mode = e.mode
                  /\ c.disk[u].data = w.disk[u].data
      BY <2>8, NodeFields
    <2>10. Only(w.disk, c.disk, p)
      BY <2>4, <2>5, <2>7, OnlyFollowed
    <2>11. r.ok \in BOOLEAN /\ Only(d, r.disk, p)
      BY <2>1, <2>3, <2>4, <2>7, <2>10, OnlyTrans
    <2>12. LinkAsked(d, r.disk, e)
      <3>1. ASSUME NEW q \in DOMAIN r.disk \ DOMAIN d  PROVE r.disk[q].kind # "link"
        <4>1. w.ok /\ q = t /\ w.disk[q].kind # "link" /\ q \in DOMAIN w.disk
          BY <2>1, <2>3, <2>7, <3>1
        <4>2. c.disk[q].kind = w.disk[q].kind
          BY <2>7, <4>1 DEF Only
        <4> QED  BY <2>1, <4>1, <4>2
      <3> QED  BY <3>1 DEF LinkAsked
    <2>13. r.ok => w.ok /\ r = c
      BY <2>1
    <2>14. r.ok /\ Plain(d, e, p) =>
             /\ p \in DOMAIN r.disk /\ r.disk[p].kind # "dir" /\ r.disk[p].mode = e.mode
             /\ r.disk[p].data = Source(d, e)
      BY <1>4, <1>11, <2>3, <2>6, <2>7, <2>9, <2>13
    <2> QED  BY <1>11, <2>11, <2>12, <2>14
  <1>12. Goal
    <2> HIDE DEF Goal
    <2> QED  BY <1>2, <1>5, <1>7, <1>8, <1>9, <1>10, <1>11
  <1> QED  BY <1>12

\* After creation a file that no link of another one leads to has the owner, mode and
\* contents asked for: the mode is set before lchown, which may drop bits of it.
LEMMA FileCreateDef ==
  ASSUME NEW d, Sound(d), NEW p \in Path, NEW e, FileOK(e),
         NEW r, r = FileCreate(d, e, p)
  PROVE  /\ r.ok \in BOOLEAN /\ Only(d, r.disk, p) /\ LinkAsked(d, r.disk, e)
         /\ r.ok /\ Plain(d, e, p) /\ (e.kind = "file" => Straight(d, e.data)) =>
              p \in DOMAIN r.disk /\ StatusAt(r.disk, p) = Asked(d, e)
         /\ r.ok /\ e.kind = "file" /\ Straight(d, e.data) => ~BadSource(d, e)
  <1> DEFINE m == MakeDirsTo(d, Front(p), "0777")
             k == Mknod(m.disk, e, p)
             n == IF m.ok THEN k ELSE m
             t == Named(n.disk, p)
             c == Lchown(n.disk, t, e.owner)
  <1>1. r = IF n.ok THEN c ELSE n
    BY DEF FileCreate, Then
  <1>2. "0777" \in Text /\ Front(p) \in Path /\ IsPrefix(Front(p), p)
    BY FrontDef, TextsAssumption
  <1>3. /\ m.ok \in BOOLEAN /\ Only(d, m.disk, p) /\ Kept(d, m.disk)
        /\ ~m.ok => m.disk = d
        /\ NoNewLinks(d, m.disk)
        /\ \A q \in DOMAIN m.disk \ DOMAIN d : m.disk[q].kind = "dir"
    BY <1>2, MakeDirsToDef
  <1> HIDE DEF m
  <1>4. Sound(m.disk) /\ e.data \in Path
    BY <1>3 DEF Only, FileOK, Entry
  <1>5. Plain(d, e, p) => Plain(m.disk, e, p)
    BY <1>3, StraightKept DEF Plain, NoNewLinks
  <1>6. k.ok \in BOOLEAN /\ Only(m.disk, k.disk, p) /\ LinkAsked(m.disk, k.disk, e)
    BY <1>4, MknodDef
  <1>7. k.ok /\ Plain(m.disk, e, p) =>
               /\ p \in DOMAIN k.disk
               /\ k.disk[p].kind = "dir" <=> e.kind = "dir"
               /\ k.disk[p].mode = IF e.kind = "link" THEN "0777" ELSE e.mode
               /\ k.disk[p].data = IF e.kind = "file" THEN Source(m.disk, e) ELSE e.data
    BY <1>4, MknodDef
  <1>8. k.ok /\ e.kind = "file" => ~BadSource(m.disk, e)
    BY <1>4, MknodDef
  <1> HIDE DEF k
  <1>9. n.ok \in BOOLEAN /\ Only(d, n.disk, p) /\ (n.ok => m.ok /\ k.ok /\ n = k)
    BY <1>3, <1>6, OnlyTrans
  <1>10. LinkAsked(d, n.disk, e)
    BY <1>3, <1>6 DEF LinkAsked, Only
  <1> HIDE DEF n
  <1>11. Sound(n.disk) /\ e.owner \in Text
    BY <1>9 DEF Only, FileOK, Entry
  <1>12. /\ t \in Path /\ t \in {Followed(n.disk, p), Named(n.disk, p)}
         /\ p \in DOMAIN n.disk => t = p
    BY <1>11, NamedDef, StraightFront
  <1> HIDE DEF t
  <1>13. /\ c.ok \in BOOLEAN /\ Only(n.disk, c.disk, t)
         /\ \A q : q \in DOMAIN c.disk <=> q \in DOMAIN n.disk
    BY <1>11, LchownDef
  <1>14. c.ok => c.disk[t] = Node(n.disk[t].kind, e.owner, WithoutSetId(n.disk[t].kind, n.disk[t].mode),
                                  n.disk[t].data, n.disk[t].ino)
    BY <1>11, LchownDef
  <1> HIDE DEF c
  <1>15. r.ok \in BOOLEAN /\ Only(d, r.disk, p)
    BY <1>1, <1>9, <1>11, <1>12, <1>13, OnlyFollowed, OnlyTrans
  <1>16. LinkAsked(d, r.disk, e)
    BY <1>1, <1>10, <1>13 DEF LinkAsked, Only
  <1>17. ASSUME Straight(d, e.data), ~BadSource(m.disk, e)
         PROVE  ~BadSource(d, e) /\ Source(m.disk, e) = Source(d, e)
    <2>1. Followed(d, e.data) = e.data /\ Followed(m.disk, e.data) = e.data
      BY <1>3, <1>4, <1>17, StraightKept, FollowedDef
    <2>2. CASE e.data = <<>>
      BY <2>2 DEF BadSource, Source
    <2>3. CASE e.data # <<>>
      <3>1. e.data \in DOMAIN m.disk /\ m.disk[e.data].kind = "file"
        BY <1>17, <2>1, <2>3 DEF BadSource, IsRegularFile, Exists
      <3>2. e.data \in DOMAIN d
        BY <1>3, <3>1
      <3>3. m.disk[e.data] = d[e.data]
        BY <1>3, <3>2 DEF Kept
      <3> QED  BY <2>1, <2>3, <3>1, <3>2, <3>3 DEF BadSource, Source, IsRegularFile, Exists
    <2> QED  BY <2>2, <2>3
  <1>18. ASSUME r.ok, Plain(d, e, p), e.kind = "file" => Straight(d, e.data)
         PROVE  p \in DOMAIN r.disk /\ StatusAt(r.disk, p) = Asked(d, e)
    <2>1. m.ok /\ k.ok /\ n = k /\ r = c /\ c.ok
      BY <1>1, <1>9, <1>18
    <2>2. p \in DOMAIN n.disk /\ t = p
      BY <1>5, <1>7, <1>12, <1>18, <2>1
    <2>3. p \in DOMAIN r.disk
      BY <1>13, <2>1, <2>2
    <2>4. /\ r.disk[p].owner = e.owner
          /\ r.disk[p].mode = WithoutSetId(k.disk[p].kind, k.disk[p].mode)
          /\ r.disk[p].data = k.disk[p].data
      BY <1>14, <2>1, <2>2, NodeFields
    <2>5. r.disk[p].mode = IF e.kind = "link" THEN "0777" ELSE WithoutSetId(e.kind, e.mode)
      BY <1>5, <1>7, <1>18, <2>1, <2>4 DEF WithoutSetId
    <2>6. r.disk[p].data = IF e.kind = "file" THEN Source(d, e) ELSE e.data
      BY <1>5, <1>7, <1>8, <1>17, <1>18, <2>1, <2>4
    <2> QED  BY <2>3, <2>4, <2>5, <2>6 DEF StatusAt, Asked
  <1>19. ASSUME r.ok, e.kind = "file", Straight(d, e.data)  PROVE ~BadSource(d, e)
    BY <1>1, <1>8, <1>9, <1>17, <1>19
  <1> QED  BY <1>15, <1>16, <1>18, <1>19

-----------------------------------------------------------------------------
(* The calls of a container. *)

\* setOwnerId and setMode.
LEMMA AttributesDef ==
  ASSUME NEW s, s.ok \in BOOLEAN, Sound(s.disk), NEW remote, NEW root, NEW owner \in Text,
         NEW mode \in Text, NEW p \in Path, p = KeepInRoot(remote, root),
         NEW r, r = Attributes(s, remote, owner, mode, root)
  PROVE  /\ r.ok \in BOOLEAN /\ Only(s.disk, r.disk, p)
         /\ r.ok => s.ok
         /\ r.ok /\ Straight(s.disk, p) =>
              /\ p \in DOMAIN s.disk /\ p \in DOMAIN r.disk
              /\ r.disk[p].owner = owner /\ r.disk[p].mode = mode
              /\ r.disk[p].data = s.disk[p].data
  <1> DEFINE t == Followed(s.disk, p)
             o == Chown(s.disk, t, owner)
             n == IF s.ok THEN o ELSE s
             u == Followed(n.disk, p)
             m == Chmod(n.disk, u, mode)
  <1>1. r = IF n.ok THEN m ELSE n
    BY DEF Attributes, SetOwnerId, SetMode, Then
  <1>2. t \in Path /\ t \in {Followed(s.disk, p), Named(s.disk, p)} /\ (Straight(s.disk, p) => t = p)
    BY FollowedDef
  <1> HIDE DEF t
  <1>3. /\ o.ok \in BOOLEAN /\ Only(s.disk, o.disk, t)
        /\ \A q : q \in DOMAIN o.disk <=> q \in DOMAIN s.disk
        /\ o.ok => t \in DOMAIN s.disk
    BY ChownDef
  <1>4. o.ok => o.disk[t] = Node(s.disk[t].kind, owner, WithoutSetId(s.disk[t].kind, s.disk[t].mode),
                                 s.disk[t].data, s.disk[t].ino)
    BY ChownDef
  <1> HIDE DEF o
  <1>5. /\ n.ok \in BOOLEAN /\ Only(s.disk, n.disk, p) /\ Sound(n.disk)
        /\ n.ok => s.ok /\ n = o /\ o.ok
        /\ NoNewLinks(s.disk, n.disk)
    <2>1. Only(s.disk, o.disk, p)
      BY <1>2, <1>3, OnlyFollowed
    <2>2. NoNewLinks(s.disk, o.disk)
      BY <1>3 DEF NoNewLinks, IsLink, Exists, Only
    <2> QED  BY <1>3, <2>1, <2>2, OnlyItself DEF Only, NoNewLinks
  <1> HIDE DEF n
  <1>6. u \in Path /\ u \in {Followed(n.disk, p), Named(n.disk, p)} /\ (Straight(s.disk, p) => u = p)
    BY <1>5, FollowedDef, StraightKept
  <1> HIDE DEF u
  <1>7. /\ m.ok \in BOOLEAN /\ Only(n.disk, m.disk, u)
    BY <1>5, ChmodDef
  <1>8. m.ok => m.disk[u] = Node(n.disk[u].kind, n.disk[u].owner, mode, n.disk[u].data, n.disk[u].ino)
    BY <1>5, ChmodDef
  <1> HIDE DEF m
  <1>9. r.ok \in BOOLEAN /\ Only(s.disk, r.disk, p)
    BY <1>1, <1>5, <1>6, <1>7, OnlyFollowed, OnlyTrans
  <1>10. r.ok => s.ok /\ n = o /\ o.ok /\ r = m /\ m.ok
    BY <1>1, <1>5
  <1>11. ASSUME r.ok, Straight(s.disk, p)
         PROVE  /\ p \in DOMAIN s.disk /\ p \in DOMAIN r.disk
                /\ r.disk[p].owner = owner /\ r.disk[p].mode = mode
                /\ r.disk[p].data = s.disk[p].data
    <2>1. t = p /\ u = p
      BY <1>2, <1>6, <1>11
    <2>2. p \in DOMAIN s.disk /\ p \in DOMAIN r.disk
      BY <1>3, <1>9, <1>10, <1>11, <2>1 DEF Only
    <2>3. o.disk[p].owner = owner /\ o.disk[p].data = s.disk[p].data
      BY <1>4, <1>10, <1>11, <2>1, NodeFields
    <2>4. r.disk[p].owner = o.disk[p].owner /\ r.disk[p].mode = mode /\ r.disk[p].data = o.disk[p].data
      BY <1>8, <1>10, <1>11, <2>1, NodeFields
    <2> QED  BY <2>2, <2>3, <2>4
  <1> QED  BY <1>9, <1>10, <1>11

\* What a push does before it copies.
LEMMA RoomDef ==
  ASSUME NEW d, Sound(d), NEW p \in Path, p # <<>>, NEW r, r = Room(d, p)
  PROVE  /\ r.ok \in BOOLEAN /\ Within(d, r.disk, p) /\ NoNewLinks(d, r.disk)
         /\ \A q \in DOMAIN r.disk : q \in DOMAIN d => r.disk[q] = d[q]
         /\ \A q \in DOMAIN r.disk \ DOMAIN d : r.disk[q].kind = "dir"
  <1> DEFINE m == CreateDirectories(d, Front(p))
             t == Named(m.disk, p)
             x == IF Found(m.disk, p) THEN RemoveAll(m.disk, t) ELSE m.disk
  <1>1. r = IF m.ok THEN Done(x) ELSE m
    BY DEF Room, Then
  <1>2. Front(p) \in Path /\ IsPrefix(Front(p), p) /\ Umasked \in Text
    BY FrontDef, TextsAssumption DEF Umasked
  <1>3. /\ m.ok \in BOOLEAN /\ Only(d, m.disk, p) /\ Kept(d, m.disk) /\ NoNewLinks(d, m.disk)
        /\ \A q \in DOMAIN m.disk \ DOMAIN d : m.disk[q].kind = "dir"
    BY <1>2, MakeDirsToDef DEF CreateDirectories
  <1> HIDE DEF m
  <1>4. Within(d, m.disk, p) /\ Sound(m.disk)
    BY <1>3, OnlyWithin, BelowItself, PrefixOrder DEF Only
  <1>5. t \in Path /\ t # <<>> /\ Below(p, t)
    BY <1>4, NamedDef, BelowItself, PrefixOrder DEF Below, Clear
  <1> HIDE DEF t
  <1>6. /\ Within(m.disk, RemoveAll(m.disk, t), t)
        /\ \A q : q \in DOMAIN RemoveAll(m.disk, t) => q \in DOMAIN m.disk /\ RemoveAll(m.disk, t)[q] = m.disk[q]
    BY <1>4, <1>5, RemoveAllDef
  <1>7. Within(m.disk, RemoveAll(m.disk, t), p)
    BY <1>4, <1>5, <1>6, WithinWeaken
  <1>8. Within(m.disk, x, p) /\ \A q : q \in DOMAIN x => q \in DOMAIN m.disk /\ x[q] = m.disk[q]
    BY <1>4, <1>6, <1>7, WithinItself
  <1> HIDE DEF x
  <1>9. Within(d, x, p)
    BY <1>4, <1>8, WithinTrans
  <1>10. Done(x).ok = TRUE /\ Done(x).disk = x
    BY DEF Done
  <1>11. r.disk \in {x, m.disk} /\ r.ok \in BOOLEAN
    BY <1>1, <1>3, <1>10
  <1>12. Within(d, r.disk, p)
    BY <1>4, <1>9, <1>11
  <1>13. \A q \in DOMAIN r.disk : q \in DOMAIN m.disk /\ r.disk[q] = m.disk[q]
    BY <1>8, <1>11
  <1>14. NoNewLinks(d, r.disk)
    BY <1>3, <1>13 DEF NoNewLinks, IsLink, Exists
  <1> QED  BY <1>3, <1>11, <1>12, <1>13, <1>14 DEF Kept

\* A push changes the disk below its target only, or where links lead; and what it
\* leaves there has the owner, mode and contents asked for if no link was met.
LEMMA PushDef ==
  ASSUME NEW d, Sound(d), NEW local \in Path, NEW remote \in Path, NEW owner \in Text,
         NEW mode \in Text, NEW root, IsRoot(root), NEW p, p = KeepInRoot(remote, root),
         NEW r, r = Push(d, local, remote, owner, mode, root)
  PROVE  /\ r.ok \in BOOLEAN /\ Within(d, r.disk, p)
         /\ r.ok /\ Straight(d, Front(p)) /\ Straight(d, local) =>
              /\ local \in DOMAIN d
              /\ p \in DOMAIN r.disk /\ r.disk[p].ino = p /\ r.disk[p].kind = "file"
              /\ r.disk[p].owner = owner /\ r.disk[p].mode = mode
              /\ r.disk[p].data = d[local].data
  <1> DEFINE m == Room(d, p)
             f == Followed(m.disk, local)
             t == Named(m.disk, p)
             k == CopyFile(m.disk, f, t)
             s == IF m.ok THEN k ELSE m
  <1>1. /\ p \in Path /\ IsPrefix(root, p) /\ p = KeepInRoot(remote, root)
    BY KeptPaths DEF IsRoot
  <1>2. r = Attributes(s, remote, owner, mode, root)
    BY <1>1 DEF Push, Then
  <1>3. p # <<>>
    BY <1>1, InRoot
  <1>4. /\ m.ok \in BOOLEAN /\ Within(d, m.disk, p) /\ NoNewLinks(d, m.disk)
        /\ \A q \in DOMAIN m.disk : q \in DOMAIN d => m.disk[q] = d[q]
        /\ \A q \in DOMAIN m.disk \ DOMAIN d : m.disk[q].kind = "dir"
    BY <1>1, <1>3, RoomDef
  <1> HIDE DEF m
  <1>5. Sound(m.disk)
    BY <1>4 DEF Within
  <1>6. /\ t \in Path /\ t \in {Followed(m.disk, p), Named(m.disk, p)} /\ f \in Path
        /\ Straight(d, Front(p)) => t = p
        /\ Straight(d, local) => f = local
    BY <1>1, <1>4, <1>5, NamedDef, FollowedDef, StraightKept
  <1> HIDE DEF t, f
  <1>7. /\ k.ok \in BOOLEAN /\ Only(m.disk, k.disk, t)
        /\ k.ok => t \in DOMAIN k.disk /\ f \in DOMAIN m.disk
    BY <1>5, <1>6, CopyFileDef
  <1>8. k.ok => /\ k.disk[t] = Node("file", "root", m.disk[f].mode, m.disk[f].data, t)
                /\ m.disk[f].kind = "file"
    BY <1>5, <1>6, CopyFileDef DEF IsRegularFile, CopyFile, Failed
  <1> HIDE DEF k
  <1>9. Within(m.disk, k.disk, p) /\ Sound(k.disk)
    <2>1. Only(m.disk, k.disk, p)
      BY <1>1, <1>5, <1>6, <1>7, OnlyFollowed
    <2>2. Below(p, p)
      BY <1>1, BelowItself, PrefixOrder
    <2> QED  BY <1>1, <1>5, <2>1, <2>2, OnlyWithin DEF Only
  <1>10. Within(d, k.disk, p)
    BY <1>1, <1>4, <1>9, WithinTrans
  <1>11. s.ok \in BOOLEAN /\ Within(d, s.disk, p) /\ Sound(s.disk) /\ (s.ok => m.ok /\ k.ok /\ s = k)
    BY <1>4, <1>5, <1>7, <1>9, <1>10
  <1> HIDE DEF s
  <1>12. /\ r.ok \in BOOLEAN /\ Only(s.disk, r.disk, p) /\ (r.ok => s.ok)
         /\ r.ok /\ Straight(s.disk, p) =>
              /\ p \in DOMAIN s.disk /\ p \in DOMAIN r.disk
              /\ r.disk[p].owner = owner /\ r.disk[p].mode = mode
              /\ r.disk[p].data = s.disk[p].data
    BY <1>1, <1>2, <1>11, AttributesDef
  <1>13. Within(d, r.disk, p)
    BY <1>1, <1>11, <1>12, OnlyWithin, WithinTrans, BelowItself, PrefixOrder
  <1>14. ASSUME r.ok, Straight(d, Front(p)), Straight(d, local)
         PROVE  /\ local \in DOMAIN d
                /\ p \in DOMAIN r.disk /\ r.disk[p].ino = p /\ r.disk[p].kind = "file"
                /\ r.disk[p].owner = owner /\ r.disk[p].mode = mode
                /\ r.disk[p].data = d[local].data
    <2>1. m.ok /\ k.ok /\ s = k /\ t = p /\ f = local
      BY <1>6, <1>11, <1>12, <1>14
    <2>2. local \in DOMAIN m.disk /\ m.disk[local].kind = "file" /\ p \in DOMAIN k.disk
      BY <1>7, <1>8, <2>1
    <2>3. k.disk[p].kind = "file" /\ k.disk[p].ino = p /\ k.disk[p].data = m.disk[local].data
      <3>1. k.disk[p] = Node("file", "root", m.disk[local].mode, m.disk[local].data, p)
        BY <1>8, <2>1
      <3> QED  BY <3>1 DEF Node
    <2>4. local \in DOMAIN d /\ m.disk[local] = d[local]
      BY <1>4, <2>2
    <2>5. Straight(s.disk, p)
      <3>1. ~IsLink(k.disk, p)
        BY <2>3 DEF IsLink
      <3> QED  BY <1>1, <1>9, <2>1, <2>2, <3>1, StraightFront
    <2>6. r.disk[p].ino = p /\ r.disk[p].kind = "file"
      BY <1>12, <2>1, <2>2, <2>3 DEF Only
    <2> QED  BY <1>12, <1>14, <2>1, <2>3, <2>4, <2>5, <2>6
  <1> QED  BY <1>12, <1>13, <1>14

\* A linked push changes the disk below its target only, or where links lead.
LEMMA PushLinkDef ==
  ASSUME NEW d, Sound(d), NEW local, IsHostPath(local), NEW remote \in Path, NEW owner \in Text,
         NEW mode \in Text, NEW root, IsRoot(root), NEW p, p = KeepInRoot(remote, root),
         NEW r, r = PushLink(d, local, remote, owner, mode, root)
  PROVE  r.ok \in BOOLEAN /\ Within(d, r.disk, p)
  <1> DEFINE m == Room(d, p)
             f == Named(m.disk, local)
             t == Named(m.disk, p)
             k == Link(m.disk, f, t)
             s == IF m.ok THEN k ELSE m
  <1>1. /\ p \in Path /\ IsPrefix(root, p) /\ p = KeepInRoot(remote, root)
    BY KeptPaths DEF IsRoot
  <1>2. r = Attributes(s, remote, owner, mode, root)
    BY <1>1 DEF PushLink, Then
  <1>3. p # <<>> /\ local \in Path
    BY <1>1, InRoot
  <1>4. m.ok \in BOOLEAN /\ Within(d, m.disk, p)
    BY <1>1, <1>3, RoomDef
  <1> HIDE DEF m
  <1>5. Sound(m.disk)
    BY <1>4 DEF Within
  <1>6. f \in Path /\ IsHostPath(f)
    BY <1>3, <1>5, NamedDef, HostBelow
  <1>7. t \in Path /\ Below(p, t)
    BY <1>1, <1>5, NamedDef, BelowItself, PrefixOrder DEF Below, Clear
  <1> HIDE DEF f, t
  <1>8. k.ok \in BOOLEAN /\ Within(m.disk, k.disk, t)
    BY <1>5, <1>6, <1>7, LinkDef
  <1> HIDE DEF k
  <1>9. Within(d, k.disk, p)
    BY <1>1, <1>4, <1>5, <1>7, <1>8, WithinTrans, WithinWeaken
  <1>10. s.ok \in BOOLEAN /\ Within(d, s.disk, p) /\ Sound(s.disk)
    BY <1>4, <1>8, <1>9 DEF Within
  <1> HIDE DEF s
  <1>11. r.ok \in BOOLEAN /\ Only(s.disk, r.disk, p)
    BY <1>1, <1>2, <1>10, AttributesDef
  <1>12. Within(d, r.disk, p)
    BY <1>1, <1>10, <1>11, OnlyWithin, WithinTrans, BelowItself, PrefixOrder
  <1> QED  BY <1>11, <1>12

\* copy() makes to, of the kind and contents of from.
LEMMA CopyDef ==
  ASSUME NEW d, Sound(d), NEW from \in Path, NEW to \in Path, from \in DOMAIN d,
         NEW c, c = Copy(d, from, to)
  PROVE  /\ c.ok \in BOOLEAN /\ Only(d, c.disk, to) /\ Kept(d, c.disk)
         /\ c.ok => /\ to \in DOMAIN c.disk
                    /\ c.disk[to].kind = d[from].kind /\ c.disk[to].data = d[from].data
  <1>1. /\ d[from] \in Nodes /\ (d[from].kind = "dir" => d[from].data = <<>>)
        /\ d[from].kind = "link" => d[from].data \in Leads
    BY SoundNode
  <1>2. ASSUME NEW kind \in Kind, NEW mode \in Text, kind = d[from].kind,
               c = Create(d, to, kind, mode, d[from].data)
        PROVE  /\ c.ok \in BOOLEAN /\ Only(d, c.disk, to) /\ Kept(d, c.disk)
               /\ c.ok => /\ to \in DOMAIN c.disk
                          /\ c.disk[to].kind = d[from].kind /\ c.disk[to].data = d[from].data
    <2> DEFINE data == d[from].data
    <2>1. data \in Path /\ (kind = "dir" => data = <<>>) /\ (kind = "link" => data \in Leads)
      BY <1>1, <1>2 DEF Nodes
    <2>2. c = Create(d, to, kind, mode, data)
      BY <1>2
    <2> HIDE DEF data
    <2>3. /\ c.ok \in BOOLEAN /\ Only(d, c.disk, to) /\ Kept(d, c.disk)
          /\ c.ok => to \in DOMAIN c.disk /\ c.disk[to] = Node(kind, "root", mode, data, to)
      BY <2>1, <2>2, CreateDef
    <2>4. c.ok => c.disk[to].kind = kind /\ c.disk[to].data = data
      BY <2>3, NodeFields
    <2> QED  BY <1>2, <2>3, <2>4 DEF data
  <1>3. {"dir", "link", "file"} \subseteq Kind /\ "0777" \in Text /\ d[from].mode \in Text
    BY <1>1, TextsAssumption DEF Kind, Nodes
  <1>4. CASE d[from].kind = "dir"
    <2>1. IsDirectory(d, from) /\ ~IsLink(d, from) /\ d[from].data = <<>>
      BY <1>1, <1>4 DEF IsDirectory, IsLink, Exists
    <2>2. c = Create(d, to, "dir", d[from].mode, d[from].data)
      <3>1. c = Create(d, to, "dir", d[from].mode, <<>>)
        BY <2>1 DEF Copy
      <3> QED  BY <2>1, <3>1
    <2> QED  BY <1>2, <1>3, <1>4, <2>2
  <1>5. CASE d[from].kind = "link"
    <2>1. c = Create(d, to, "link", "0777", d[from].data)
      BY <1>5 DEF Copy, IsDirectory, IsLink, Exists
    <2> QED  BY <1>2, <1>3, <1>5, <2>1
  <1>6. CASE d[from].kind \notin {"dir", "link"}
    <2>1. c = CopyFile(d, from, to)
      BY <1>6 DEF Copy, IsDirectory, IsLink, Exists
    <2>2. CASE d[from].kind = "file"
      <3>1. c = Create(d, to, "file", d[from].mode, d[from].data)
        BY <2>1, <2>2 DEF CopyFile, IsRegularFile, Exists
      <3> QED  BY <1>2, <1>3, <2>2, <3>1
    <2>3. CASE d[from].kind # "file"
      <3>1. c = Failed(d)
        BY <2>1, <2>3 DEF CopyFile, IsRegularFile
      <3> QED  BY <3>1, OnlyItself DEF Failed, Kept
    <2> QED  BY <2>2, <2>3
  <1> QED  BY <1>4, <1>5, <1>6

\* A pull changes the local file only, or where links lead, and nothing that was there.
LEMMA PullDef ==
  ASSUME NEW d, Sound(d), NEW local \in Path, NEW remote \in Path, NEW root \in Path,
         NEW p, p = KeepInRoot(remote, root),
         NEW r, r = Pull(d, remote, local, root)
  PROVE  /\ r.ok \in BOOLEAN /\ Only(d, r.disk, local) /\ Kept(d, r.disk)
         /\ r.ok /\ Straight(d, Front(local)) =>
              /\ local \in DOMAIN r.disk
              /\ p \in DOMAIN d => /\ r.disk[local].kind = d[p].kind
                                   /\ r.disk[local].data = d[p].data
  <1> DEFINE m == CreateDirectories(d, Front(local))
             f == Named(m.disk, p)
             t == Named(m.disk, local)
             c == Copy(m.disk, f, t)
             bad == ~Found(m.disk, p) \/ Found(m.disk, local)
  <1>1. r = IF m.ok THEN (IF bad THEN Failed(m.disk) ELSE c) ELSE m
    BY DEF Pull, Then
  <1>2. /\ p \in Path /\ Front(local) \in Path /\ IsPrefix(Front(local), local) /\ Umasked \in Text
    BY KeptPaths, FrontDef, TextsAssumption DEF Umasked
  <1>3. /\ m.ok \in BOOLEAN /\ Only(d, m.disk, local) /\ Kept(d, m.disk)
        /\ NoNewLinks(d, m.disk)
    BY <1>2, MakeDirsToDef DEF CreateDirectories
  <1> HIDE DEF m
  <1>4. Sound(m.disk)
    BY <1>3 DEF Only
  <1>5. /\ f \in Path /\ t \in Path /\ t \in {Followed(m.disk, local), Named(m.disk, local)}
        /\ Straight(d, Front(local)) => t = local
        /\ p \in DOMAIN d => f = p
    BY <1>2, <1>3, <1>4, NamedDef, StraightFront, StraightKept DEF Kept
  <1> HIDE DEF f, t
  <1>6. CASE m.ok /\ ~bad /\ f \in DOMAIN m.disk
    <2>1. r = c
      BY <1>1, <1>6
    <2> HIDE DEF c
    <2>2. /\ c.ok \in BOOLEAN /\ Only(m.disk, c.disk, t) /\ Kept(m.disk, c.disk)
          /\ c.ok => /\ t \in DOMAIN c.disk
                     /\ c.disk[t].kind = m.disk[f].kind /\ c.disk[t].data = m.disk[f].data
      BY <1>4, <1>5, <1>6, CopyDef DEF c
    <2>3. Only(d, c.disk, local) /\ Kept(d, c.disk)
      BY <1>3, <1>4, <1>5, <2>2, OnlyFollowed, OnlyTrans DEF Kept
    <2>4. p \in DOMAIN d => m.disk[p] = d[p]
      BY <1>3 DEF Kept
    <2> QED  BY <1>5, <2>1, <2>2, <2>3, <2>4
  <1>7. CASE ~m.ok \/ bad
    <2>1. r.ok = FALSE /\ r.disk = m.disk
      BY <1>1, <1>3, <1>7 DEF Failed
    <2> QED  BY <1>3, <2>1
  <1>8. CASE m.ok /\ ~bad /\ f \notin DOMAIN m.disk
    <2>1. r = c /\ c = Failed(m.disk)
      BY <1>1, <1>8 DEF Copy, CopyFile, IsDirectory, IsLink, IsRegularFile, Exists
    <2>2. r.ok = FALSE /\ r.disk = m.disk
      BY <2>1 DEF Failed
    <2> QED  BY <1>3, <2>2
  <1> QED  BY <1>6, <1>7, <1>8
=============================================================================
