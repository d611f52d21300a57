---------------------------- MODULE CliProofs -----------------------------
(***************************************************************************)
(* Containers with their clients: builders of tasks and the command line   *)
(* program.  The theorems hold for any number of clients, all options, all *)
(* configurations and all tasks.                                           *)
(***************************************************************************)
EXTENDS Cli, ContainerProofs

-----------------------------------------------------------------------------
(* Groups: each setter keeps what is known of a task. *)

\* Where the value of a field comes from.
Value == {"struct", "default", "replaced", "asked"}

\* The streams of a task.
StreamValue == [path : {"/dev/null", "/stdin", "/stdout", "/stderr"}, accessMode : {"READ_ONLY", "WRITE_ONLY", "READ_WRITE"}]
           \cup [pipeId : Nat, end : {"READ", "WRITE"}] \cup [fd : Nat]

\* A map of descriptors.
DescriptorMap == UNION {[D -> StreamValue] : D \in SUBSET Nat}

\* A process of a task.
ProcessValue == [id : Nat, fields : [Fields -> Value], descriptors : DescriptorMap]

\* The settings asked for, by process and field.
Wanted == UNION {[K -> Value] : K \in SUBSET (Int \X Fields)}

\* A task with what was asked of it.
Group ==
  [processes : Seq(ProcessValue), pipesNumber : Nat, notifiers : Seq(StreamValue),
   resourceLimits : Value, processDefaults : Value, ends : SUBSET StreamValue, wanted : Wanted]

\* The last value a caller set, or the initial one.
LastSet(g, key, initial) == IF key \in DOMAIN g.wanted THEN g.wanted[key] ELSE initial

\* A pipe end of a pipe that was made.
Made(g, s) == IsEnd(s) => s.pipeId < g.pipesNumber

\* A task agrees with the calls that built it, and its pipes were made.
GroupOK(g) ==
  /\ g \in Group
  /\ g.resourceLimits = LastSet(g, <<TheGroup, "resourceLimits">>, "default")
  /\ \A i \in DOMAIN g.processes :
       /\ g.processes[i].id = i - 1
       /\ \A f \in Fields : g.processes[i].fields[f] = LastSet(g, <<i - 1, f>>, "struct")
       /\ \A fd \in DOMAIN g.processes[i].descriptors : Made(g, g.processes[i].descriptors[fd])
  /\ \A i \in DOMAIN g.notifiers : IsEnd(g.notifiers[i]) /\ Made(g, g.notifiers[i])
  /\ \A s \in g.ends : IsEnd(s) /\ Made(g, s)
  /\ \A id \in Nat, f \in Fields : id >= Len(g.processes) => <<id, f>> \notin DOMAIN g.wanted

LEMMA StreamFacts ==
  /\ \A p, m : ~IsEnd(File(p, m))
  /\ \A n, e : IsEnd(End(n, e)) /\ End(n, e).pipeId = n
  /\ \A n : ~IsEnd(FdAlias(n))
  /\ \A p \in {"/dev/null", "/stdin", "/stdout", "/stderr"}, m \in {"READ_ONLY", "WRITE_ONLY", "READ_WRITE"} :
       File(p, m) \in StreamValue
  /\ \A n \in Nat, e \in {"READ", "WRITE"} : End(n, e) \in StreamValue
  /\ \A n \in Nat : FdAlias(n) \in StreamValue
  BY DEF IsEnd, File, End, FdAlias, StreamValue

LEMMA CreateGroupOK == GroupOK(CreateGroup)
  <1>1. <<>> \in Wanted
    <2>1. <<>> \in [{} -> Value] /\ {} \in SUBSET (Int \X Fields)
      OBVIOUS
    <2> QED  BY <2>1 DEF Wanted
  <1>2. NewGroup \in Group
    BY <1>1 DEF NewGroup, Group, Value
  <1>3. /\ NewGroup.processes = <<>> /\ NewGroup.wanted = <<>> /\ NewGroup.notifiers = <<>>
        /\ NewGroup.ends = {}
    BY DEF NewGroup
  <1>4. "default" \in Value
    BY DEF Value
  <1>5. CreateGroup \in Group
    BY <1>2, <1>4 DEF CreateGroup, Group
  <1>6. /\ CreateGroup.processes = <<>> /\ CreateGroup.wanted = <<>> /\ CreateGroup.notifiers = <<>>
        /\ CreateGroup.ends = {} /\ CreateGroup.resourceLimits = "default"
    BY <1>2, <1>3 DEF CreateGroup, Group
  <1>7. DOMAIN <<>> = {}
    OBVIOUS
  <1> QED  BY <1>5, <1>6, <1>7 DEF GroupOK, LastSet

LEMMA WantedPut ==
  ASSUME NEW w \in Wanted, NEW k \in Int \X Fields, NEW v \in Value
  PROVE  /\ Put(w, k, v) \in Wanted
         /\ DOMAIN Put(w, k, v) = DOMAIN w \cup {k}
         /\ Put(w, k, v)[k] = v
         /\ \A x \in DOMAIN w : x # k => Put(w, k, v)[x] = w[x]
  <1>1. PICK K \in SUBSET (Int \X Fields) : w \in [K -> Value]
    BY DEF Wanted
  <1>2. Put(w, k, v) \in [K \cup {k} -> Value] /\ K \cup {k} \in SUBSET (Int \X Fields)
    BY <1>1 DEF Put
  <1>3. Put(w, k, v) \in Wanted
    BY <1>2 DEF Wanted
  <1> QED  BY <1>1, <1>3 DEF Put

LEMMA StreamsPut ==
  ASSUME NEW w \in DescriptorMap, NEW k \in Nat, NEW v \in StreamValue
  PROVE  /\ Put(w, k, v) \in DescriptorMap
         /\ DOMAIN Put(w, k, v) = DOMAIN w \cup {k}
         /\ Put(w, k, v)[k] = v
         /\ \A x \in DOMAIN w : x # k => Put(w, k, v)[x] = w[x]
  <1>1. PICK K \in SUBSET Nat : w \in [K -> StreamValue]
    BY DEF DescriptorMap
  <1>2. Put(w, k, v) \in [K \cup {k} -> StreamValue]
    BY <1>1 DEF Put
  <1> QED  BY <1>1, <1>2 DEF Put, DescriptorMap

\* A setter of a process.
LEMMA SetFieldOK ==
  ASSUME NEW g, GroupOK(g), NEW id \in Nat, id + 1 \in DOMAIN g.processes, NEW f \in Fields, NEW v \in Value
  PROVE  GroupOK(SetField(g, id, f, v)) /\ Len(SetField(g, id, f, v).processes) = Len(g.processes)
  <1> DEFINE h == SetField(g, id, f, v)
             k == <<id, f>>
             p == g.processes[id + 1]
             q == [p EXCEPT !.fields[f] = v]
  <1>1. g \in Group /\ g.processes \in Seq(ProcessValue) /\ p \in ProcessValue /\ DOMAIN g.processes = 1 .. Len(g.processes)
    BY DEF GroupOK, Group
  <1>2. q \in ProcessValue /\ q.id = p.id /\ q.descriptors = p.descriptors /\ q.fields = [p.fields EXCEPT ![f] = v]
    BY <1>1 DEF ProcessValue
  <1>3. /\ h.processes = [g.processes EXCEPT ![id + 1] = q] /\ h.wanted = Put(g.wanted, k, v)
        /\ h.pipesNumber = g.pipesNumber /\ h.notifiers = g.notifiers /\ h.ends = g.ends
        /\ h.resourceLimits = g.resourceLimits
    BY <1>1 DEF SetField, Group
  <1>4. h.processes \in Seq(ProcessValue) /\ Len(h.processes) = Len(g.processes) /\ DOMAIN h.processes = DOMAIN g.processes
    BY <1>1, <1>2, <1>3
  <1>5. k \in Int \X Fields
    <2>1. f \in Fields /\ id \in Int
      OBVIOUS
    <2> QED  BY <2>1
  <1>6. /\ h.wanted \in Wanted
        /\ DOMAIN h.wanted = DOMAIN g.wanted \cup {k}
        /\ h.wanted[k] = v
        /\ \A x \in DOMAIN g.wanted : x # k => h.wanted[x] = g.wanted[x]
    <2>1. g.wanted \in Wanted
      BY <1>1 DEF Group
    <2> HIDE DEF k, h
    <2>2. /\ Put(g.wanted, k, v) \in Wanted
          /\ DOMAIN Put(g.wanted, k, v) = DOMAIN g.wanted \cup {k}
          /\ Put(g.wanted, k, v)[k] = v
          /\ \A x \in DOMAIN g.wanted : x # k => Put(g.wanted, k, v)[x] = g.wanted[x]
      BY <2>1, <1>5, WantedPut
    <2> QED  BY <2>2, <1>3
  <1>7. h \in Group
    <2>1. h = [processes |-> h.processes, pipesNumber |-> g.pipesNumber, notifiers |-> g.notifiers,
               resourceLimits |-> g.resourceLimits, processDefaults |-> g.processDefaults, ends |-> g.ends,
               wanted |-> h.wanted]
      <3>1. g = [processes |-> g.processes, pipesNumber |-> g.pipesNumber, notifiers |-> g.notifiers,
               resourceLimits |-> g.resourceLimits, processDefaults |-> g.processDefaults, ends |-> g.ends,
               wanted |-> g.wanted]
        BY <1>1 DEF Group
      <3>2. h = [[g EXCEPT !.processes = h.processes] EXCEPT !.wanted = h.wanted]
        BY <1>1 DEF SetField, Group
      <3> QED  BY <3>1, <3>2
    <2> QED  BY <1>1, <1>4, <1>6, <2>1 DEF Group
  <1> HIDE DEF h, q, k, p
  <1>8. \A key, i : key # k => LastSet(h, key, i) = LastSet(g, key, i)
    BY <1>6 DEF LastSet
  <1>9. <<TheGroup, "resourceLimits">> # k
    BY DEF k, TheGroup
  <1>10. ASSUME NEW i \in DOMAIN h.processes
         PROVE  /\ h.processes[i].id = i - 1
                /\ \A x \in Fields : h.processes[i].fields[x] = LastSet(h, <<i - 1, x>>, "struct")
                /\ \A fd \in DOMAIN h.processes[i].descriptors : Made(h, h.processes[i].descriptors[fd])
    <2>1. CASE i = id + 1
      <3>1. h.processes[i] = q /\ i - 1 = id
        BY <1>1, <1>3, <1>4, <2>1
      <3>2. LastSet(h, k, "struct") = v /\ p.fields \in [Fields -> Value]
        BY <1>1, <1>6 DEF LastSet, ProcessValue
      <3>3. ASSUME NEW x \in Fields, x # f  PROVE q.fields[x] = LastSet(h, <<id, x>>, "struct")
        BY <1>2, <1>8, <2>1, <3>1, <3>2, <3>3 DEF GroupOK, p, k
      <3>4. q.fields[f] = LastSet(h, <<id, f>>, "struct")
        BY <1>2, <3>2 DEF k
      <3>5. \A fd \in DOMAIN q.descriptors : Made(h, q.descriptors[fd])
        BY <1>2, <1>3 DEF GroupOK, Made, p
      <3> QED  BY <1>2, <2>1, <3>1, <3>3, <3>4, <3>5 DEF GroupOK, p
    <2>2. CASE i # id + 1
      <3>1. h.processes[i] = g.processes[i] /\ i \in DOMAIN g.processes /\ i \in Int
        BY <1>1, <1>3, <1>4, <2>2
      <3>2. \A x : <<i - 1, x>> # k
        BY <2>2, <3>1 DEF k
      <3>3. g.processes[i].id = i - 1 /\ \A fd \in DOMAIN g.processes[i].descriptors : Made(g, g.processes[i].descriptors[fd])
        BY <3>1 DEF GroupOK
      <3>4. \A x \in Fields : g.processes[i].fields[x] = LastSet(g, <<i - 1, x>>, "struct")
        BY <3>1 DEF GroupOK
      <3>5. \A x \in Fields : LastSet(h, <<i - 1, x>>, "struct") = LastSet(g, <<i - 1, x>>, "struct")
        BY <1>8, <3>2
      <3> QED  BY <1>3, <3>1, <3>3, <3>4, <3>5 DEF Made
    <2> QED  BY <2>1, <2>2
  <1>11. \A n \in Nat, x \in Fields : n >= Len(h.processes) => <<n, x>> \notin DOMAIN h.wanted
    <2>1. id < Len(g.processes)
      BY <1>1
    <2> QED  BY <1>1, <1>4, <1>6, <2>1 DEF GroupOK, k
  <1> QED  BY <1>3, <1>4, <1>7, <1>8, <1>9, <1>10, <1>11 DEF GroupOK, Made, h

LEMMA ProcessFacts ==
  ASSUME NEW g, GroupOK(g), NEW i \in DOMAIN g.processes
  PROVE  /\ g.processes[i] \in ProcessValue /\ g.processes[i].descriptors \in DescriptorMap
         /\ \A x \in DOMAIN g.processes[i].descriptors :
              g.processes[i].descriptors[x] \in StreamValue /\ Made(g, g.processes[i].descriptors[x])
  <1>1. g.processes \in Seq(ProcessValue)
    BY DEF GroupOK, Group
  <1>2. g.processes[i] \in ProcessValue
    BY <1>1
  <1>3. \A p \in ProcessValue : p.descriptors \in DescriptorMap
    BY DEF ProcessValue
  <1>4. \A ds \in DescriptorMap : \A x \in DOMAIN ds : ds[x] \in StreamValue
    BY DEF DescriptorMap
  <1> QED  BY <1>2, <1>3, <1>4 DEF GroupOK

\* What changes the descriptors of one process only.
LEMMA DescriptorsOK ==
  ASSUME NEW g, GroupOK(g), NEW id \in Nat, id + 1 \in DOMAIN g.processes, NEW ds \in DescriptorMap,
         \A fd \in DOMAIN ds : Made(g, ds[fd]),
         NEW h, h = [g EXCEPT !.processes[id + 1].descriptors = ds]
  PROVE  GroupOK(h) /\ Len(h.processes) = Len(g.processes) /\ h.ends = g.ends
  <1> DEFINE p == g.processes[id + 1]
             q == [p EXCEPT !.descriptors = ds]
  <1>1. g \in Group /\ g.processes \in Seq(ProcessValue) /\ p \in ProcessValue /\ DOMAIN g.processes = 1 .. Len(g.processes)
    BY DEF GroupOK, Group
  <1>2. q \in ProcessValue /\ q.id = p.id /\ q.descriptors = ds /\ q.fields = p.fields
    BY <1>1 DEF ProcessValue
  <1>3. /\ h = [g EXCEPT !.processes = [g.processes EXCEPT ![id + 1] = q]]
        /\ h.processes = [g.processes EXCEPT ![id + 1] = q] /\ h.wanted = g.wanted
        /\ h.pipesNumber = g.pipesNumber /\ h.notifiers = g.notifiers /\ h.ends = g.ends
        /\ h.resourceLimits = g.resourceLimits
    BY <1>1 DEF Group
  <1>4. h.processes \in Seq(ProcessValue) /\ Len(h.processes) = Len(g.processes) /\ DOMAIN h.processes = DOMAIN g.processes
    BY <1>1, <1>2, <1>3
  <1>5. h \in Group
    BY <1>1, <1>3, <1>4 DEF Group
  <1>6. \A s : Made(h, s) <=> Made(g, s)
    BY <1>3 DEF Made
  <1>7. /\ \A n, f : LastSet(h, <<n, f>>, "struct") = LastSet(g, <<n, f>>, "struct")
        /\ LastSet(h, <<TheGroup, "resourceLimits">>, "default") = LastSet(g, <<TheGroup, "resourceLimits">>, "default")
    BY <1>3 DEF LastSet
  <1>8. ASSUME NEW i \in DOMAIN g.processes
        PROVE  /\ h.processes[i].id = i - 1
               /\ \A x \in Fields : h.processes[i].fields[x] = LastSet(g, <<i - 1, x>>, "struct")
               /\ \A fd \in DOMAIN h.processes[i].descriptors : Made(g, h.processes[i].descriptors[fd])
    <2>1. CASE i = id + 1
      <3>1. h.processes[i] = q
        BY <1>1, <1>3, <2>1
      <3>2. p.id = i - 1 /\ \A x \in Fields : p.fields[x] = LastSet(g, <<i - 1, x>>, "struct")
        BY <2>1 DEF GroupOK
      <3> HIDE DEF p, q
      <3> QED  BY <1>2, <3>1, <3>2
    <2>2. CASE i # id + 1
      <3>1. h.processes[i] = g.processes[i]
        BY <1>1, <1>3, <2>2
      <3>2. /\ g.processes[i].id = i - 1
            /\ \A x \in Fields : g.processes[i].fields[x] = LastSet(g, <<i - 1, x>>, "struct")
            /\ \A fd \in DOMAIN g.processes[i].descriptors : Made(g, g.processes[i].descriptors[fd])
        BY DEF GroupOK
      <3> QED  BY <3>1, <3>2
    <2> QED  BY <2>1, <2>2
  <1> HIDE DEF p, q
  <1>9. \A i \in DOMAIN h.processes :
          /\ h.processes[i].id = i - 1
          /\ \A f \in Fields : h.processes[i].fields[f] = LastSet(h, <<i - 1, f>>, "struct")
          /\ \A fd \in DOMAIN h.processes[i].descriptors : Made(h, h.processes[i].descriptors[fd])
    <2> SUFFICES ASSUME NEW i \in DOMAIN g.processes
                 PROVE  /\ h.processes[i].id = i - 1
                        /\ \A f \in Fields : h.processes[i].fields[f] = LastSet(h, <<i - 1, f>>, "struct")
                        /\ \A fd \in DOMAIN h.processes[i].descriptors : Made(h, h.processes[i].descriptors[fd])
      BY <1>4
    <2> QED  BY <1>6, <1>7, <1>8
  <1>10. h.resourceLimits = LastSet(h, <<TheGroup, "resourceLimits">>, "default")
    BY <1>3, <1>7 DEF GroupOK
  <1>11. \A n \in Nat, f \in Fields : n >= Len(h.processes) => <<n, f>> \notin DOMAIN h.wanted
    BY <1>3, <1>4 DEF GroupOK
  <1>12. (\A i \in DOMAIN h.notifiers : IsEnd(h.notifiers[i]) /\ Made(h, h.notifiers[i])) /\ (\A s \in h.ends : IsEnd(s) /\ Made(h, s))
    BY <1>3, <1>6 DEF GroupOK
  <1> QED  BY <1>3, <1>4, <1>5, <1>9, <1>10, <1>11, <1>12 DEF GroupOK

\* A setter of a stream.
LEMMA SetStreamOK ==
  ASSUME NEW g, GroupOK(g), NEW id \in Nat, id + 1 \in DOMAIN g.processes, NEW fd \in Nat, NEW s \in StreamValue,
         Made(g, s)
  PROVE  LET h == SetStream(g, id, fd, s)
         IN  GroupOK(h) /\ Len(h.processes) = Len(g.processes) /\ h.ends = g.ends
  <1> DEFINE was == g.processes[id + 1].descriptors
             ds == Put(was, fd, s)
  <1>1. was \in DescriptorMap /\ \A x \in DOMAIN was : Made(g, was[x])
    BY ProcessFacts
  <1>2. ds \in DescriptorMap /\ \A x \in DOMAIN ds : Made(g, ds[x])
    <2> HIDE DEF was
    <2>1. /\ ds \in DescriptorMap
          /\ DOMAIN ds = DOMAIN was \cup {fd}
          /\ ds[fd] = s
          /\ \A x \in DOMAIN was : x # fd => ds[x] = was[x]
      BY <1>1, StreamsPut
    <2> HIDE DEF ds
    <2> QED  BY <1>1, <2>1
  <1>3. SetStream(g, id, fd, s) = [g EXCEPT !.processes[id + 1].descriptors = ds]
    BY DEF SetStream
  <1> HIDE DEF ds
  <1> QED  BY <1>2, <1>3, DescriptorsOK

LEMMA CloseStreamOK ==
  ASSUME NEW g, GroupOK(g), NEW id \in Nat, id + 1 \in DOMAIN g.processes, NEW fd \in Nat
  PROVE  GroupOK(CloseStream(g, id, fd))
  <1> DEFINE was == g.processes[id + 1].descriptors
             ds == [x \in DOMAIN was \ {fd} |-> was[x]]
  <1>1. was \in DescriptorMap /\ \A x \in DOMAIN was : Made(g, was[x])
    BY ProcessFacts
  <1>2. ds \in DescriptorMap /\ \A x \in DOMAIN ds : Made(g, ds[x])
    <2> HIDE DEF was
    <2>1. PICK D \in SUBSET Nat : was \in [D -> StreamValue]
      BY <1>1 DEF DescriptorMap
    <2>2. ds \in [D \ {fd} -> StreamValue] /\ D \ {fd} \in SUBSET Nat
      BY <2>1
    <2>3. ds \in DescriptorMap
      BY <2>2 DEF DescriptorMap
    <2> QED  BY <1>1, <2>3
  <1>3. CloseStream(g, id, fd) = [g EXCEPT !.processes[id + 1].descriptors = ds]
    BY DEF CloseStream
  <1> DEFINE h == CloseStream(g, id, fd)
  <1> HIDE DEF h
  <1>4. h = [g EXCEPT !.processes[id + 1].descriptors = ds]
    BY <1>3 DEF h
  <1>5. GroupOK(h)
    BY <1>2, <1>4, DescriptorsOK
  <1> QED  BY <1>5 DEF h

\* Default settings reach processes that come later.
LEMMA DefaultsOK ==
  ASSUME NEW g, GroupOK(g)
  PROVE  GroupOK(SetProcessDefaultSettings(g))
  <1> DEFINE h == SetProcessDefaultSettings(g)
  <1>1. g \in Group /\ "replaced" \in Value
    BY DEF GroupOK, Value
  <1>2. h \in Group /\ h.processes = g.processes /\ h.wanted = g.wanted /\ h.notifiers = g.notifiers
        /\ h.ends = g.ends /\ h.resourceLimits = g.resourceLimits /\ h.pipesNumber = g.pipesNumber
    BY <1>1 DEF Group, SetProcessDefaultSettings
  <1> HIDE DEF h
  <1> QED  BY <1>2 DEF GroupOK, LastSet, Made, h

LEMMA SetGroupLimitsOK ==
  ASSUME NEW g, GroupOK(g), NEW v \in Value
  PROVE  GroupOK(SetGroupLimits(g, v)) /\ SetGroupLimits(g, v).processes = g.processes
  <1> DEFINE h == SetGroupLimits(g, v)
             k == <<TheGroup, "resourceLimits">>
  <1>1. g \in Group /\ g.wanted \in Wanted /\ k \in Int \X Fields
    <2>1. g \in Group /\ g.wanted \in Wanted
      BY DEF GroupOK, Group
    <2>2. TheGroup \in Int /\ "resourceLimits" \in Fields
      BY DEF TheGroup, Fields, Defaulted
    <2> QED  BY <2>1, <2>2
  <1>2. /\ Put(g.wanted, k, v) \in Wanted
        /\ DOMAIN Put(g.wanted, k, v) = DOMAIN g.wanted \cup {k}
        /\ Put(g.wanted, k, v)[k] = v
        /\ \A x \in DOMAIN g.wanted : x # k => Put(g.wanted, k, v)[x] = g.wanted[x]
    <2> HIDE DEF k
    <2> QED  BY <1>1, WantedPut
  <1>3. /\ h \in Group /\ h.processes = g.processes /\ h.wanted = Put(g.wanted, k, v) /\ h.notifiers = g.notifiers
        /\ h.ends = g.ends /\ h.resourceLimits = v /\ h.pipesNumber = g.pipesNumber
    <2> DEFINE w == Put(g.wanted, k, v)
    <2>1. h = [g EXCEPT !.resourceLimits = v, !.wanted = w]
      BY <1>1 DEF SetGroupLimits, Group
    <2> HIDE DEF w, h
    <2> QED  BY <1>1, <1>2, <2>1 DEF Group, w
  <1>4. \A n \in Nat, f \in Fields : <<n, f>> # k
    BY DEF TheGroup
  <1>5. DOMAIN g.processes \subseteq Nat \ {0}
    BY <1>1 DEF Group
  <1> HIDE DEF h, k
  <1>6. \A n \in Nat, f \in Fields : LastSet(h, <<n, f>>, "struct") = LastSet(g, <<n, f>>, "struct")
    BY <1>2, <1>3, <1>4 DEF LastSet
  <1>7. \A i \in DOMAIN g.processes : i - 1 \in Nat
    BY <1>5
  <1>8. LastSet(h, k, "default") = v
    BY <1>2, <1>3 DEF LastSet
  <1>9. \A s : Made(h, s) <=> Made(g, s)
    BY <1>3 DEF Made
  <1>10. \A i \in DOMAIN g.processes :
         /\ g.processes[i].id = i - 1
         /\ \A f \in Fields : g.processes[i].fields[f] = LastSet(h, <<i - 1, f>>, "struct")
         /\ \A fd \in DOMAIN g.processes[i].descriptors : Made(h, g.processes[i].descriptors[fd])
    BY <1>6, <1>7, <1>9 DEF GroupOK
  <1>11. \A id \in Nat, f \in Fields : id >= Len(h.processes) => <<id, f>> \notin DOMAIN h.wanted
    BY <1>2, <1>3, <1>4 DEF GroupOK
  <1> QED  BY <1>3, <1>8, <1>9, <1>10, <1>11 DEF GroupOK, k, h

-----------------------------------------------------------------------------
(* Pipes and notifiers. *)

\* More pipes and ends, or other notifiers.
LEMMA EndsOK ==
  ASSUME NEW g, GroupOK(g), NEW n \in Nat, n >= g.pipesNumber, NEW ns \in Seq(StreamValue), NEW es \in SUBSET StreamValue,
         \A i \in DOMAIN ns : IsEnd(ns[i]) /\ ns[i].pipeId < n,
         \A s \in es : IsEnd(s) /\ s.pipeId < n,
         NEW h, h = [g EXCEPT !.pipesNumber = n, !.notifiers = ns, !.ends = es]
  PROVE  GroupOK(h)
  <1>1. g \in Group /\ g.pipesNumber \in Nat
    BY DEF GroupOK, Group
  <1>2. h \in Group /\ h.processes = g.processes /\ h.wanted = g.wanted /\ h.notifiers = ns
        /\ h.ends = es /\ h.resourceLimits = g.resourceLimits /\ h.pipesNumber = n
    BY <1>1 DEF Group
  <1>3. ASSUME NEW s \in StreamValue, Made(g, s)  PROVE Made(h, s)
    <2>1. IsEnd(s) => s.pipeId \in Nat
      BY DEF IsEnd, StreamValue
    <2> QED  BY <1>1, <1>2, <1>3, <2>1 DEF Made
  <1>4. ASSUME NEW i \in DOMAIN g.processes, NEW fd \in DOMAIN g.processes[i].descriptors
        PROVE  Made(h, g.processes[i].descriptors[fd])
    <2>1. g.processes[i].descriptors[fd] \in StreamValue /\ Made(g, g.processes[i].descriptors[fd])
      BY ProcessFacts
    <2> QED  BY <1>3, <2>1
  <1>5. /\ \A k, f : LastSet(h, <<k, f>>, "struct") = LastSet(g, <<k, f>>, "struct")
        /\ LastSet(h, <<TheGroup, "resourceLimits">>, "default") = LastSet(g, <<TheGroup, "resourceLimits">>, "default")
    BY <1>2 DEF LastSet
  <1>6. \A i \in DOMAIN g.processes : /\ g.processes[i].id = i - 1
          /\ \A f \in Fields : g.processes[i].fields[f] = LastSet(h, <<i - 1, f>>, "struct")
    BY <1>5 DEF GroupOK
  <1>7. /\ h.resourceLimits = LastSet(h, <<TheGroup, "resourceLimits">>, "default")
        /\ \A k \in Nat, f \in Fields : k >= Len(h.processes) => <<k, f>> \notin DOMAIN h.wanted
    BY <1>2, <1>5 DEF GroupOK
  <1>8. (\A i \in DOMAIN h.notifiers : IsEnd(h.notifiers[i]) /\ Made(h, h.notifiers[i])) /\ (\A s \in h.ends : IsEnd(s) /\ Made(h, s))
    BY <1>2 DEF Made
  <1> QED  BY <1>2, <1>4, <1>6, <1>7, <1>8 DEF GroupOK

LEMMA PipeFacts ==
  ASSUME NEW g, GroupOK(g)
  PROVE  /\ g \in Group /\ g.pipesNumber \in Nat /\ NewPipe(g) = g.pipesNumber
         /\ \A s \in g.ends : s \in StreamValue /\ s.pipeId \in Nat /\ s.pipeId < g.pipesNumber /\ IsEnd(s)
         /\ g.notifiers \in Seq(StreamValue)
         /\ \A i \in DOMAIN g.notifiers : /\ IsEnd(g.notifiers[i]) /\ g.notifiers[i].pipeId \in Nat
                                           /\ g.notifiers[i].pipeId < g.pipesNumber
         /\ \A w \in {ReadEnd(NewPipe(g)), WriteEnd(NewPipe(g))} :
              w \in StreamValue /\ IsEnd(w) /\ w.pipeId = g.pipesNumber
  <1>1. g \in Group /\ g.pipesNumber \in Nat /\ g.notifiers \in Seq(StreamValue) /\ g.ends \in SUBSET StreamValue
    BY DEF GroupOK, Group
  <1>2. \A s \in StreamValue : IsEnd(s) => s.pipeId \in Nat
    BY DEF IsEnd, StreamValue
  <1>3. \A i \in DOMAIN g.notifiers : g.notifiers[i] \in StreamValue
    BY <1>1
  <1>4. \A w \in {ReadEnd(NewPipe(g)), WriteEnd(NewPipe(g))} :
           w \in StreamValue /\ IsEnd(w) /\ w.pipeId = g.pipesNumber
    BY <1>1, StreamFacts DEF ReadEnd, WriteEnd, NewPipe
  <1> QED  BY <1>1, <1>2, <1>3, <1>4 DEF GroupOK, Made, NewPipe

LEMMA CreatePipeOK ==
  ASSUME NEW g, GroupOK(g)
  PROVE  GroupOK(CreatePipe(g))
  <1> DEFINE n == g.pipesNumber + 1
             es == g.ends \cup {ReadEnd(NewPipe(g)), WriteEnd(NewPipe(g))}
             h == CreatePipe(g)
  <1>1. n \in Nat /\ n >= g.pipesNumber /\ es \in SUBSET StreamValue /\ g.notifiers \in Seq(StreamValue)
    BY PipeFacts
  <1>2. \A s \in es : IsEnd(s) /\ s.pipeId < n
    BY PipeFacts
  <1>3. \A i \in DOMAIN g.notifiers : IsEnd(g.notifiers[i]) /\ g.notifiers[i].pipeId < n
    BY PipeFacts
  <1>4. h = [g EXCEPT !.pipesNumber = n, !.notifiers = g.notifiers, !.ends = es]
    BY PipeFacts DEF CreatePipe, Group
  <1> HIDE DEF n, es, h
  <1>5. GroupOK(h)
    BY <1>1, <1>2, <1>3, <1>4, EndsOK
  <1> QED  BY <1>5 DEF h

LEMMA AddNotifierToOK ==
  ASSUME NEW g, GroupOK(g), NEW s \in StreamValue, IsEnd(s), Made(g, s)
  PROVE  GroupOK(AddNotifierTo(g, s))
  <1> DEFINE ns == Append(g.notifiers, s)
             h == AddNotifierTo(g, s)
  <1>1. ns \in Seq(StreamValue) /\ g.pipesNumber \in Nat /\ g.ends \in SUBSET StreamValue
    BY PipeFacts
  <1>2. \A x \in g.ends : IsEnd(x) /\ x.pipeId < g.pipesNumber
    BY PipeFacts
  <1>3. \A i \in DOMAIN ns : IsEnd(ns[i]) /\ ns[i].pipeId < g.pipesNumber
    BY PipeFacts DEF Made
  <1>4. h = [g EXCEPT !.pipesNumber = g.pipesNumber, !.notifiers = ns, !.ends = g.ends]
    BY PipeFacts DEF AddNotifierTo, Group
  <1> HIDE DEF ns, h
  <1>5. g.pipesNumber >= g.pipesNumber
    BY <1>1
  <1>6. GroupOK(h)
    BY <1>1, <1>2, <1>3, <1>4, <1>5, EndsOK
  <1> QED  BY <1>6 DEF h

\* addNotifier makes a pipe of its own.
LEMMA AddNotifierOK ==
  ASSUME NEW g, GroupOK(g)
  PROVE  GroupOK(AddNotifier(g))
  <1> DEFINE n == g.pipesNumber + 1
             es == g.ends \cup {ReadEnd(NewPipe(g))}
             h == [g EXCEPT !.pipesNumber = n, !.ends = es]
  <1>1. n \in Nat /\ n >= g.pipesNumber /\ es \in SUBSET StreamValue /\ g.notifiers \in Seq(StreamValue)
    BY PipeFacts
  <1>2. \A s \in es : IsEnd(s) /\ s.pipeId < n
    BY PipeFacts
  <1>3. \A i \in DOMAIN g.notifiers : IsEnd(g.notifiers[i]) /\ g.notifiers[i].pipeId < n
    BY PipeFacts
  <1>4. h = [g EXCEPT !.pipesNumber = n, !.notifiers = g.notifiers, !.ends = es]
    BY PipeFacts DEF Group
  <1>5. h.pipesNumber = n
    BY PipeFacts DEF Group
  <1>6. AddNotifier(g) = AddNotifierTo(h, WriteEnd(NewPipe(g)))
    BY DEF AddNotifier
  <1> HIDE DEF es, h
  <1>7. GroupOK(h)
    BY <1>1, <1>2, <1>3, <1>4, EndsOK
  <1>8. WriteEnd(NewPipe(g)) \in StreamValue /\ IsEnd(WriteEnd(NewPipe(g))) /\ Made(h, WriteEnd(NewPipe(g)))
    BY <1>5, PipeFacts DEF Made
  <1> QED  BY <1>6, <1>7, <1>8, AddNotifierToOK

LEMMA SetNotifierOK ==
  ASSUME NEW g, GroupOK(g), NEW id \in Nat, NEW s \in StreamValue, IsEnd(s), Made(g, s)
  PROVE  GroupOK(SetNotifier(g, id, s))
  <1> SUFFICES ASSUME id < Len(g.notifiers)
               PROVE  GroupOK([g EXCEPT !.notifiers[id + 1] = s])
    BY DEF SetNotifier
  <1> DEFINE ns == [g.notifiers EXCEPT ![id + 1] = s]
             h == [g EXCEPT !.notifiers[id + 1] = s]
  <1>1. ns \in Seq(StreamValue) /\ g.pipesNumber \in Nat /\ g.ends \in SUBSET StreamValue /\ DOMAIN ns = DOMAIN g.notifiers
    <2>1. g.notifiers \in Seq(StreamValue) /\ g.pipesNumber \in Nat /\ g.ends \in SUBSET StreamValue
      BY PipeFacts
    <2> QED  BY <2>1
  <1>2. \A x \in g.ends : IsEnd(x) /\ x.pipeId < g.pipesNumber
    BY PipeFacts
  <1>3. \A i \in DOMAIN ns : IsEnd(ns[i]) /\ ns[i].pipeId < g.pipesNumber
    BY PipeFacts DEF Made
  <1>4. h = [g EXCEPT !.pipesNumber = g.pipesNumber, !.notifiers = ns, !.ends = g.ends]
    BY PipeFacts DEF Group
  <1> HIDE DEF ns, h
  <1>5. g.pipesNumber >= g.pipesNumber
    BY <1>1
  <1>6. GroupOK(h)
    BY <1>1, <1>2, <1>3, <1>4, <1>5, EndsOK
  <1> QED  BY <1>6 DEF h

\* createProcess takes the defaults in force.
LEMMA CreateProcessOK ==
  ASSUME NEW g, GroupOK(g)
  PROVE  /\ GroupOK(CreateProcess(g))
         /\ Len(CreateProcess(g).processes) = Len(g.processes) + 1
  <1> DEFINE id == Len(g.processes)
             p == SetUpProcess(NewProcess(id), g.processDefaults)
             over == [key \in {id} \X Defaulted |-> g.processDefaults]
             w == Over(over, g.wanted)
             h == CreateProcess(g)
  <1>1. /\ g \in Group /\ g.processes \in Seq(ProcessValue) /\ id \in Nat /\ DOMAIN g.processes = 1 .. id
        /\ g.wanted \in Wanted /\ g.processDefaults \in Value
    BY DEF GroupOK, Group
  <1>2. /\ p.id = id
        /\ p.fields = [f \in Fields |-> IF f \in Defaulted THEN g.processDefaults ELSE "struct"]
        /\ p.descriptors = Over([fd \in 0 .. 2 |-> DevNull], <<>>)
        /\ p = [id |-> p.id, fields |-> p.fields, descriptors |-> p.descriptors]
    BY DEF SetUpProcess, NewProcess
  <1>3. p.fields \in [Fields -> Value]
    BY <1>1, <1>2 DEF Value
  <1>4. p.descriptors = [fd \in 0 .. 2 |-> DevNull]
    <2>1. DOMAIN <<>> = {}
      OBVIOUS
    <2> QED  BY <1>2, <2>1 DEF Over
  <1>5. p.descriptors \in DescriptorMap
    <2>1. DevNull \in StreamValue /\ 0 .. 2 \in SUBSET Nat
      BY DEF DevNull, File, StreamValue
    <2>2. [fd \in 0 .. 2 |-> DevNull] \in [0 .. 2 -> StreamValue]
      BY <2>1
    <2> QED  BY <1>4, <2>1, <2>2 DEF DescriptorMap
  <1>6. p \in ProcessValue
    BY <1>1, <1>2, <1>3, <1>5 DEF ProcessValue
  <1>7. w \in Wanted /\ DOMAIN w = DOMAIN g.wanted \cup ({id} \X Defaulted)
        /\ (\A key \in {id} \X Defaulted : w[key] = g.processDefaults)
        /\ \A key \in DOMAIN g.wanted : key \notin {id} \X Defaulted => w[key] = g.wanted[key]
    <2>1. PICK K \in SUBSET (Int \X Fields) : g.wanted \in [K -> Value]
      BY <1>1 DEF Wanted
    <2>2. {id} \X Defaulted \subseteq Int \X Fields
      BY <1>1 DEF Fields
    <2>3. w \in [({id} \X Defaulted) \cup K -> Value]
      BY <1>1, <2>1 DEF Over
    <2>4. w \in Wanted
      BY <2>1, <2>2, <2>3 DEF Wanted
    <2> QED  BY <2>1, <2>4 DEF Over
  <1>8. h = [g EXCEPT !.processes = Append(g.processes, p), !.wanted = w]
    BY <1>1 DEF CreateProcess, Group
  <1> HIDE DEF h, w, p, over
  <1>9. /\ h \in Group /\ h.processes = Append(g.processes, p) /\ h.wanted = w /\ h.notifiers = g.notifiers
        /\ h.ends = g.ends /\ h.resourceLimits = g.resourceLimits /\ h.pipesNumber = g.pipesNumber
    <2> DEFINE ps == Append(g.processes, p)
    <2>1. ps \in Seq(ProcessValue)
      BY <1>1, <1>6
    <2> HIDE DEF ps
    <2> QED  BY <1>1, <1>7, <1>8, <2>1 DEF Group, ps
  <1>10. /\ Len(h.processes) = id + 1 /\ DOMAIN h.processes = 1 .. (id + 1)
         /\ (\A i \in 1 .. id : h.processes[i] = g.processes[i])
         /\ h.processes[id + 1] = p
    BY <1>1, <1>6, <1>9
  <1>11. \A s : Made(h, s) <=> Made(g, s)
    BY <1>9 DEF Made
  <1>12. LastSet(h, <<TheGroup, "resourceLimits">>, "default") = LastSet(g, <<TheGroup, "resourceLimits">>, "default")
    <2>1. <<TheGroup, "resourceLimits">> \notin {id} \X Defaulted
      BY <1>1 DEF TheGroup
    <2> QED  BY <1>7, <1>9, <2>1 DEF LastSet
  <1>13. \A i \in DOMAIN h.processes :
          /\ h.processes[i].id = i - 1
          /\ \A f \in Fields : h.processes[i].fields[f] = LastSet(h, <<i - 1, f>>, "struct")
          /\ \A fd \in DOMAIN h.processes[i].descriptors : Made(h, h.processes[i].descriptors[fd])
    <2> SUFFICES ASSUME NEW i \in 1 .. (id + 1)
                 PROVE  /\ h.processes[i].id = i - 1
                        /\ \A f \in Fields : h.processes[i].fields[f] = LastSet(h, <<i - 1, f>>, "struct")
                        /\ \A fd \in DOMAIN h.processes[i].descriptors : Made(h, h.processes[i].descriptors[fd])
      BY <1>10
    <2>1. CASE i = id + 1
      <3>1. i - 1 = id /\ h.processes[i] = p
        BY <1>1, <1>10, <2>1
      <3>2. ASSUME NEW f \in Fields  PROVE p.fields[f] = LastSet(h, <<id, f>>, "struct")
        <4>1. CASE f \in Defaulted
          <5>1. <<id, f>> \in {id} \X Defaulted
            BY <4>1
          <5> QED  BY <1>2, <1>7, <1>9, <4>1, <5>1 DEF LastSet
        <4>2. CASE f \notin Defaulted
          <5>1. <<id, f>> \notin DOMAIN g.wanted
            BY <1>1 DEF GroupOK
          <5>2. <<id, f>> \notin {id} \X Defaulted
            BY <4>2
          <5> QED  BY <1>2, <1>7, <1>9, <4>2, <5>1, <5>2 DEF LastSet
        <4> QED  BY <4>1, <4>2
      <3>3. \A fd \in DOMAIN p.descriptors : Made(h, p.descriptors[fd])
        BY <1>4, StreamFacts DEF DevNull, Made
      <3> QED  BY <1>2, <3>1, <3>2, <3>3
    <2>2. CASE i # id + 1
      <3>1. i \in DOMAIN g.processes /\ i - 1 # id /\ i \in Int /\ h.processes[i] = g.processes[i]
        BY <1>1, <1>10, <2>2
      <3>2. ASSUME NEW f \in Fields  PROVE g.processes[i].fields[f] = LastSet(h, <<i - 1, f>>, "struct")
        <4>1. <<i - 1, f>> \notin {id} \X Defaulted
          BY <3>1
        <4>2. LastSet(h, <<i - 1, f>>, "struct") = LastSet(g, <<i - 1, f>>, "struct")
          BY <1>7, <1>9, <4>1 DEF LastSet
        <4> QED  BY <3>1, <4>2 DEF GroupOK
      <3>3. g.processes[i].id = i - 1 /\ \A fd \in DOMAIN g.processes[i].descriptors : Made(g, g.processes[i].descriptors[fd])
        BY <3>1 DEF GroupOK
      <3> QED  BY <1>11, <3>1, <3>2, <3>3
    <2> QED  BY <2>1, <2>2
  <1>14. \A n \in Nat, f \in Fields : n >= Len(h.processes) => <<n, f>> \notin DOMAIN h.wanted
    <2> SUFFICES ASSUME NEW n \in Nat, NEW f \in Fields, n >= id + 1  PROVE <<n, f>> \notin DOMAIN w
      BY <1>9, <1>10
    <2>1. <<n, f>> \notin DOMAIN g.wanted
      BY <1>1 DEF GroupOK
    <2>2. <<n, f>> \notin {id} \X Defaulted
      BY <1>1
    <2> QED  BY <1>7, <2>1, <2>2
  <1>15. (\A i \in DOMAIN h.notifiers : IsEnd(h.notifiers[i]) /\ Made(h, h.notifiers[i])) /\ (\A s \in h.ends : IsEnd(s) /\ Made(h, s))
    BY <1>9, <1>11 DEF GroupOK
  <1>16. GroupOK(h)
    BY <1>9, <1>12, <1>13, <1>14, <1>15 DEF GroupOK
  <1> QED  BY <1>10, <1>16 DEF h

-----------------------------------------------------------------------------
(* Every task is as built. *)

\* The group of each client, and every task it has sent.
GroupsInv ==
  /\ group = [c \in Clients |-> group[c]] /\ sent = [c \in Clients |-> sent[c]]
  /\ step = [c \in Clients |-> step[c]]
  /\ \A c \in Clients : /\ GroupOK(group[c])
                        /\ \A g \in sent[c] : GroupOK(g)
                        /\ role[c] = "cli" /\ step[c] = "feeding" => 1 \in DOMAIN group[c].processes

LEMMA CliTaskOK == GroupOK(CliTask) /\ 1 \in DOMAIN CliTask.processes
  <1> DEFINE a == SetGroupLimits(CreateGroup, LimitsOfTask)
             b == CreateProcess(a)
             d == SetField(b, 0, "arguments", "asked")
             e == SetField(d, 0, "resourceLimits", LimitsOfTask)
  <1>0. LimitsOfTask \in Value /\ "asked" \in Value /\ "arguments" \in Fields /\ "resourceLimits" \in Fields
    BY DEF LimitsOfTask, Value, Fields, Defaulted
  <1>1. GroupOK(a)
    BY <1>0, CreateGroupOK, SetGroupLimitsOK
  <1> HIDE DEF a
  <1>len. \A g : GroupOK(g) => Len(g.processes) \in Nat /\ DOMAIN g.processes = 1 .. Len(g.processes)
    BY DEF GroupOK, Group
  <1>2. GroupOK(b) /\ Len(b.processes) = Len(a.processes) + 1
    BY <1>1, CreateProcessOK
  <1> HIDE DEF b
  <1>3. 0 + 1 \in DOMAIN b.processes
    BY <1>1, <1>2, <1>len
  <1>4. GroupOK(d) /\ Len(d.processes) = Len(b.processes)
    BY <1>0, <1>2, <1>3, SetFieldOK
  <1> HIDE DEF d
  <1>5. 0 + 1 \in DOMAIN d.processes
    BY <1>2, <1>3, <1>4, <1>len
  <1>6. GroupOK(e) /\ Len(e.processes) = Len(d.processes)
    BY <1>0, <1>4, <1>5, SetFieldOK
  <1>7. 1 \in DOMAIN e.processes
    BY <1>4, <1>5, <1>6, <1>len
  <1>8. CliTask = e
    BY DEF CliTask, d, b, a
  <1> QED  BY <1>6, <1>7, <1>8

LEMMA StreamsOK ==
  ASSUME NEW g, GroupOK(g), 1 \in DOMAIN g.processes, NEW o
  PROVE  GroupOK(Streams(g, o))
  <1> DEFINE named(r, fd, file, stream) == IF file = NoFile THEN r ELSE SetStream(r, 0, fd, stream)
             a == named(g, 0, o.stdin, File("/stdin", "READ_ONLY"))
             b == named(a, 1, o.stdout, File("/stdout", "WRITE_ONLY"))
             d == named(b, 2, o.stderr, File("/stderr", "WRITE_ONLY"))
  <1>len. \A h : GroupOK(h) => Len(h.processes) \in Nat /\ DOMAIN h.processes = 1 .. Len(h.processes)
    BY DEF GroupOK, Group
  <1>1. ASSUME NEW h, GroupOK(h), 1 \in DOMAIN h.processes, NEW fd \in Nat, NEW file,
               NEW p \in {"/dev/null", "/stdin", "/stdout", "/stderr"}, NEW m \in {"READ_ONLY", "WRITE_ONLY", "READ_WRITE"}
        PROVE  GroupOK(named(h, fd, file, File(p, m))) /\ 1 \in DOMAIN named(h, fd, file, File(p, m)).processes
    <2>1. CASE file = NoFile
      BY <1>1, <2>1
    <2>2. CASE file # NoFile
      <3> DEFINE k == SetStream(h, 0, fd, File(p, m))
      <3>1. File(p, m) \in StreamValue /\ Made(h, File(p, m)) /\ 0 + 1 \in DOMAIN h.processes
        BY <1>1, StreamFacts DEF Made
      <3>2. GroupOK(k) /\ Len(k.processes) = Len(h.processes)
        BY <1>1, <3>1, SetStreamOK
      <3>3. 1 \in DOMAIN k.processes
        BY <1>1, <3>2, <1>len
      <3> QED  BY <2>2, <3>2, <3>3
    <2> QED  BY <2>1, <2>2
  <1> HIDE DEF named
  <1>2. GroupOK(a) /\ 1 \in DOMAIN a.processes
    BY <1>1
  <1> HIDE DEF a
  <1>3. GroupOK(b) /\ 1 \in DOMAIN b.processes
    BY <1>1, <1>2
  <1> HIDE DEF b
  <1>4. GroupOK(d)
    BY <1>1, <1>3
  <1> QED  BY <1>4 DEF Streams, d, b, a, named

\* A call of a builder makes one group of another.
LEMMA ExtendOK ==
  ASSUME NEW c \in Clients, GroupOK(group[c]), Extend(c) \/ Set(c)
  PROVE  \E g : GroupOK(g) /\ Build(c, g) /\ role[c] = "builder"
  <1> DEFINE g == group[c]
  <1>1. role[c] = "builder"
    BY DEF Extend, Set, MayBuild
  <1>2. CASE Extend(c)
    BY <1>1, <1>2, CreateProcessOK, CreatePipeOK, AddNotifierOK DEF Extend
  <1>3. CASE Set(c)
    <2> DEFINE ids == {p.id : p \in ToSet(g.processes)}
    <2>1. \A id \in ids : id \in Nat /\ id + 1 \in DOMAIN g.processes
      <3>1. DOMAIN g.processes = 1 .. Len(g.processes) /\ \A i \in DOMAIN g.processes : g.processes[i].id = i - 1
        BY DEF GroupOK, Group
      <3> QED  BY <3>1 DEF ToSet
    <2>2. \A s \in g.ends : s \in StreamValue /\ IsEnd(s) /\ Made(g, s)
      BY PipeFacts DEF Made
    <2>3. FdAlias(2) \in StreamValue /\ Made(g, FdAlias(2))
      BY StreamFacts DEF Made
    <2>4. "asked" \in Value /\ "ownerId" \in Fields /\ "name" \in Fields
      BY DEF Value, Fields, Defaulted
    <2>5. \/ Build(c, SetGroupLimits(g, "asked"))
          \/ Build(c, SetProcessDefaultSettings(g))
          \/ \E id \in ids, f \in {"ownerId", "name"} : Build(c, SetField(g, id, f, "asked"))
          \/ \E id \in ids, s \in g.ends \cup {FdAlias(2)} : Build(c, SetStream(g, id, 1, s))
          \/ \E id \in ids : Build(c, CloseStream(g, id, 2))
          \/ \E end \in g.ends : Build(c, AddNotifierTo(g, end))
          \/ \E n \in 0 .. 1, end \in g.ends : Build(c, SetNotifier(g, n, end))
      BY <1>3 DEF Set
    <2> HIDE DEF ids, g
    <2>6. GroupOK(g)
      BY DEF g
    <2>7. CASE Build(c, SetGroupLimits(g, "asked"))
      BY <1>1, <2>4, <2>6, <2>7, SetGroupLimitsOK
    <2>8. CASE Build(c, SetProcessDefaultSettings(g))
      BY <1>1, <2>6, <2>8, DefaultsOK
    <2>9. ASSUME NEW id \in ids, NEW f \in {"ownerId", "name"}, Build(c, SetField(g, id, f, "asked"))
          PROVE  \E h : GroupOK(h) /\ Build(c, h)
      BY <2>1, <2>4, <2>6, <2>9, SetFieldOK
    <2>10. ASSUME NEW id \in ids, NEW s \in g.ends \cup {FdAlias(2)}, Build(c, SetStream(g, id, 1, s))
          PROVE  \E h : GroupOK(h) /\ Build(c, h)
      BY <2>1, <2>2, <2>3, <2>6, <2>10, SetStreamOK
    <2>11. ASSUME NEW id \in ids, Build(c, CloseStream(g, id, 2))
          PROVE  \E h : GroupOK(h) /\ Build(c, h)
      BY <2>1, <2>6, <2>11, CloseStreamOK
    <2>12. ASSUME NEW end \in g.ends, Build(c, AddNotifierTo(g, end))
          PROVE  \E h : GroupOK(h) /\ Build(c, h)
      BY <2>2, <2>6, <2>12, AddNotifierToOK
    <2>13. ASSUME NEW n \in 0 .. 1, NEW end \in g.ends, Build(c, SetNotifier(g, n, end))
          PROVE  \E h : GroupOK(h) /\ Build(c, h)
      BY <2>2, <2>6, <2>13, SetNotifierOK
    <2> QED  BY <1>1, <2>5, <2>7, <2>8, <2>9, <2>10, <2>11, <2>12, <2>13
  <1> QED  BY <1>2, <1>3

\* No other step changes a group.
LEMMA GroupsStep ==
  ASSUME GroupsInv, [Next]_vars
  PROVE  GroupsInv'
  <1>1. CASE UNCHANGED <<role, group, sent, step>>
    BY <1>1 DEF GroupsInv
  <1>2. ASSUME NEW c \in Clients, NEW g, GroupOK(g), Build(c, g), role[c] = "builder"
        PROVE  GroupsInv'
    <2>1. group' = [group EXCEPT ![c] = g] /\ UNCHANGED <<role, sent, step>>
      BY <1>2 DEF Build, cliVars
    <2> QED  BY <1>2, <2>1 DEF GroupsInv
  <1>3. ASSUME NEW c \in Clients, Extend(c) \/ Set(c)  PROVE GroupsInv'
    BY <1>2, <1>3, ExtendOK DEF GroupsInv
  <1>4. ASSUME NEW c \in Clients, StartGroup(c)  PROVE GroupsInv'
    <2>1. sent' = [sent EXCEPT ![c] = {group[c]}] /\ UNCHANGED <<role, group, step>>
      BY <1>4 DEF StartGroup, Execute, cliVars
    <2> QED  BY <2>1 DEF GroupsInv
  <1>5. ASSUME NEW c \in Clients, BuildTask(c)  PROVE GroupsInv'
    <2>1. group' = [group EXCEPT ![c] = CliTask] /\ step' = [step EXCEPT ![c] = "feeding"] /\ UNCHANGED <<role, sent>>
      BY <1>5 DEF BuildTask, Step
    <2> QED  BY <2>1, CliTaskOK DEF GroupsInv
  <1>6. ASSUME NEW c \in Clients, Feed(c)  PROVE GroupsInv'
    <2>1. /\ role[c] = "cli" /\ step[c] = "feeding" /\ UNCHANGED <<role, sent>>
          /\ \/ group' = [group EXCEPT ![c] = Streams(group[c], options[c])] /\ step' = [step EXCEPT ![c] = "starting"]
             \/ step' = [step EXCEPT ![c] = "leaving"] /\ UNCHANGED group
      BY <1>6 DEF Feed, Main, Step, Leave, GroupsInv
    <2>2. GroupOK(Streams(group[c], options[c]))
      BY <2>1, StreamsOK DEF GroupsInv
    <2> QED  BY <2>1, <2>2 DEF GroupsInv
  <1>7. ASSUME NEW c \in Clients, StartTask(c)  PROVE GroupsInv'
    <2>1. /\ UNCHANGED <<role, group>>
          /\ sent' = [sent EXCEPT ![c] = {group[c]}] \/ UNCHANGED sent
          /\ \E there \in {"waiting", "leaving"} : step' = [step EXCEPT ![c] = there]
      BY <1>7 DEF StartTask, Execute, Step, Leave
    <2> QED  BY <2>1 DEF GroupsInv
  <1>8. ASSUME NEW c \in Clients, ReadOptions(c) \/ WaitForTask(c) \/ PullOutput(c) \/ Exit(c)  PROVE GroupsInv'
    <2>1. /\ UNCHANGED <<role, group, sent>>
          /\ \E there \in {"creating", "exited", "stdout", "stderr", "leaving"} : step' = [step EXCEPT ![c] = there]
      <3>1. CASE ReadOptions(c)
        BY <3>1 DEF ReadOptions, Step, groupVars
      <3>2. CASE WaitForTask(c)
        BY <3>2 DEF WaitForTask, Step, Leave, groupVars
      <3>3. CASE PullOutput(c)
        BY <3>3 DEF PullOutput, Step, Leave, groupVars
      <3>4. CASE Exit(c)
        BY <3>4 DEF Exit, Step, groupVars
      <3> QED  BY <1>8, <3>1, <3>2, <3>3, <3>4
    <2> QED  BY <2>1 DEF GroupsInv
  <1>9. ASSUME NEW c \in Clients, ContainerStep(c) \/ Ends(c)  PROVE GroupsInv'
    <2>1. UNCHANGED <<role, group, sent, step>>
      <3>1. CASE ContainerStep(c)
        BY <3>1 DEF ContainerStep, groupVars, cliVars
      <3>2. CASE Ends(c)
        BY <3>2 DEF Ends, groupVars
      <3> QED  BY <1>9, <3>1, <3>2
    <2> QED  BY <1>1, <2>1
  <1> QED
    BY <1>1, <1>3, <1>4, <1>5, <1>6, <1>7, <1>8, <1>9 DEF Next, CliStep, vars, groupVars, cliVars

\* ProcessGroup and Process: the task that is sent is the one the calls built, for
\* every sequence of calls.  That is TaskAsBuilt.
THEOREM TaskBuilt == Spec => []TaskAsBuilt
  <1>1. Init => GroupsInv
    <2> SUFFICES ASSUME Init PROVE GroupsInv
      OBVIOUS
    <2>1. /\ group = [c \in Clients |-> CreateGroup] /\ sent = [c \in Clients |-> {}]
          /\ step = [c \in Clients |-> "options"]
      BY DEF Init
    <2> QED  BY <2>1, CreateGroupOK DEF GroupsInv
  <1>2. GroupsInv => TaskAsBuilt
    <2> SUFFICES ASSUME GroupsInv, NEW c \in Clients, NEW g \in sent[c]
                 PROVE  LET task == Task(g)
                            last(key, initial) == IF key \in DOMAIN g.wanted THEN g.wanted[key] ELSE initial
                        IN  /\ task.resourceLimits = last(<<TheGroup, "resourceLimits">>, "default")
                            /\ \A i \in DOMAIN task.processes, f \in Fields :
                                 task.processes[i].fields[f] = last(<<i - 1, f>>, "struct")
                            /\ \A s \in EndsOf(task) : s.pipeId \in 0 .. task.pipesNumber - 1
      BY DEF TaskAsBuilt
    <2> DEFINE task == Task(g)
    <2>1. GroupOK(g)
      BY DEF GroupsInv
    <2>2. /\ task.resourceLimits = g.resourceLimits /\ task.processes = g.processes
          /\ task.notifiers = g.notifiers /\ task.pipesNumber = g.pipesNumber
      BY DEF Task
    <2>3. /\ task.resourceLimits = LastSet(g, <<TheGroup, "resourceLimits">>, "default")
          /\ \A i \in DOMAIN task.processes, f \in Fields :
               task.processes[i].fields[f] = LastSet(g, <<i - 1, f>>, "struct")
      BY <2>1, <2>2 DEF GroupOK
    <2> HIDE DEF task
    <2>4. ASSUME NEW s \in EndsOf(task)  PROVE s.pipeId \in 0 .. g.pipesNumber - 1
      <3>1. g.pipesNumber \in Nat /\ \A x \in StreamValue : IsEnd(x) => x.pipeId \in Nat
        BY <2>1, PipeFacts DEF IsEnd, StreamValue
      <3>2. ASSUME NEW x \in StreamValue, IsEnd(x), Made(g, x)  PROVE x.pipeId \in 0 .. g.pipesNumber - 1
        BY <3>1, <3>2 DEF Made
      <3>3. CASE s \in ToSet(task.notifiers)
        BY <2>1, <2>2, <3>3, PipeFacts DEF ToSet
      <3>4. CASE s \notin ToSet(task.notifiers)
        <4>0. PICK p \in ToSet(g.processes) : s \in {x \in {p.descriptors[fd] : fd \in DOMAIN p.descriptors} : IsEnd(x)}
          <5> DEFINE ends(p) == {x \in {p.descriptors[fd] : fd \in DOMAIN p.descriptors} : IsEnd(x)}
          <5>1. s \in UNION {ends(p) : p \in ToSet(task.processes)}
            <6> DEFINE all == UNION {ends(p) : p \in ToSet(task.processes)}
            <6>2. EndsOf(task) = ToSet(task.notifiers) \cup all
              BY DEF EndsOf
            <6> HIDE DEF all
            <6>3. s \in all
              BY <2>4, <3>4, <6>2
            <6> QED  BY <6>3 DEF all
          <5>2. ToSet(task.processes) = ToSet(g.processes)
            BY <2>2
          <5> HIDE DEF ends
          <5>3. \E p \in ToSet(g.processes) : s \in ends(p)
            BY <5>1, <5>2
          <5> QED  BY <5>3 DEF ends
        <4>1. PICK i \in DOMAIN g.processes : \E fd \in DOMAIN g.processes[i].descriptors :
                s = g.processes[i].descriptors[fd] /\ IsEnd(s)
          BY <4>0 DEF ToSet
        <4> QED  BY <2>1, <3>2, <4>1, ProcessFacts
      <3> QED  BY <3>3, <3>4
    <2> QED  BY <2>2, <2>3, <2>4 DEF LastSet, task
  <1> QED  BY <1>1, <1>2, GroupsStep, PTL DEF Spec

-----------------------------------------------------------------------------
(* The streams of the cli. *)

\* The stream a file given as input becomes.
Reading == File("/stdin", "READ_ONLY")

\* And one given as output.
Writing(path) == File(path, "WRITE_ONLY")

\* The descriptors of the first process.
OpenIn(g) == g.processes[1].descriptors

LEMMA SetFieldOpens ==
  ASSUME NEW g, GroupOK(g), 1 \in DOMAIN g.processes, NEW f, NEW v
  PROVE  OpenIn(SetField(g, 0, f, v)) = OpenIn(g)
  <1>1. g \in Group
    BY DEF GroupOK
  <1>2. g.processes \in Seq(ProcessValue) /\ "processes" \in DOMAIN g
    BY <1>1 DEF Group
  <1>3. g.processes[1] \in ProcessValue
    BY <1>2
  <1> QED  BY <1>2, <1>3 DEF SetField, OpenIn, ProcessValue

LEMMA SetStreamOpens ==
  ASSUME NEW g, GroupOK(g), 1 \in DOMAIN g.processes, NEW fd, NEW s, NEW h, h = SetStream(g, 0, fd, s)
  PROVE  /\ OpenIn(h)[fd] = s
         /\ \A x \in DOMAIN OpenIn(g) : x \in DOMAIN OpenIn(h) /\ (x # fd => OpenIn(h)[x] = OpenIn(g)[x])
  <1>1. g \in Group
    BY DEF GroupOK
  <1>2. g.processes \in Seq(ProcessValue) /\ "processes" \in DOMAIN g
    BY <1>1 DEF Group
  <1>3. g.processes[1] \in ProcessValue
    BY <1>2
  <1>4. OpenIn(h) = Put(OpenIn(g), fd, s)
    BY <1>2, <1>3 DEF SetStream, OpenIn, ProcessValue
  <1> QED  BY <1>4 DEF Put

LEMMA CliOpens == \A fd \in 0 .. 2 : fd \in DOMAIN OpenIn(CliTask) /\ OpenIn(CliTask)[fd] = DevNull
  <1> DEFINE a == SetGroupLimits(CreateGroup, LimitsOfTask)
             p == SetUpProcess(NewProcess(0), a.processDefaults)
             b == CreateProcess(a)
             d == SetField(b, 0, "arguments", "asked")
             e == SetField(d, 0, "resourceLimits", LimitsOfTask)
  <1>0. LimitsOfTask \in Value /\ "asked" \in Value /\ "arguments" \in Fields /\ "resourceLimits" \in Fields
    BY DEF LimitsOfTask, Value, Fields, Defaulted
  <1>1. a.processes = <<>> /\ GroupOK(a)
    BY <1>0, CreateGroupOK, SetGroupLimitsOK DEF SetGroupLimits, CreateGroup, NewGroup
  <1>2. DOMAIN p.descriptors = 0 .. 2 /\ \A fd \in 0 .. 2 : p.descriptors[fd] = DevNull
    BY DEF SetUpProcess, NewProcess, Over
  <1>3. b.processes = <<p>>
    <2> HIDE DEF p
    <2>1. CreateProcess(a).processes = Append(a.processes, SetUpProcess(NewProcess(Len(a.processes)), a.processDefaults))
      BY DEF CreateProcess, SetGroupLimits, CreateGroup, NewGroup
    <2> QED  BY <1>1, <2>1 DEF p
  <1> HIDE DEF p, a
  <1>4. GroupOK(b) /\ 1 \in DOMAIN b.processes /\ 0 + 1 \in DOMAIN b.processes
    BY <1>1, <1>3, CreateProcessOK
  <1>5. OpenIn(b) = p.descriptors
    <2> HIDE DEF b
    <2> QED  BY <1>3 DEF OpenIn
  <1> HIDE DEF b
  <1>6. GroupOK(d) /\ OpenIn(d) = OpenIn(b) /\ 1 \in DOMAIN d.processes
    <2>1. GroupOK(d) /\ Len(d.processes) = Len(b.processes)
      BY <1>0, <1>4, SetFieldOK
    <2>2. \A g : GroupOK(g) => DOMAIN g.processes = 1 .. Len(g.processes)
      BY DEF GroupOK, Group
    <2>3. OpenIn(d) = OpenIn(b)
      BY <1>4, SetFieldOpens
    <2> HIDE DEF d
    <2> QED  BY <1>4, <2>1, <2>2, <2>3
  <1> HIDE DEF d
  <1>7. OpenIn(e) = OpenIn(d)
    BY <1>6, SetFieldOpens
  <1>8. CliTask = e
    BY DEF CliTask, d, b, a
  <1> HIDE DEF e
  <1>9. OpenIn(CliTask) = p.descriptors
    BY <1>5, <1>6, <1>7, <1>8
  <1> QED  BY <1>2, <1>9

\* execute() of the cli opens what the options name, and /dev/null otherwise.
LEMMA StreamsOpen ==
  ASSUME NEW o, NEW g, g = Streams(CliTask, o)
  PROVE  /\ OpenIn(g)[0] = IF o.stdin = NoFile THEN DevNull ELSE Reading
         /\ OpenIn(g)[1] = IF o.stdout = NoFile THEN DevNull ELSE Writing("/stdout")
         /\ OpenIn(g)[2] = IF o.stderr = NoFile THEN DevNull ELSE Writing("/stderr")
  <1> DEFINE named(r, fd, file, stream) == IF file = NoFile THEN r ELSE SetStream(r, 0, fd, stream)
             a == named(CliTask, 0, o.stdin, Reading)
             b == named(a, 1, o.stdout, Writing("/stdout"))
             d == named(b, 2, o.stderr, Writing("/stderr"))
             ok(r) == GroupOK(r) /\ 1 \in DOMAIN r.processes /\ \A fd \in 0 .. 2 : fd \in DOMAIN OpenIn(r)
  <1>1. ASSUME NEW r, ok(r), NEW fd \in 0 .. 2, NEW file,
               NEW s \in {Reading, Writing("/stdout"), Writing("/stderr")}, NEW x, x = named(r, fd, file, s)
        PROVE  /\ ok(x)
               /\ OpenIn(x)[fd] = IF file = NoFile THEN OpenIn(r)[fd] ELSE s
               /\ \A k \in 0 .. 2 : k # fd => OpenIn(x)[k] = OpenIn(r)[k]
    <2>1. CASE file = NoFile
      BY <1>1, <2>1
    <2>2. CASE file # NoFile
      <3>0. x = SetStream(r, 0, fd, s)
        BY <1>1, <2>2
      <3>1. s \in StreamValue /\ Made(r, s) /\ 0 + 1 \in DOMAIN r.processes /\ fd \in Nat
        BY <1>1, StreamFacts DEF Made, Reading, Writing
      <3>2. GroupOK(x) /\ Len(x.processes) = Len(r.processes)
        <4>1. GroupOK(r) /\ 0 \in Nat
          BY <1>1
        <4> HIDE DEF ok, named
        <4> QED  BY <3>0, <3>1, <4>1, SetStreamOK
      <3>3. \A k : GroupOK(k) => DOMAIN k.processes = 1 .. Len(k.processes)
        BY DEF GroupOK, Group
      <3>4. 1 \in DOMAIN x.processes
        BY <1>1, <3>2, <3>3
      <3>5. /\ OpenIn(x)[fd] = s
            /\ \A k \in DOMAIN OpenIn(r) : k \in DOMAIN OpenIn(x) /\ (k # fd => OpenIn(x)[k] = OpenIn(r)[k])
        BY <1>1, <3>0, SetStreamOpens
      <3> QED  BY <1>1, <2>2, <3>2, <3>4, <3>5
    <2> QED  BY <2>1, <2>2
  <1> HIDE DEF named
  <1>2. ok(CliTask)
    BY CliTaskOK, CliOpens
  <1> HIDE DEF ok
  <1>3. /\ ok(a) /\ OpenIn(a)[0] = IF o.stdin = NoFile THEN OpenIn(CliTask)[0] ELSE Reading
        /\ OpenIn(a)[1] = OpenIn(CliTask)[1] /\ OpenIn(a)[2] = OpenIn(CliTask)[2]
    BY <1>1, <1>2
  <1> HIDE DEF a
  <1>4. /\ ok(b) /\ OpenIn(b)[1] = IF o.stdout = NoFile THEN OpenIn(a)[1] ELSE Writing("/stdout")
        /\ OpenIn(b)[0] = OpenIn(a)[0] /\ OpenIn(b)[2] = OpenIn(a)[2]
    BY <1>1, <1>3
  <1> HIDE DEF b
  <1>5. /\ OpenIn(d)[2] = IF o.stderr = NoFile THEN OpenIn(b)[2] ELSE Writing("/stderr")
        /\ OpenIn(d)[0] = OpenIn(b)[0] /\ OpenIn(d)[1] = OpenIn(b)[1]
    BY <1>1, <1>4
  <1> HIDE DEF d
  <1>6. g = d
    BY DEF Streams, a, b, d, named, Reading, Writing
  <1> QED  BY <1>3, <1>4, <1>5, <1>6, CliOpens

-----------------------------------------------------------------------------
(* The invariant of the cli. *)

\* The input has been pushed.
Fed(c) == step[c] \notin {"options", "creating", "feeding"}

\* What holds of the cli at each of its steps: its container runs the task made
\* from its options.
CliOK(c) ==
  /\ options[c].stdin \in Inputs \cup {NoFile}
  /\ options[c].stdout \in Outputs \cup {NoFile} /\ options[c].stderr \in Outputs \cup {NoFile}
  /\ lxc[c] # "STOPPED" => sent[c] # {}
  /\ role[c] = "cli" =>
       /\ step[c] = "options" => options[c].stdin = NoFile
       /\ step[c] = "feeding" => group[c] = CliTask
       /\ step[c] = "starting" => group[c] = Streams(CliTask, options[c])
       /\ sent[c] \subseteq {Streams(CliTask, options[c])}
       /\ ~Fed(c) \/ step[c] = "starting" => sent[c] = {}

\* The inductive invariant of the cli.
CliInv ==
  /\ options = [c \in Clients |-> options[c]]
  /\ step \in [Clients -> {"options", "creating", "feeding", "starting", "waiting",
                           "stdout", "stderr", "leaving", "exited"}]
  /\ exit \in [Clients -> {"none", "success", "failure"}] /\ result \in [Clients -> {"none", "OK", "other"}]
  /\ \A c \in Clients : CliOK(c)

LEMMA StreamNames ==
  /\ {"stdin", "stdout", "stderr", "root", "0400", "complaint"} \subseteq Text
  /\ <<"stdin">> \in Path /\ <<"stdout">> \in Path /\ <<"stderr">> \in Path /\ <<"complaint">> \in Path
  /\ <<>> \in Path
  /\ <<"stdin">> # <<"stdout">> /\ <<"stdin">> # <<"stderr">>
  /\ Resolved(<<"stdin">>)
  <1>1. {"stdin", "stdout", "stderr", "root", "0400", "complaint"} \subseteq Text
    BY TextsAssumption
  <1>2. \A t \in Text : <<t>> \in Path
    BY FirstName, ShortSeq DEF Path
  <1>3. <<>> \in Path
    BY DEF Path
  <1>4. <<"stdin">> # <<"stdout">> /\ <<"stdin">> # <<"stderr">>
    OBVIOUS
  <1>5. Resolved(<<"stdin">>)
    <2>1. Len(<<"stdin">>) = 1 /\ <<"stdin">>[1] = "stdin"
      OBVIOUS
    <2> QED  BY <1>1, <1>2, <2>1 DEF Resolved
  <1> QED  BY <1>1, <1>2, <1>3, <1>4, <1>5

\* The files of the program in the container.
InPath(c) == Root(c) \o <<"stdin">>
OutPath(c) == Root(c) \o <<"stdout">>
ErrPath(c) == Root(c) \o <<"stderr">>
Complaint == <<"complaint">>

\* A file is there and has this data.
Holds(d, p, data) == p \in DOMAIN d /\ d[p].data = data

LEMMA StreamPaths ==
  ASSUME NEW c, Root(c) \in Path
  PROVE  /\ InPath(c) \in Path /\ OutPath(c) \in Path /\ ErrPath(c) \in Path /\ Complaint \in Path
         /\ IsPrefix(Root(c), InPath(c)) /\ IsPrefix(Root(c), OutPath(c)) /\ IsPrefix(Root(c), ErrPath(c))
         /\ InPath(c) # OutPath(c) /\ InPath(c) # ErrPath(c) /\ OutPath(c) # ErrPath(c)
         /\ \A k \in Path : /\ k # <<"stdout">> => Root(c) \o k # OutPath(c)
                            /\ k # <<"stderr">> => Root(c) \o k # ErrPath(c)
  <1> DEFINE in == <<"stdin">>
             out == <<"stdout">>
             err == <<"stderr">>
  <1>1. in \in Path /\ out \in Path /\ err \in Path /\ in # out /\ in # err /\ out # err
    BY StreamNames
  <1>2. Complaint \in Path
    BY StreamNames DEF Complaint
  <1> HIDE DEF in, out, err
  <1>3. \A k \in Path : Root(c) \o k \in Path /\ IsPrefix(Root(c), Root(c) \o k)
    BY ConcatPath
  <1>4. \A k, o \in Path : k # o => Root(c) \o k # Root(c) \o o
    BY PrefixOfConcat
  <1>5. /\ Root(c) \o in \in Path /\ Root(c) \o out \in Path /\ Root(c) \o err \in Path
        /\ IsPrefix(Root(c), Root(c) \o in) /\ IsPrefix(Root(c), Root(c) \o out)
        /\ IsPrefix(Root(c), Root(c) \o err)
        /\ Root(c) \o in # Root(c) \o out /\ Root(c) \o in # Root(c) \o err
        /\ Root(c) \o out # Root(c) \o err
    BY <1>1, <1>3, <1>4
  <1>6. \A k \in Path : /\ k # out => Root(c) \o k # Root(c) \o out
                        /\ k # err => Root(c) \o k # Root(c) \o err
    BY <1>1, <1>4
  <1> QED  BY <1>2, <1>5, <1>6 DEF in, out, err, InPath, OutPath, ErrPath

\* What the program's output does to a disk: files are new or have other contents.
Output(d, x, c) ==
  /\ Within(d, x, Root(c)) /\ NoNewLinks(d, x)
  /\ \A q \in DOMAIN d : q \in DOMAIN x /\ x[q].kind = d[q].kind

LEMMA OutputItself ==
  ASSUME NEW c, NEW d, Sound(d)
  PROVE  Output(d, d, c)
  BY WithinItself DEF Output, NoNewLinks

LEMMA OutputTrans ==
  ASSUME NEW c, Root(c) \in Path, NEW d, Sound(d), NEW x, NEW y, Output(d, x, c), Output(x, y, c)
  PROVE  Output(d, y, c)
  <1>1. Within(d, y, Root(c))
    BY WithinTrans DEF Output
  <1> QED  BY <1>1 DEF Output, NoNewLinks

\* A path in the container leads to one in it.
LEMMA InnerDef ==
  ASSUME NEW root \in Path, NEW d, Sound(d), NEW a \in Path, IsPrefix(root, a), NEW t, t = Real(d, a, root)
  PROVE  t \in Path /\ IsPrefix(root, t) /\ (Straight(d, a) => t = a)
  <1>1. t \in Path /\ (Straight(d, a) => t = a) /\ (t = a \/ \E v \in Leads : IsPrefix(root \o v, t))
    BY RealDef
  <1>2. ASSUME NEW v \in Leads, IsPrefix(root \o v, t)  PROVE IsPrefix(root, t)
    <2>1. root \o v \in Path /\ IsPrefix(root, root \o v)
      BY LeadsAre, ConcatPath
    <2> QED  BY <1>1, <1>2, <2>1, PrefixOrder
  <1> QED  BY <1>1, <1>2

\* A stream: what the path leads to has the data if it could be opened.
LEMMA StreamWritten ==
  ASSUME NEW c, Root(c) \in Path, NEW d, Sound(d), NEW fd, NEW data \in Path, NEW a \in Path,
         IsPrefix(Root(c), a),
         Stream(c, fd) # DevNull => InContainer(c, Stream(c, fd).path) = a,
         NEW r, r = WriteStream(d, c, fd, data)
  PROVE  /\ r.ok \in BOOLEAN /\ Output(d, r.disk, c)
         /\ Stream(c, fd) = DevNull => r.disk = d
         /\ Straight(d, a) =>
              /\ \A q \in DOMAIN d \ {a} : r.disk[q] = d[q]
              /\ r.ok /\ Stream(c, fd) # DevNull => Holds(r.disk, a, data)
  <1>2. CASE Stream(c, fd) = DevNull
    <2>1. r.ok = TRUE /\ r.disk = d
      BY <1>2 DEF WriteStream, Done
    <2> QED  BY <1>2, <2>1, OutputItself
  <1>3. CASE Stream(c, fd) # DevNull
    <2> DEFINE root == Root(c)
               t == Real(d, a, root)
    <2>1. r = Write(d, t, data)
      BY <1>3 DEF WriteStream, Inner
    <2>2. root \in Path /\ IsPrefix(root, a) /\ t = Real(d, a, root)
      OBVIOUS
    <2> HIDE DEF t, root
    <2>3. t \in Path /\ IsPrefix(root, t) /\ (Straight(d, a) => t = a)
      BY <2>2, InnerDef
    <2>4. /\ r.ok \in BOOLEAN /\ Only(d, r.disk, t)
          /\ \A q \in DOMAIN d \ {t} : r.disk[q] = d[q]
          /\ ~r.ok => r.disk = d
          /\ r.ok => /\ t \in DOMAIN r.disk
                     /\ \A q : q \in DOMAIN r.disk <=> q \in DOMAIN d \/ q = t
                     /\ r.disk[t].data = data
                     /\ r.disk[t].kind \notin {"dir", "link"}
      BY ONLY <2>1, <2>3, Sound(d), data \in Path, WriteDef
    <2>5. Within(d, r.disk, root)
      BY <2>2, <2>3, <2>4, OnlyWithin, BelowItself
    <2>6. \A q \in DOMAIN d : q \in DOMAIN r.disk /\ r.disk[q].kind = d[q].kind
      BY <2>4 DEF Only
    <2>7. NoNewLinks(d, r.disk)
      BY <2>4, <2>6 DEF NoNewLinks, IsLink, Exists
    <2>8. Output(d, r.disk, c)
      BY <2>5, <2>6, <2>7 DEF Output, root
    <2> QED  BY <1>3, <2>3, <2>4, <2>8 DEF Holds
  <1> QED  BY <1>2, <1>3

LEMMA OutWritten ==
  ASSUME NEW c, Root(c) \in Path, NEW d, Sound(d), NEW data \in Path,
         Stream(c, 1) # DevNull => InContainer(c, Stream(c, 1).path) = OutPath(c),
         NEW r, r = WriteStream(d, c, 1, data)
  PROVE  /\ r.ok \in BOOLEAN /\ Output(d, r.disk, c)
         /\ r.ok /\ Stream(c, 1) # DevNull /\ Straight(d, OutPath(c)) => Holds(r.disk, OutPath(c), data)
  <1> DEFINE fd == 1
  <1>1. /\ r = WriteStream(d, c, fd, data) /\ OutPath(c) \in Path /\ IsPrefix(Root(c), OutPath(c))
        /\ (Stream(c, fd) # DevNull => InContainer(c, Stream(c, fd).path) = OutPath(c))
    BY StreamPaths
  <1> HIDE DEF fd
  <1>2. /\ r.ok \in BOOLEAN /\ Output(d, r.disk, c)
        /\ r.ok /\ Stream(c, fd) # DevNull /\ Straight(d, OutPath(c)) => Holds(r.disk, OutPath(c), data)
    BY <1>1, StreamWritten
  <1> QED  BY <1>2 DEF fd

LEMMA ErrWritten ==
  ASSUME NEW c, Root(c) \in Path, NEW d, Sound(d), NEW data \in Path,
         Stream(c, 2) # DevNull => InContainer(c, Stream(c, 2).path) = ErrPath(c),
         NEW r, r = WriteStream(d, c, 2, data)
  PROVE  /\ r.ok \in BOOLEAN /\ Output(d, r.disk, c)
         /\ Stream(c, 2) = DevNull => r.disk = d
         /\ Straight(d, ErrPath(c)) => \A q \in DOMAIN d : q # ErrPath(c) => r.disk[q] = d[q]
         /\ r.ok /\ Stream(c, 2) # DevNull /\ Straight(d, ErrPath(c)) => Holds(r.disk, ErrPath(c), data)
  <1> DEFINE fd == 2
  <1>1. /\ r = WriteStream(d, c, fd, data) /\ ErrPath(c) \in Path /\ IsPrefix(Root(c), ErrPath(c))
        /\ (Stream(c, fd) # DevNull => InContainer(c, Stream(c, fd).path) = ErrPath(c))
    BY StreamPaths
  <1> HIDE DEF fd
  <1>2. /\ r.ok \in BOOLEAN /\ Output(d, r.disk, c)
        /\ Stream(c, fd) = DevNull => r.disk = d
        /\ Straight(d, ErrPath(c)) =>
             /\ \A q \in DOMAIN d \ {ErrPath(c)} : r.disk[q] = d[q]
             /\ r.ok /\ Stream(c, fd) # DevNull => Holds(r.disk, ErrPath(c), data)
    BY <1>1, StreamWritten
  <1> QED  BY <1>2 DEF fd

\* The streams of a program that runs.
LEMMA StreamsHere ==
  ASSUME NEW c \in Clients, CliOK(c), role[c] = "cli", lxc[c] = "RUNNING"
  PROVE  /\ step[c] \notin {"options", "creating", "feeding", "starting"}
         /\ Stream(c, 0) = DevNull <=> options[c].stdin = NoFile
         /\ Inner(disk, c, "/stdin") = Real(disk, InPath(c), Root(c))
         /\ Stream(c, 1) = DevNull <=> options[c].stdout = NoFile
         /\ Stream(c, 2) = DevNull <=> options[c].stderr = NoFile
         /\ Stream(c, 1) # DevNull => InContainer(c, Stream(c, 1).path) = OutPath(c)
         /\ Stream(c, 2) # DevNull => InContainer(c, Stream(c, 2).path) = ErrPath(c)
  <1> DEFINE s == Streams(CliTask, options[c])
  <1>1. sent[c] = {s} /\ step[c] \notin {"options", "creating", "feeding", "starting"}
    BY DEF CliOK, Fed
  <1>2. (CHOOSE g \in sent[c] : TRUE) = s
    <2> HIDE DEF s
    <2> QED  BY <1>1
  <1> HIDE DEF s
  <1>3. \A fd : Stream(c, fd) = OpenIn(s)[fd]
    BY <1>2 DEF Stream, OpenIn
  <1>4. /\ OpenIn(s)[0] = IF options[c].stdin = NoFile THEN DevNull ELSE Reading
        /\ OpenIn(s)[1] = IF options[c].stdout = NoFile THEN DevNull ELSE Writing("/stdout")
        /\ OpenIn(s)[2] = IF options[c].stderr = NoFile THEN DevNull ELSE Writing("/stderr")
    BY StreamsOpen DEF s
  <1>5. /\ Writing("/stdout").path = "/stdout" /\ Writing("/stderr").path = "/stderr"
        /\ Reading.path = "/stdin" /\ DevNull.path = "/dev/null"
    BY DEF Writing, Reading, DevNull, File
  <1>6. Writing("/stdout") # DevNull /\ Writing("/stderr") # DevNull /\ Reading # DevNull
    BY <1>5
  <1>7. /\ InContainer(c, "/stdin") = InPath(c) /\ InContainer(c, "/stdout") = OutPath(c)
        /\ InContainer(c, "/stderr") = ErrPath(c)
    BY DEF InContainer, InPath, OutPath, ErrPath
  <1>8. Inner(disk, c, "/stdin") = Real(disk, InPath(c), Root(c))
    BY <1>7 DEF Inner
  <1> QED  BY <1>1, <1>3, <1>4, <1>5, <1>6, <1>7, <1>8

-----------------------------------------------------------------------------
(* The cli's steps and the containers. *)

LEMMA FrontOfConcat ==
  ASSUME NEW r \in Path, NEW k \in Path, Len(k) = 1
  PROVE  Front(r \o k) = r
  <1> DEFINE q == r \o k
  <1>0. q \in Path /\ Len(q) = Len(r) + Len(k) /\ \A i \in 1 .. Len(r) : q[i] = r[i]
    BY ConcatPath, Zenon
  <1> HIDE DEF q
  <1>1. q \in Path /\ Len(q) = Len(r) + 1 /\ \A i \in 1 .. Len(r) : q[i] = r[i]
    BY <1>0
  <1>2. Len(r) \in Nat /\ q # <<>>
    BY <1>1, PathLen
  <1>3. Front(q) \in Path /\ Len(Front(q)) = Len(q) - 1 /\ \A i \in 1 .. Len(q) - 1 : Front(q)[i] = q[i]
    BY <1>1, <1>2, FrontDef
  <1>4. Len(Front(q)) = Len(r) /\ \A i \in 1 .. Len(Front(q)) : Front(q)[i] = r[i]
    BY <1>1, <1>2, <1>3
  <1> QED  BY <1>3, <1>4, PathEqual DEF q

\* In a root that is a directory a stream is met without links, unless it is one.
LEMMA StreamStraight ==
  ASSUME NEW c, Root(c) \in Path, NEW d, Sound(d), IsDirectory(d, Root(c))
  PROVE  /\ Straight(d, Root(c))
         /\ \A p \in {InPath(c), OutPath(c), ErrPath(c)} :
              Front(p) = Root(c) /\ (~IsLink(d, p) => Straight(d, p))
  <1>1. Straight(d, Root(c))
    BY StraightFront DEF IsDirectory, IsLink, Exists
  <1>2. ASSUME NEW s \in {"stdin", "stdout", "stderr"}
        PROVE  Front(Root(c) \o <<s>>) = Root(c)
    <2> DEFINE k == <<s>>
    <2>1. k \in Path /\ Len(k) = 1
      BY StreamNames
    <2> HIDE DEF k
    <2>2. Front(Root(c) \o k) = Root(c)
      BY <2>1, FrontOfConcat
    <2> QED  BY <2>2 DEF k
  <1>3. \A p \in {InPath(c), OutPath(c), ErrPath(c)} : p \in Path /\ Front(p) = Root(c)
    BY <1>2, StreamPaths DEF InPath, OutPath, ErrPath
  <1> QED  BY <1>1, <1>3, StraightFront

LEMMA RunningFacts ==
  ASSUME ContainerInv, NEW c \in Clients, CliOK(c), role[c] = "cli", pc[c] = "alive", lxc[c] = "RUNNING"
  PROVE  Sound(disk) /\ Root(c) \in Path /\ Read(c) \in Path
  <1>1. Sound(disk) /\ Root(c) \in Path
    BY AliveFacts
  <1>2. CASE ~(Stream(c, 0) # DevNull /\ Opens(c))
    BY <1>1, <1>2, StreamNames DEF Read
  <1>3. CASE Stream(c, 0) # DevNull /\ Opens(c)
    <2>1. Inner(disk, c, "/stdin") \in DOMAIN disk
      BY <1>3 DEF Opens, Exists
    <2>2. disk[Inner(disk, c, "/stdin")] \in Nodes
      BY <1>1, <2>1, SoundNode
    <2> QED  BY <1>1, <1>3, <2>2 DEF Nodes, Read
  <1> QED  BY <1>2, <1>3

\* A stream that was asked for is a symbolic link in the container.
Linked(d, c) ==
  \/ options[c].stdout # NoFile /\ IsLink(d, OutPath(c))
  \/ options[c].stderr # NoFile /\ IsLink(d, ErrPath(c))

\* A program that succeeds has written both files, if they are not links.
LEMMA SucceedsWrites ==
  ASSUME ContainerInv, NEW c \in Clients, CliOK(c), role[c] = "cli", pc[c] = "alive", lxc[c] = "RUNNING",
         Succeeds(c)
  PROVE  /\ Output(disk, disk', c)
         /\ IsDirectory(disk, Root(c)) /\ ~Linked(disk', c) =>
              /\ options[c].stdout # NoFile => Holds(disk', OutPath(c), Read(c))
              /\ options[c].stderr # NoFile => Holds(disk', ErrPath(c), Complaint)
  <1> DEFINE one == WriteStream(disk, c, 1, Read(c))
             two == WriteStream(one.disk, c, 2, Complaint)
  <1>1. Sound(disk) /\ Root(c) \in Path /\ Read(c) \in Path /\ Complaint \in Path
    BY RunningFacts, StreamPaths
  <1>2. /\ one.ok /\ two.ok /\ disk' = two.disk
    <2>1. Then(one, LAMBDA x : WriteStream(x, c, 2, Complaint)) = IF one.ok THEN two ELSE one
      BY DEF Then
    <2> DEFINE r == Then(one, LAMBDA x : WriteStream(x, c, 2, Complaint))
    <2>2. r.ok /\ disk' = r.disk
      BY DEF Succeeds, Complaint
    <2> HIDE DEF one, two, r
    <2>3. r = IF one.ok THEN two ELSE one
      BY <2>1 DEF r
    <2> QED  BY <2>2, <2>3
  <1>3. one = WriteStream(disk, c, 1, Read(c)) /\ two = WriteStream(one.disk, c, 2, Complaint)
    OBVIOUS
  <1> HIDE DEF one, two
  <1>4. /\ Output(disk, one.disk, c)
        /\ Stream(c, 1) # DevNull /\ Straight(disk, OutPath(c)) => Holds(one.disk, OutPath(c), Read(c))
    BY <1>1, <1>2, <1>3, StreamsHere, OutWritten
  <1>5. Sound(one.disk)
    BY <1>4 DEF Output, Within
  <1>6. /\ Output(one.disk, two.disk, c)
        /\ Stream(c, 2) = DevNull => two.disk = one.disk
        /\ Straight(one.disk, ErrPath(c)) =>
             /\ \A q \in DOMAIN one.disk : q # ErrPath(c) => two.disk[q] = one.disk[q]
             /\ Stream(c, 2) # DevNull => Holds(two.disk, ErrPath(c), Complaint)
    BY <1>1, <1>2, <1>3, <1>5, StreamsHere, ErrWritten
  <1>7. Output(disk, two.disk, c)
    BY <1>1, <1>4, <1>6, OutputTrans
  <1>8. ASSUME IsDirectory(disk, Root(c)), ~Linked(disk', c)
        PROVE  /\ options[c].stdout # NoFile => Holds(disk', OutPath(c), Read(c))
               /\ options[c].stderr # NoFile => Holds(disk', ErrPath(c), Complaint)
    <2>1. IsDirectory(one.disk, Root(c))
      BY <1>4, <1>8 DEF Output, IsDirectory, Exists
    <2>2. options[c].stdout # NoFile => Straight(disk, OutPath(c))
      <3>1. IsLink(disk, OutPath(c)) => IsLink(disk', OutPath(c))
        BY <1>2, <1>7 DEF Output, IsLink, Exists
      <3> QED  BY <1>1, <1>8, <3>1, StreamStraight DEF Linked
    <2>3. options[c].stderr # NoFile => Straight(one.disk, ErrPath(c))
      <3>1. IsLink(one.disk, ErrPath(c)) => IsLink(disk', ErrPath(c))
        BY <1>2, <1>6 DEF Output, IsLink, Exists
      <3> QED  BY <1>1, <1>5, <1>8, <2>1, <3>1, StreamStraight DEF Linked
    <2>4. options[c].stdout # NoFile => Holds(one.disk, OutPath(c), Read(c))
      BY <1>4, <2>2, StreamsHere
    <2>5. Holds(one.disk, OutPath(c), Read(c)) => Holds(two.disk, OutPath(c), Read(c))
      <3>1. OutPath(c) # ErrPath(c)
        BY <1>1, StreamPaths
      <3>2. CASE options[c].stderr = NoFile
        BY <1>6, <3>2, StreamsHere
      <3>3. CASE options[c].stderr # NoFile
        BY <1>6, <2>3, <3>1, <3>3 DEF Holds, Output
      <3> QED  BY <3>2, <3>3
    <2>6. options[c].stderr # NoFile => Holds(two.disk, ErrPath(c), Complaint)
      BY <1>6, <2>3, StreamsHere
    <2> QED  BY <1>2, <2>4, <2>5, <2>6
  <1> QED  BY <1>2, <1>7, <1>8

\* However a control process ends, it has written nothing else.
LEMMA FailsWrites ==
  ASSUME ContainerInv, NEW c \in Clients, CliOK(c), role[c] = "cli", pc[c] = "alive", lxc[c] = "RUNNING",
         Fails(c)
  PROVE  Output(disk, disk', c)
  <1> DEFINE nothing == <<>>
  <1>1. Sound(disk) /\ Root(c) \in Path /\ Read(c) \in Path /\ Complaint \in Path /\ nothing \in Path
    BY RunningFacts, StreamPaths, StreamNames
  <1>2. PICK x \in Interrupted(disk, c, 1, Read(c)) : disk' \in Interrupted(x, c, 2, Complaint)
    BY DEF Fails, Complaint
  <1>3. Output(disk, x, c)
    <2>1. x = disk \/ \E data \in {nothing, Read(c)} : x = WriteStream(disk, c, 1, data).disk
      BY <1>2 DEF Interrupted
    <2> HIDE DEF nothing
    <2>2. ASSUME NEW data \in Path  PROVE Output(disk, WriteStream(disk, c, 1, data).disk, c)
      BY <1>1, StreamsHere, OutWritten
    <2> QED  BY <1>1, <2>1, <2>2, OutputItself
  <1>4. Sound(x)
    BY <1>3 DEF Output, Within
  <1>5. Output(x, disk', c)
    <2>1. disk' = x \/ \E data \in {nothing, Complaint} : disk' = WriteStream(x, c, 2, data).disk
      BY <1>2 DEF Interrupted
    <2> HIDE DEF nothing
    <2>2. ASSUME NEW data \in Path  PROVE Output(x, WriteStream(x, c, 2, data).disk, c)
      BY <1>1, <1>4, StreamsHere, ErrWritten
    <2> QED  BY <1>1, <1>4, <2>1, <2>2, OutputItself
  <1> QED  BY <1>1, <1>3, <1>5, OutputTrans

\* lxc-execute ends, and the program has written its output, or some of it.
LEMMA EndsKeeps ==
  ASSUME ContainerInv, NEW c \in Clients, CliOK(c), Ends(c)
  PROVE  ContainerInv' /\ StaysInRoot(c)
  <1>0. /\ pc[c] = "alive" /\ lxc' = [lxc EXCEPT ![c] = "STOPPED"]
        /\ UNCHANGED <<pc, createVars, calls, abandoned>>
    BY DEF Ends
  <1>1. CASE ~(role[c] = "cli" /\ lxc[c] = "RUNNING")
    <2>1. UNCHANGED <<disk, pc, createVars, useVars, abandoned>>
      BY <1>0, <1>1 DEF Ends, useVars
    <2> DEFINE state == "STOPPED"
    <2>2. state \in {"STOPPED", "starting", "RUNNING", "FROZEN"} /\ lxc' = [lxc EXCEPT ![c] = state]
      BY <1>0
    <2> HIDE DEF state
    <2> QED  BY <2>1, <2>2, LxcStateKeeps
  <1>2. CASE role[c] = "cli" /\ lxc[c] = "RUNNING"
    <2> DEFINE files == <<>>
    <2>1. /\ Control /\ Sound(disk) /\ IsRoot(Root(c)) /\ Root(c) \in Path
      BY <1>0, AliveFacts
    <2>2. (Succeeds(c) \/ Fails(c)) /\ placed' = [placed EXCEPT ![c] = files]
      BY <1>2 DEF Ends
    <2>3. Output(disk, disk', c)
      BY <1>0, <1>2, <2>2, SucceedsWrites, FailsWrites
    <2>4. Fulfilled(disk', Root(c), files)
      BY DEF Fulfilled
    <2>5. PlacedOK(files)
      BY DEF PlacedOK
    <2>6. Control' /\ StepOf(c) /\ pc'[c] = "alive" /\ dir' = dir /\ placed'[c] = files
           /\ abandoned' = abandoned
      <3> DEFINE at == "alive"
                 state == "STOPPED"
      <3> HIDE DEF files
      <3>1. StateOK(at, left[c], dir[c], conf[c], state, calls[c], files)
        BY <1>0, <2>1, <2>5, Same DEF StateOK
      <3>2. UNCHANGED <<left, dir, conf, abandoned>> /\ calls' = calls
        BY <1>0 DEF createVars
      <3>3. pc' = [pc EXCEPT ![c] = at] /\ lxc' = [lxc EXCEPT ![c] = state]
            /\ calls' = [calls EXCEPT ![c] = calls[c]] /\ placed' = [placed EXCEPT ![c] = files]
        BY <1>0, <2>1, <2>2, <3>2, Same
      <3>4. UNCHANGED <<left, dir, conf, abandoned>>
        BY <3>2
      <3> HIDE DEF at, state
      <3>5. Control' /\ StepOf(c) /\ pc'[c] = at /\ placed'[c] = files
        BY <2>1, <3>1, <3>3, <3>4, ControlMoves
      <3> QED  BY <3>2, <3>5 DEF at
    <2> DEFINE e == <<>>
    <2>7. e \in Path /\ Root(c) \o e = Root(c)
      BY <2>1, StreamNames DEF Path
    <2> HIDE DEF e, files
    <2>8. Within(disk, disk', Root(c) \o e) /\ Fulfilled(disk', Root(c), placed'[c])
      BY <2>3, <2>4, <2>6, <2>7 DEF Output
    <2> QED  BY <1>0, <2>6, <2>7, <2>8, CallStep
  <1> QED  BY <1>1, <1>2

\* The cli goes on, or leaves: its LXC and where it is.
LEMMA LeaveKeeps ==
  ASSUME ContainerInv, NEW c \in Clients, pc[c] = "alive", NEW code, Leave(c, code),
         UNCHANGED <<disk, createVars, useVars, abandoned>>
  PROVE  ContainerInv' /\ StaysInRoot(c)
  <1> DEFINE at == "destroying"
             state == Killed(lxc[c])
  <1>1. /\ pc[c] \in {"alive", "destroying"} /\ at \in {"destroying", "removing"}
        /\ pc' = [pc EXCEPT ![c] = at] /\ lxc' = [lxc EXCEPT ![c] = state]
        /\ UNCHANGED <<disk, createVars, useVars, abandoned>>
    BY DEF Leave, Goto
  <1>2. state \in {"STOPPED", "starting", "RUNNING", "FROZEN"}
    BY LxcStates, Kill
  <1> HIDE DEF at, state
  <1> QED  BY <1>1, <1>2, LeavesKeeps

LEMMA ExecuteKeeps ==
  ASSUME ContainerInv, NEW c \in Clients, NEW g, Execute(c, g),
         UNCHANGED <<disk, pc, createVars, useVars, abandoned>>
  PROVE  ContainerInv' /\ StaysInRoot(c)
  <1> DEFINE state == "starting"
  <1>1. lxc' = [lxc EXCEPT ![c] = state] /\ state \in {"STOPPED", "starting", "RUNNING", "FROZEN"}
    BY DEF Execute
  <1> HIDE DEF state
  <1> QED  BY <1>1, LxcStateKeeps

LEMMA StartsKeep ==
  ASSUME ContainerInv, NEW c \in Clients, StartGroup(c) \/ StartTask(c)
  PROVE  ContainerInv' /\ StaysInRoot(c)
  <1>1. CASE StartGroup(c)
    <2>1. Execute(c, group[c]) /\ UNCHANGED <<disk, pc, createVars, useVars, abandoned>>
      BY <1>1 DEF StartGroup
    <2> QED  BY <2>1, ExecuteKeeps
  <1>2. CASE StartTask(c)
    <2>1. UNCHANGED <<disk, createVars, useVars, abandoned>> /\ pc[c] = "alive"
      BY <1>2 DEF StartTask, Main
    <2>2. \/ Execute(c, group[c]) /\ UNCHANGED pc
          \/ Leave(c, "failure")
      BY <1>2 DEF StartTask
    <2> QED  BY <2>1, <2>2, ExecuteKeeps, LeaveKeeps
  <1> QED  BY <1>1, <1>2

LEMMA WaitKeeps ==
  ASSUME ContainerInv, NEW c \in Clients, WaitForTask(c)
  PROVE  ContainerInv' /\ StaysInRoot(c)
  <1>1. UNCHANGED <<disk, createVars, useVars, abandoned>> /\ pc[c] = "alive"
        /\ (UNCHANGED <<pc, lxc>> \/ Leave(c, "failure"))
    BY DEF WaitForTask, Main
  <1>2. UNCHANGED <<pc, lxc>> => UNCHANGED containerVars
    BY <1>1 DEF containerVars
  <1> QED  BY <1>1, <1>2, LeaveKeeps, StutterKeeps

LEMMA ReadsAndBuildsKeep ==
  ASSUME ContainerInv, NEW c \in Clients,
         Extend(c) \/ Set(c) \/ ReadOptions(c) \/ BuildTask(c) \/ Exit(c)
  PROVE  ContainerInv' /\ StaysInRoot(c)
  <1>1. UNCHANGED containerVars
    BY DEF Extend, Set, Build, ReadOptions, BuildTask, Exit
  <1> QED  BY <1>1, StutterKeeps

\* Where an exception may have led, the files aside.
LEMMA MainControl ==
  ASSUME Control, NEW c \in Clients, pc[c] = "alive",
         UNCHANGED <<createVars, calls, abandoned>>,
         UNCHANGED <<pc, lxc>> \/ \E code : Leave(c, code),
         NEW files, PlacedOK(files), placed' = [placed EXCEPT ![c] = files]
  PROVE  Control' /\ StepOf(c) /\ pc'[c] \in {"alive", "destroying"} /\ dir' = dir
         /\ placed'[c] = files
  <1>1. /\ pc = [pc EXCEPT ![c] = pc[c]] /\ lxc = [lxc EXCEPT ![c] = lxc[c]]
        /\ lxc[c] \in {"STOPPED", "starting", "RUNNING", "FROZEN"}
        /\ StateOK(pc[c], left[c], dir[c], conf[c], lxc[c], calls[c], placed[c])
    BY Same DEF StateOK
  <1>2. Killed(lxc[c]) \in {"STOPPED", "starting", "RUNNING", "FROZEN"}
    BY <1>1, Kill
  <1>3. StateOK(pc[c], left[c], dir[c], conf[c], lxc[c], calls[c], files)
    BY <1>1 DEF StateOK
  <1>4. StateOK("destroying", left[c], dir[c], conf[c], Killed(lxc[c]), calls[c], files)
    BY <1>1, <1>2 DEF StateOK
  <1>5. PICK at, state : /\ StateOK(at, left[c], dir[c], conf[c], state, calls[c], files)
                         /\ pc' = [pc EXCEPT ![c] = at] /\ lxc' = [lxc EXCEPT ![c] = state]
    <2>1. CASE UNCHANGED <<pc, lxc>>
      <3>1. pc' = [pc EXCEPT ![c] = pc[c]] /\ lxc' = [lxc EXCEPT ![c] = lxc[c]]
        BY <1>1, <2>1
      <3> QED  BY <1>3, <3>1
    <2>2. CASE \E code : Leave(c, code)
      BY <1>4, <2>2 DEF Leave, Goto
    <2> QED  BY <2>1, <2>2
  <1>6. UNCHANGED <<left, dir, conf, abandoned>> /\ calls' = [calls EXCEPT ![c] = calls[c]]
    BY Same DEF createVars
  <1>7. UNCHANGED <<left, dir, conf, abandoned>>
    BY <1>6
  <1>8. calls' = [calls EXCEPT ![c] = calls[c]]
    BY <1>6
  <1>9. Control' /\ StepOf(c) /\ placed'[c] = files
    BY ONLY Control, c \in Clients, placed' = [placed EXCEPT ![c] = files],
       <1>5, <1>7, <1>8, ControlMoves
  <1>10. pc'[c] \in {"alive", "destroying"}
    BY DEF Control, Leave, Goto
  <1> QED  BY <1>6, <1>9, <1>10

LEMMA FeedKeeps ==
  ASSUME ContainerInv, NEW c \in Clients, CliOK(c), Feed(c)
  PROVE  ContainerInv' /\ StaysInRoot(c)
  <1> DEFINE in == options[c].stdin
             remote == <<"stdin">>
             owner == "root"
             mode == "0400"
             r == Push(disk, in, remote, owner, mode, Root(c))
             files == AfterPush(c, r, Inside(remote), in, owner, mode)
  <1>1. /\ pc[c] = "alive" /\ UNCHANGED <<createVars, calls, abandoned>>
        /\ UNCHANGED <<pc, lxc>> \/ Leave(c, "failure")
    BY DEF Feed, Main
  <1>2. Control /\ Sound(disk) /\ IsRoot(Root(c)) /\ Root(c) \in Path
    BY <1>1, AliveFacts
  <1>3. CASE in = NoFile
    <2>1. UNCHANGED <<disk, pc, lxc, placed>>
      BY <1>3 DEF Feed, Done
    <2> QED  BY <1>1, <2>1, StutterKeeps DEF containerVars, useVars
  <1>4. CASE in # NoFile
    <2>1. IsHostPath(in)
      BY <1>4, StreamsAssumption DEF CliOK
    <2>2. Inside(remote) = remote /\ remote \in Path /\ owner \in Text /\ mode \in Text
      BY StreamNames, ResolvedInside
    <2>3. disk' = r.disk /\ placed' = [placed EXCEPT ![c] = files]
      BY <1>4, <2>2 DEF Feed
    <2>4. PlacedOK(files)
      BY <1>2, AfterPushPlaced
    <2> HIDE DEF files
    <2>5. Control' /\ StepOf(c) /\ pc'[c] \in {"alive", "destroying"} /\ dir' = dir
          /\ placed'[c] = files
      BY <1>1, <1>2, <2>3, <2>4, MainControl
    <2>6. /\ r = Push(disk, in, remote, owner, mode, Root(c)) /\ disk' = r.disk
          /\ placed'[c] = AfterPush(c, r, Inside(remote), in, owner, mode)
          /\ abandoned' = abandoned
      BY <1>1, <2>3, <2>5 DEF files
    <2> HIDE DEF r, in, remote, owner, mode
    <2> QED  BY <1>1, <2>1, <2>2, <2>5, <2>6, PushStep
  <1> QED  BY <1>3, <1>4

LEMMA PullOutputKeeps ==
  ASSUME ContainerInv, NEW c \in Clients, CliOK(c), PullOutput(c)
  PROVE  ContainerInv' /\ StaysInRoot(c)
  <1>1. PICK stream \in {"stdout", "stderr"} :
          LET local == options[c][stream]
              r == IF local = NoFile THEN Done(disk) ELSE Pull(disk, <<stream>>, local, Root(c))
          IN  /\ Main(c, stream)
              /\ disk' = r.disk
              /\ CASE ~r.ok -> Leave(c, "failure")
                   [] r.ok /\ stream = "stdout" -> Step(c, "stderr") /\ UNCHANGED <<pc, lxc, exit>>
                   [] r.ok /\ stream = "stderr" -> Leave(c, "success")
              /\ UNCHANGED <<createVars, useVars, abandoned, role, groupVars, options, result>>
    BY DEF PullOutput
  <1> DEFINE local == options[c][stream]
             remote == <<stream>>
             r == Pull(disk, remote, local, Root(c))
  <1>2. /\ pc[c] = "alive" /\ UNCHANGED <<createVars, useVars, abandoned>>
        /\ UNCHANGED <<pc, lxc>> \/ Leave(c, "failure") \/ Leave(c, "success")
    <2>1. Main(c, stream) /\ UNCHANGED <<createVars, useVars, abandoned>>
      BY <1>1
    <2>2. pc[c] = "alive"
      BY <2>1 DEF Main
    <2>3. UNCHANGED <<pc, lxc>> \/ Leave(c, "failure") \/ Leave(c, "success")
      BY <1>1
    <2> QED  BY <2>1, <2>2, <2>3
  <1>3. Control /\ Sound(disk) /\ Root(c) \in Path
    BY <1>2, AliveFacts
  <1>4. CASE local = NoFile
    <2>1. disk' = disk
      BY <1>1, <1>4 DEF Done
    <2>2. CASE UNCHANGED <<pc, lxc>>
      BY <1>2, <2>1, <2>2, StutterKeeps DEF containerVars
    <2>3. CASE Leave(c, "failure") \/ Leave(c, "success")
      BY <1>2, <2>1, <2>3, LeaveKeeps
    <2> QED  BY <1>2, <2>2, <2>3
  <1>5. CASE local # NoFile
    <2>1. IsHostPath(local) /\ local \in Path
      <3>1. local \in Outputs
        BY <1>5 DEF CliOK
      <3> QED  BY <1>5, <3>1, StreamsAssumption DEF IsHostPath
    <2>2. remote \in Path
      BY StreamNames
    <2>3. disk' = r.disk
      BY <1>1, <1>5
    <2>4. Only(disk, disk', local) /\ Kept(disk, disk')
      <3>1. r = Pull(disk, remote, local, Root(c))
        OBVIOUS
      <3> HIDE DEF r, remote, local
      <3> QED  BY <1>3, <2>1, <2>2, <2>3, <3>1, PullDef
    <2>5. placed' = [placed EXCEPT ![c] = placed[c]] /\ PlacedOK(placed[c])
      BY <1>2, <1>3, Same DEF StateOK, useVars
    <2>6. UNCHANGED <<createVars, calls, abandoned>> /\ (UNCHANGED <<pc, lxc>> \/ \E code : Leave(c, code))
      BY <1>2 DEF useVars
    <2>7. Control' /\ StepOf(c) /\ pc'[c] \in {"alive", "destroying"} /\ dir' = dir
      BY <1>2, <1>3, <2>5, <2>6, MainControl
    <2>8. placed' = placed /\ abandoned' = abandoned
      BY <1>2 DEF useVars
    <2> HIDE DEF local
    <2> QED  BY <1>2, <2>1, <2>4, <2>7, <2>8, HostStep
  <1> QED  BY <1>4, <1>5

-----------------------------------------------------------------------------
(* A step of one client, and the cli of another. *)

\* The state of one client that a step may change, in functions of clients.
Changes(c) ==
  /\ pc' = pc \/ \E at : pc' = [pc EXCEPT ![c] = at]
  /\ placed' = placed \/ \E files : placed' = [placed EXCEPT ![c] = files]
  /\ lxc' = lxc \/ \E state : lxc' = [lxc EXCEPT ![c] = state]
                               /\ (state # "STOPPED" => lxc[c] # "STOPPED")

LEMMA CreationChanges ==
  ASSUME NEW c, Creation(c)
  PROVE  Changes(c)
  <1>1. lxc' = lxc
    BY DEF Creation, CreateContainer, TryName, NamingFails, ConstructLxc, Undo, CreateConfiguredFiles
  <1>2. pc' = pc \/ \E at : pc' = [pc EXCEPT ![c] = at]
    BY DEF Creation, CreateContainer, TryName, NamingFails, ConstructLxc, Undo, CreateConfiguredFiles, Goto
  <1>3. placed' = placed \/ \E files : placed' = [placed EXCEPT ![c] = files]
    BY DEF Creation, CreateContainer, TryName, NamingFails, ConstructLxc, Undo, CreateConfiguredFiles,
       RemoveDirectory, useVars
  <1> QED  BY <1>1, <1>2, <1>3 DEF Changes

LEMMA CallsChange ==
  ASSUME NEW c, FileCalls(c)
  PROVE  Changes(c)
  <1>1. lxc' = lxc /\ pc' = pc
    BY DEF FileCalls, PushFile, PushFileLink, SetAttribute, PullFile
  <1>2. placed' = placed \/ \E files : placed' = [placed EXCEPT ![c] = files]
    <2>1. CASE SetAttribute(c)
      BY <2>1 DEF SetAttribute
    <2>2. CASE ~SetAttribute(c)
      BY <2>2 DEF FileCalls, PushFile, PushFileLink, PullFile
    <2> QED  BY <2>1, <2>2
  <1> QED  BY <1>1, <1>2 DEF Changes

LEMMA LifeChanges ==
  ASSUME Control, NEW c \in Clients, Drop(c) \/ ComesUp(c) \/ Freeze(c) \/ Unfreeze(c) \/ Destruction(c)
  PROVE  Changes(c)
  <1>1. placed' = placed \/ DestroyRemoves(c)
    BY DEF Drop, ComesUp, Freeze, Unfreeze, SetLxc, Destruction, DestroyStops, useVars
  <1>2. DestroyRemoves(c) => \E files : placed' = [placed EXCEPT ![c] = files]
    BY DEF DestroyRemoves, RemoveDirectory
  <1>3. pc' = pc \/ \E at : pc' = [pc EXCEPT ![c] = at] /\ at # "alive"
    <2>1. CASE Drop(c) \/ Destruction(c)
      <3>1. PICK at \in {"destroying", "removing", "gone"} : pc' = [pc EXCEPT ![c] = at]
        BY <2>1 DEF Drop, Goto, Destruction, DestroyStops, DestroyRemoves
      <3> QED  BY <3>1
    <2>2. CASE ~(Drop(c) \/ Destruction(c))
      BY <2>2 DEF ComesUp, Freeze, Unfreeze, SetLxc
    <2> QED  BY <2>1, <2>2
  <1>4. lxc' = lxc \/ \E state : lxc' = [lxc EXCEPT ![c] = state]
                                 /\ (state # "STOPPED" => lxc[c] # "STOPPED")
    <2>1. CASE Drop(c)
      <3>1. Killed(lxc[c]) # "STOPPED" => lxc[c] # "STOPPED"
        BY DEF Killed
      <3>2. lxc' = [lxc EXCEPT ![c] = Killed(lxc[c])]
        BY <2>1 DEF Drop
      <3> QED  BY <3>1, <3>2
    <2>2. CASE ComesUp(c) \/ Freeze(c) \/ Unfreeze(c)
      <3>1. lxc[c] # "STOPPED"
        BY <2>2 DEF ComesUp, Freeze, Unfreeze
      <3>2. PICK state \in {"RUNNING", "FROZEN"} : lxc' = [lxc EXCEPT ![c] = state]
        BY <2>2 DEF ComesUp, Freeze, Unfreeze, SetLxc
      <3> QED  BY <3>1, <3>2
    <2>3. CASE DestroyStops(c)
      <3>1. PICK state \in {"STOPPED", "RUNNING", lxc[c]} :
              lxc' = [lxc EXCEPT ![c] = state] /\ (state = "RUNNING" => lxc[c] # "STOPPED")
        BY <2>3 DEF DestroyStops
      <3> QED  BY <3>1
    <2>4. CASE DestroyRemoves(c)
      BY <2>4 DEF DestroyRemoves
    <2> QED  BY <2>1, <2>2, <2>3, <2>4 DEF Destruction
  <1> QED  BY <1>1, <1>2, <1>3, <1>4 DEF Changes

\* The functions of clients.
Shaped ==
  /\ group = [c \in Clients |-> group[c]] /\ sent = [c \in Clients |-> sent[c]]
  /\ options = [c \in Clients |-> options[c]] /\ placed = [c \in Clients |-> placed[c]]
  /\ step = [c \in Clients |-> step[c]] /\ exit = [c \in Clients |-> exit[c]]
  /\ result = [c \in Clients |-> result[c]]
  /\ DOMAIN pc = Clients /\ DOMAIN lxc = Clients

\* What of a client, the disk aside, the cli's steps read.
Still(o) ==
  /\ role' = role /\ options'[o] = options[o] /\ step'[o] = step[o]
  /\ exit'[o] = exit[o] /\ result'[o] = result[o]
  /\ group'[o] = group[o] /\ sent'[o] = sent[o]
  /\ pc'[o] = pc[o] /\ placed'[o] = placed[o] /\ lxc'[o] = lxc[o]

\* Of all clients but one.
Others(c) == \A o \in Clients \ {c} : Still(o)

LEMMA StillOK ==
  ASSUME NEW o, CliOK(o), Still(o)
  PROVE  CliOK(o)'
  BY DEF CliOK, Still, Fed

LEMMA ShapedAre ==
  ASSUME ContainerInv, GroupsInv, CliInv
  PROVE  Shaped
  BY DEF ContainerInv, Control, GroupsInv, CliInv, Shaped

LEMMA ContainerStill ==
  ASSUME Shaped, NEW c \in Clients, Changes(c), UNCHANGED <<role, groupVars, cliVars>>,
         NEW o \in Clients, o # c
  PROVE  Still(o)
  BY DEF Shaped, Changes, Still, groupVars, cliVars

\* A step of Container by one client.
LEMMA ContainerStepOK ==
  ASSUME ContainerInv, GroupsInv, CliInv, NEW c \in Clients, ContainerStep(c)
  PROVE  CliInv' /\ Others(c)
  <1>1. Shaped
    BY ShapedAre
  <1>2. UNCHANGED <<role, groupVars, cliVars>>
    BY DEF ContainerStep
  <1>3. Changes(c)
    BY CreationChanges, CallsChange, LifeChanges DEF ContainerStep, ContainerInv
  <1>4. ASSUME NEW o \in Clients  PROVE CliOK(o)'
    <2>1. CliOK(o)
      BY DEF CliInv
    <2>2. CASE o # c
      BY <1>1, <1>2, <1>3, <2>1, <2>2, ContainerStill, StillOK
    <2>3. CASE o = c
      <3>1. /\ role' = role /\ options'[c] = options[c] /\ step'[c] = step[c]
            /\ group'[c] = group[c] /\ sent'[c] = sent[c] /\ (Fed(c)' <=> Fed(c))
        BY <1>2 DEF groupVars, cliVars, Fed
      <3>2. lxc'[c] # "STOPPED" => sent'[c] # {}
        <4>1. lxc'[c] # "STOPPED" => lxc[c] # "STOPPED"
          BY <1>1, <1>3 DEF Shaped, Changes
        <4> QED  BY <2>1, <2>3, <3>1, <4>1 DEF CliOK
      <3> QED  BY <2>1, <2>3, <3>1, <3>2 DEF CliOK
    <2> QED  BY <2>2, <2>3
  <1>5. UNCHANGED <<step, options, exit, result>>
    BY <1>2 DEF cliVars
  <1>6. Others(c)
    BY <1>1, <1>2, <1>3, ContainerStill DEF Others
  <1> QED  BY <1>4, <1>5, <1>6 DEF CliInv

-----------------------------------------------------------------------------
(* The cli's own steps. *)

\* A step of c that leaves the other clients alone.
Mine(c) ==
  /\ role' = role
  /\ Others(c)
  /\ options' = [o \in Clients |-> options'[o]]
  /\ step' \in [Clients -> {"options", "creating", "feeding", "starting", "waiting",
                           "stdout", "stderr", "leaving", "exited"}]
  /\ exit' \in [Clients -> {"none", "success", "failure"}] /\ result' \in [Clients -> {"none", "OK", "other"}]

LEMMA MineOK ==
  ASSUME CliInv, NEW c \in Clients, Mine(c), CliOK(c)'
  PROVE  CliInv' /\ Others(c)
  <1>1. ASSUME NEW o \in Clients  PROVE CliOK(o)'
    <2>1. CASE o = c
      BY <2>1
    <2>2. CASE o # c
      BY <2>2, StillOK DEF CliInv, Mine, Others
    <2> QED  BY <2>1, <2>2
  <1> QED  BY <1>1 DEF CliInv, Mine

\* The clients' group is not the cli's.
LEMMA BuilderOK ==
  ASSUME ContainerInv, GroupsInv, CliInv, NEW c \in Clients, Extend(c) \/ Set(c) \/ StartGroup(c)
  PROVE  CliInv' /\ Others(c)
  <1>1. Shaped /\ CliOK(c)
    BY ShapedAre DEF CliInv
  <1>2. role[c] = "builder" /\ role' = role /\ UNCHANGED <<options, step, exit, result, pc, placed>>
    BY DEF Extend, Set, MayBuild, Build, StartGroup, containerVars, useVars, cliVars
  <1>3. CASE Extend(c) \/ Set(c)
    <2>1. UNCHANGED <<sent, lxc>> /\ \E g : group' = [group EXCEPT ![c] = g]
      BY <1>3 DEF Extend, Set, Build, containerVars
    <2>2. Mine(c)
      BY <1>1, <1>2, <2>1 DEF Mine, Others, Still, Shaped, CliInv
    <2>3. CliOK(c)'
      BY <1>1, <1>2, <2>1 DEF CliOK
    <2> QED  BY <2>2, <2>3, MineOK
  <1>4. CASE StartGroup(c)
    <2>1. /\ group' = group /\ sent' = [sent EXCEPT ![c] = {group[c]}]
          /\ lxc' = [lxc EXCEPT ![c] = "starting"]
      BY <1>4 DEF StartGroup, Execute
    <2>2. Mine(c)
      BY <1>1, <1>2, <2>1 DEF Mine, Others, Still, Shaped, CliInv
    <2>3. CliOK(c)'
      BY <1>1, <1>2, <2>1 DEF CliOK, Shaped
    <2> QED  BY <2>2, <2>3, MineOK
  <1> QED  BY <1>3, <1>4

LEMMA EndsStepOK ==
  ASSUME ContainerInv, GroupsInv, CliInv, NEW c \in Clients, Ends(c)
  PROVE  CliInv' /\ Others(c)
  <1>1. Shaped /\ CliOK(c)
    BY ShapedAre DEF CliInv
  <1>2. role' = role /\ UNCHANGED <<options, step, exit, pc, group, sent>> /\ lxc' = [lxc EXCEPT ![c] = "STOPPED"]
        /\ (result' = result \/ \E v \in {"none", "OK", "other"} : result' = [result EXCEPT ![c] = v])
    BY DEF Ends, Succeeds, Fails, Says, groupVars
  <1>3. placed' = placed \/ placed' = [placed EXCEPT ![c] = <<>>]
    BY DEF Ends
  <1>4. Mine(c)
    BY <1>1, <1>2, <1>3 DEF Mine, Others, Still, Shaped, CliInv
  <1>5. CliOK(c)'
    BY <1>1, <1>2 DEF CliOK, Shaped, Fed
  <1> QED  BY <1>4, <1>5, MineOK

LEMMA ReadOptionsOK ==
  ASSUME ContainerInv, GroupsInv, CliInv, NEW c \in Clients, ReadOptions(c)
  PROVE  CliInv' /\ Others(c)
  <1>1. Shaped /\ CliOK(c)
    BY ShapedAre DEF CliInv
  <1>2. /\ role' = role /\ UNCHANGED <<pc, lxc, placed, group, sent, result>> /\ role[c] = "cli"
        /\ step[c] = "options"
    BY DEF ReadOptions, Main, groupVars, containerVars, useVars
  <1>3. /\ options' = options \/ \E limits \in BOOLEAN, in \in Inputs, out, err \in Outputs :
               options' = [options EXCEPT ![c] =
                 [limits |-> limits, stdin |-> in, stdout |-> out, stderr |-> err]]
        /\ \/ step' = [step EXCEPT ![c] = "creating"] /\ exit' = exit
           \/ /\ step' = [step EXCEPT ![c] = "exited"] /\ exit' = [exit EXCEPT ![c] = "failure"]
              /\ options' = options
    BY DEF ReadOptions, Step
  <1>4. Mine(c)
    BY <1>1, <1>2, <1>3 DEF Mine, Others, Still, Shaped, CliInv
  <1>5. sent[c] = {} /\ lxc[c] = "STOPPED"
    BY <1>1, <1>2 DEF CliOK, Fed
  <1>6. /\ options'[c].stdin \in Inputs \cup {NoFile}
        /\ options'[c].stdout \in Outputs \cup {NoFile} /\ options'[c].stderr \in Outputs \cup {NoFile}
    BY <1>1, <1>3 DEF CliOK, Shaped
  <1>7. step'[c] \in {"creating", "exited"}
    BY <1>1, <1>3 DEF Shaped
  <1>8. CliOK(c)'
    BY <1>1, <1>2, <1>5, <1>6, <1>7 DEF CliOK, Fed
  <1> QED  BY <1>4, <1>8, MineOK

LEMMA BuildTaskOK ==
  ASSUME ContainerInv, GroupsInv, CliInv, NEW c \in Clients, BuildTask(c)
  PROVE  CliInv' /\ Others(c)
  <1>1. Shaped /\ CliOK(c)
    BY ShapedAre DEF CliInv
  <1>2. /\ role' = role /\ UNCHANGED <<pc, lxc, placed, sent, options, exit, result>> /\ role[c] = "cli"
        /\ step[c] = "creating" /\ group' = [group EXCEPT ![c] = CliTask]
        /\ step' = [step EXCEPT ![c] = "feeding"]
    BY DEF BuildTask, Main, Step, containerVars, useVars
  <1>3. Mine(c)
    BY <1>1, <1>2 DEF Mine, Others, Still, Shaped, CliInv
  <1>4. step'[c] = "feeding" /\ group'[c] = CliTask
    BY <1>1, <1>2 DEF Shaped
  <1>5. CliOK(c)'
    BY <1>1, <1>2, <1>4 DEF CliOK, Fed
  <1> QED  BY <1>3, <1>5, MineOK

LEMMA FeedOK ==
  ASSUME ContainerInv, GroupsInv, CliInv, NEW c \in Clients, Feed(c)
  PROVE  CliInv' /\ Others(c)
  <1>1. Shaped /\ CliOK(c)
    BY ShapedAre DEF CliInv
  <1> DEFINE in == options[c].stdin
             r == Push(disk, in, <<"stdin">>, "root", "0400", Root(c))
             files == AfterPush(c, r, <<"stdin">>, in, "root", "0400")
  <1>2. /\ role' = role /\ UNCHANGED <<sent, options, result>> /\ role[c] = "cli" /\ step[c] = "feeding"
    BY DEF Feed, Main
  <1>3. placed' = IF in = NoFile THEN placed ELSE [placed EXCEPT ![c] = files]
    BY DEF Feed
  <1>4. \/ /\ group' = [group EXCEPT ![c] = Streams(group[c], options[c])]
           /\ step' = [step EXCEPT ![c] = "starting"] /\ UNCHANGED <<pc, lxc, exit>>
        \/ Leave(c, "failure") /\ UNCHANGED group
    <2>1. group = [o \in Clients |-> group[o]]
      BY <1>1 DEF Shaped
    <2> QED  BY <2>1 DEF Feed, Step
  <1> HIDE DEF files, r
  <1>5. group[c] = CliTask /\ sent[c] = {} /\ lxc[c] = "STOPPED"
    BY <1>1, <1>2 DEF CliOK, Fed
  <1>6. CASE Leave(c, "failure") /\ UNCHANGED group
    <2>1. /\ step' = [step EXCEPT ![c] = "leaving"] /\ exit' = [exit EXCEPT ![c] = "failure"]
          /\ pc' = [pc EXCEPT ![c] = "destroying"] /\ lxc' = [lxc EXCEPT ![c] = "STOPPED"]
      BY <1>5, <1>6 DEF Leave, Step, Goto, Killed
    <2>2. Mine(c)
      BY <1>1, <1>2, <1>3, <1>6, <2>1 DEF Mine, Others, Still, Shaped, CliInv
    <2>3. step'[c] = "leaving" /\ pc'[c] = "destroying" /\ lxc'[c] = "STOPPED"
      BY <1>1, <2>1 DEF Shaped
    <2>4. CliOK(c)'
      BY <1>1, <1>2, <1>5, <2>3 DEF CliOK, Fed
    <2> QED  BY <2>2, <2>4, MineOK
  <1>7. CASE ~(Leave(c, "failure") /\ UNCHANGED group)
    <2>1. /\ group' = [group EXCEPT ![c] = Streams(CliTask, options[c])]
          /\ step' = [step EXCEPT ![c] = "starting"] /\ UNCHANGED <<pc, lxc, exit>>
      BY <1>4, <1>5, <1>7
    <2>2. Mine(c)
      BY <1>1, <1>2, <1>3, <2>1 DEF Mine, Others, Still, Shaped, CliInv
    <2>3. step'[c] = "starting" /\ group'[c] = Streams(CliTask, options[c])
      BY <1>1, <2>1 DEF Shaped
    <2>4. CliOK(c)'
      BY <1>1, <1>2, <1>5, <2>1, <2>3 DEF CliOK, Fed
    <2> QED  BY <2>2, <2>4, MineOK
  <1> QED  BY <1>6, <1>7

\* A step of the cli to a later place of main().
LEMMA GoesOK ==
  ASSUME ContainerInv, GroupsInv, CliInv, NEW c \in Clients,
         role[c] = "cli", step[c] \in {"starting", "waiting", "stdout", "stderr"},
         UNCHANGED <<role, options, group, placed, result>>,
         NEW there \in {"waiting", "stdout", "stderr", "leaving"},
         step' = [step EXCEPT ![c] = there],
         exit' = exit \/ \E code \in {"success", "failure"} : exit' = [exit EXCEPT ![c] = code],
         pc' = pc \/ pc' = [pc EXCEPT ![c] = "destroying"],
         sent' = sent \/ (step[c] = "starting" /\ sent' = [sent EXCEPT ![c] = {group[c]}]),
         lxc' = lxc \/ lxc' = [lxc EXCEPT ![c] = Killed(lxc[c])]
           \/ (lxc' = [lxc EXCEPT ![c] = "starting"] /\ sent' = [sent EXCEPT ![c] = {group[c]}])
  PROVE  CliInv' /\ Others(c)
  <1>1. Shaped /\ CliOK(c)
    BY ShapedAre DEF CliInv
  <1>2. Mine(c)
    BY <1>1 DEF Mine, Others, Still, Shaped, CliInv
  <1>3. step'[c] = there /\ Fed(c) /\ Fed(c)' /\ there \notin {"options", "feeding", "starting"}
    BY <1>1 DEF Shaped, Fed
  <1>4. sent'[c] \subseteq {Streams(CliTask, options[c])}
    BY <1>1 DEF CliOK, Shaped
  <1>5. lxc'[c] # "STOPPED" => sent'[c] # {}
    <2>1. CASE lxc' = lxc \/ lxc' = [lxc EXCEPT ![c] = Killed(lxc[c])]
      <3>1. lxc'[c] # "STOPPED" => lxc[c] # "STOPPED"
        BY <1>1, <2>1 DEF Shaped, Killed
      <3>2. sent[c] # {} => sent'[c] # {}
        BY <1>1 DEF Shaped
      <3> QED  BY <1>1, <3>1, <3>2 DEF CliOK
    <2>2. CASE sent' = [sent EXCEPT ![c] = {group[c]}]
      BY <1>1, <2>2 DEF Shaped
    <2> QED  BY <2>1, <2>2
  <1>6. CliOK(c)'
    BY <1>1, <1>3, <1>4, <1>5 DEF CliOK
  <1> QED  BY <1>2, <1>6, MineOK

LEMMA LeavesOK ==
  ASSUME ContainerInv, GroupsInv, CliInv, NEW c \in Clients,
         role[c] = "cli", step[c] \in {"starting", "waiting", "stdout", "stderr"},
         UNCHANGED <<role, options, group, placed, sent, result>>,
         NEW code \in {"success", "failure"}, Leave(c, code)
  PROVE  CliInv' /\ Others(c)
  <1>1. /\ step' = [step EXCEPT ![c] = "leaving"] /\ exit' = [exit EXCEPT ![c] = code]
        /\ pc' = [pc EXCEPT ![c] = "destroying"] /\ lxc' = [lxc EXCEPT ![c] = Killed(lxc[c])]
    BY DEF Leave, Step, Goto
  <1> QED  BY <1>1, GoesOK

LEMMA MainOK ==
  ASSUME ContainerInv, GroupsInv, CliInv, NEW c \in Clients,
         StartTask(c) \/ WaitForTask(c) \/ PullOutput(c)
  PROVE  CliInv' /\ Others(c)
  <1>1. role[c] = "cli" /\ step[c] \in {"starting", "waiting", "stdout", "stderr"}
        /\ UNCHANGED <<role, options, group, placed, result>>
    BY DEF StartTask, WaitForTask, PullOutput, Main, useVars, groupVars
  <1>2. CASE \E code \in {"success", "failure"} : Leave(c, code) /\ UNCHANGED sent
    BY <1>1, <1>2, LeavesOK
  <1>3. CASE StartTask(c) /\ ~\E code \in {"success", "failure"} : Leave(c, code) /\ UNCHANGED sent
    <2>1. /\ step[c] = "starting" /\ sent' = [sent EXCEPT ![c] = {group[c]}]
          /\ lxc' = [lxc EXCEPT ![c] = "starting"] /\ step' = [step EXCEPT ![c] = "waiting"]
          /\ pc' = pc /\ exit' = exit
      BY <1>3 DEF StartTask, Main, Execute, Step
    <2> QED  BY <1>1, <2>1, GoesOK
  <1>4. CASE (WaitForTask(c) \/ PullOutput(c)) /\ ~\E code \in {"success", "failure"} : Leave(c, code) /\ UNCHANGED sent
    <2>1. /\ sent' = sent /\ UNCHANGED <<pc, lxc, exit>>
          /\ \E there \in {"stdout", "stderr"} : step' = [step EXCEPT ![c] = there]
      <3>1. CASE WaitForTask(c)
        BY <1>4, <3>1 DEF WaitForTask, Step, groupVars
      <3>2. CASE PullOutput(c)
        BY <1>4, <3>2 DEF PullOutput, Step, groupVars
      <3> QED  BY <1>4, <3>1, <3>2
    <2> QED  BY <1>1, <2>1, GoesOK
  <1> QED  BY <1>2, <1>3, <1>4

LEMMA ExitOK ==
  ASSUME ContainerInv, GroupsInv, CliInv, NEW c \in Clients, Exit(c)
  PROVE  CliInv' /\ Others(c)
  <1>1. Shaped /\ CliOK(c)
    BY ShapedAre DEF CliInv
  <1>2. /\ role' = role /\ UNCHANGED <<pc, lxc, placed, group, sent, options, result>> /\ role[c] = "cli"
        /\ pc[c] # "alive" /\ step' = [step EXCEPT ![c] = "exited"]
        /\ exit' = exit \/ exit' = [exit EXCEPT ![c] = "failure"]
    BY DEF Exit, Step, groupVars, containerVars, useVars
  <1>3. Mine(c)
    BY <1>1, <1>2 DEF Mine, Others, Still, Shaped, CliInv
  <1>4. step'[c] = "exited"
    BY <1>1, <1>2 DEF Shaped
  <1>5. CliOK(c)'
    BY <1>1, <1>2, <1>4 DEF CliOK, Fed
  <1> QED  BY <1>3, <1>5, MineOK

-----------------------------------------------------------------------------
(* The whole. *)

\* The inductive invariant of Cli, and so of Container under its clients.
IInv == ContainerInv /\ GroupsInv /\ CliInv

LEMMA GroupsBegin ==
  ASSUME Init
  PROVE  GroupsInv
  <1>1. /\ group = [c \in Clients |-> CreateGroup] /\ sent = [c \in Clients |-> {}]
        /\ step = [c \in Clients |-> "options"]
    BY DEF Init
  <1> QED  BY <1>1, CreateGroupOK DEF GroupsInv

LEMMA CliBegins ==
  ASSUME Init
  PROVE  CliInv
  <1>1. /\ ContainerInit /\ sent = [c \in Clients |-> {}] /\ step = [c \in Clients |-> "options"]
        /\ options = [c \in Clients |-> NoOptions] /\ exit = [c \in Clients |-> "none"]
        /\ result = [c \in Clients |-> "none"]
    BY DEF Init
  <1>2. \A c \in Clients : lxc[c] = "STOPPED" /\ sent[c] = {} /\ step[c] = "options" /\ options[c] = NoOptions
    BY <1>1 DEF ContainerInit
  <1>3. NoOptions.stdin = NoFile /\ NoOptions.stdout = NoFile /\ NoOptions.stderr = NoFile
    BY DEF NoOptions
  <1>4. \A c \in Clients : CliOK(c)
    BY <1>2, <1>3 DEF CliOK, Fed
  <1> QED  BY <1>1, <1>4 DEF CliInv

\* A step of one client: it stays in the root, and leaves the others alone.
StepBy(c) ==
  ContainerStep(c) \/ Extend(c) \/ Set(c) \/ StartGroup(c) \/ CliStep(c) \/ Ends(c)

LEMMA StepKeeps ==
  ASSUME IInv, NEW c \in Clients, StepBy(c)
  PROVE  IInv' /\ StaysInRoot(c) /\ Others(c)
  <1>0. ContainerInv /\ GroupsInv /\ CliInv /\ CliOK(c)
    BY DEF IInv, CliInv
  <1>1. GroupsInv'
    <2>1. [Next]_vars
      BY DEF Next, StepBy
    <2> QED  BY <2>1, GroupsStep DEF IInv
  <1>2. ContainerInv' /\ StaysInRoot(c) /\ CliInv' /\ Others(c)
    <2>1. CASE ContainerStep(c)
      BY <1>0, <2>1, ContainerStepKeeps, ContainerStepOK DEF ContainerStep
    <2>2. CASE Extend(c) \/ Set(c)
      BY <1>0, <2>2, ReadsAndBuildsKeep, BuilderOK
    <2>3. CASE StartGroup(c)
      BY <1>0, <2>3, StartsKeep, BuilderOK
    <2>4. CASE Ends(c)
      BY <1>0, <2>4, EndsKeeps, EndsStepOK
    <2>5. CASE ReadOptions(c)
      BY <1>0, <2>5, ReadsAndBuildsKeep, ReadOptionsOK
    <2>6. CASE BuildTask(c)
      BY <1>0, <2>6, ReadsAndBuildsKeep, BuildTaskOK
    <2>7. CASE Exit(c)
      BY <1>0, <2>7, ReadsAndBuildsKeep, ExitOK
    <2>8. CASE Feed(c)
      BY <1>0, <2>8, FeedKeeps, FeedOK
    <2>9. CASE StartTask(c)
      BY <1>0, <2>9, StartsKeep, MainOK
    <2>10. CASE WaitForTask(c)
      BY <1>0, <2>10, WaitKeeps, MainOK
    <2>11. CASE PullOutput(c)
      BY <1>0, <2>11, PullOutputKeeps, MainOK
    <2> QED  BY <2>1, <2>2, <2>3, <2>4, <2>5, <2>6, <2>7, <2>8, <2>9, <2>10, <2>11 DEF CliStep, StepBy
  <1> QED  BY <1>1, <1>2 DEF IInv

LEMMA StutterKeepsAll ==
  ASSUME IInv, UNCHANGED vars
  PROVE  IInv'
  <1>1. GroupsInv'
    BY GroupsStep DEF IInv
  <1>2. ContainerInv'
    BY StutterKeeps DEF IInv, vars
  <1>3. UNCHANGED <<role, group, sent, step, options, exit, result, pc, lxc, placed>>
    BY DEF vars, containerVars, useVars, groupVars, cliVars
  <1>4. \A c \in Clients : CliOK(c)'
    BY <1>3 DEF IInv, CliInv, CliOK, Fed
  <1>5. CliInv'
    BY <1>3, <1>4 DEF IInv, CliInv
  <1> QED  BY <1>1, <1>2, <1>5 DEF IInv

\* Every step keeps it.
LEMMA NextKeeps ==
  ASSUME IInv, [Next]_vars
  PROVE  IInv'
  BY StepKeeps, StutterKeepsAll DEF Next, StepBy

\* The inductive invariant holds.
THEOREM Invariant == Spec => []IInv
  <1>1. Init => IInv
    BY InitInvariant, GroupsBegin, CliBegins DEF Init, IInv
  <1>2. IInv /\ [Next]_vars => IInv'
    BY NextKeeps
  <1> QED  BY <1>1, <1>2, PTL DEF Spec

\* Every variable of Cli and Container has its type.
THEOREM TypeCorrect == Spec => []TypeOK
  <1>1. IInv => TypeOK
    <2> SUFFICES ASSUME IInv  PROVE TypeOK
      OBVIOUS
    <2>1. ContainerTypeOK
      BY TypesFollow DEF IInv
    <2>2. \A c \in Clients : \A i \in DOMAIN group[c].processes : group[c].processes[i].id = i - 1
      BY DEF IInv, GroupsInv, GroupOK
    <2> QED  BY <2>1, <2>2 DEF TypeOK, IInv, CliInv
  <1> QED  BY <1>1, Invariant, PTL

\* Container::create and ~Container: no two containers have the same directory,
\* and none is left behind but by a failed removal, for any number of clients.
THEOREM OwnersHold == Spec => []OneOwnerEach
  <1>1. IInv => OneOwnerEach
    BY OwnersFollow DEF IInv
  <1> QED  BY <1>1, Invariant, PTL

\* Filesystem and Container: what a live container was asked to hold is there, with
\* owner, mode and contents.
THEOREM FilesHold == Spec => []FilesAsAsked
  <1>1. IInv => FilesAsAsked
    BY FilesFollow DEF IInv
  <1> QED  BY <1>1, Invariant, PTL

\* Filesystem and Container: no step changes the kind or the contents of anything
\* beside the root of a container, nor of a file of the host unless it is below
\* what a symbolic link holds.
THEOREM RootsHold == Spec => KeptInRoot
  <1> DEFINE A == \A p \in DOMAIN disk :
          LET beside == \E c \in Clients :
                pc[c] = "alive" /\ pc'[c] = "alive" /\ p # Root(c)
                /\ IsPrefix(<<dir[c]>>, p) /\ ~IsPrefix(Root(c), p)
              theirs == p # <<>> /\ p[1] \notin Names \ Foreign /\ Clear(p)
          IN  (beside \/ theirs) =>
                p \in DOMAIN disk' /\ disk'[p].kind = disk[p].kind /\ disk'[p].data = disk[p].data
  <1>1. IInv /\ [Next]_vars => [A]_containerVars
    <2> SUFFICES ASSUME IInv, [Next]_vars  PROVE [A]_containerVars
      OBVIOUS
    <2>1. ASSUME NEW c \in Clients, StepBy(c)  PROVE A
      BY <2>1, StepKeeps, RootsFollow
    <2>2. UNCHANGED vars => UNCHANGED containerVars
      BY DEF vars
    <2> QED  BY <2>1, <2>2 DEF Next, StepBy
  <1> QED  BY <1>1, Invariant, PTL DEF Spec, KeptInRoot

-----------------------------------------------------------------------------
(* What the cli delivers. *)

\* What the program is given to read, and that it is there.
Input(c) == IF options[c].stdin = NoFile THEN <<>> ELSE disk[options[c].stdin].data
InputThere(c) == options[c].stdin # NoFile => options[c].stdin \in DOMAIN disk

\* The local files are neither links nor reached through one.
Plainly(c) == \A f \in {options[c].stdin, options[c].stdout, options[c].stderr} : Direct(disk, f)

\* The task may run, or has run, and its container is there.
Going(c) == pc[c] = "alive" /\ step[c] \in {"starting", "waiting", "stdout", "stderr"}

\* Nobody but the cli has access to its container, so its root stays a directory.
RootThere(c) == role[c] = "cli" /\ pc[c] = "alive" => IsDirectory(disk, Root(c))

\* Until it ends the program's input is the file that was asked for.
FedOK(c) ==
  Going(c) /\ Plainly(c) =>
    /\ InputThere(c)
    /\ options[c].stdin # NoFile /\ (step[c] = "starting" \/ lxc[c] # "STOPPED") =>
         Holds(disk, InPath(c), Input(c)) /\ ~IsLink(disk, InPath(c))

\* With a result nothing runs in the container, and with that of a success the outputs
\* are there.
WrittenOK(c) ==
  /\ result[c] # "none" => step[c] \notin {"options", "creating", "feeding", "starting"}
  /\ Going(c) /\ step[c] \in {"stdout", "stderr"} => result[c] # "none"
  /\ Going(c) /\ result[c] # "none" => lxc[c] = "STOPPED"
  /\ Going(c) /\ result[c] = "OK" /\ Plainly(c) /\ ~Linked(disk, c) =>
       /\ options[c].stdout # NoFile => Holds(disk, OutPath(c), Input(c))
       /\ options[c].stderr # NoFile => Holds(disk, ErrPath(c), Complaint)

ErrLinked(d, c) == options[c].stderr # NoFile /\ IsLink(d, ErrPath(c))

\* Outputs that were pulled stay pulled.
PulledOK(c) ==
  /\ Going(c) /\ step[c] = "stderr" /\ options[c].stdout # NoFile /\ Plainly(c) =>
       /\ Exists(disk, options[c].stdout)
       /\ result[c] = "OK" /\ ~ErrLinked(disk, c) =>
            Holds(disk, options[c].stdout, Input(c)) /\ Exists(disk, OutPath(c)) /\ ~IsLink(disk, OutPath(c))
  /\ exit[c] = "success" =>
       /\ step[c] \in {"leaving", "exited"} /\ result[c] # "none" /\ pc[c] # "alive"
       /\ step[c] = "exited" => pc[c] = "gone"
       /\ Plainly(c) =>
            /\ InputThere(c)
            /\ \A f \in {options[c].stdout, options[c].stderr} \ {NoFile} : Exists(disk, f)
            /\ result[c] = "OK" =>
                 /\ options[c].stdout # NoFile => Holds(disk, options[c].stdout, Input(c))
                 /\ options[c].stderr # NoFile => Holds(disk, options[c].stderr, Complaint)

DeliverOK(c) ==
  /\ role[c] # "cli" => step[c] = "options"
  /\ RootThere(c) /\ FedOK(c) /\ WrittenOK(c) /\ PulledOK(c)

\* The inductive invariant of what is delivered, on top of IInv.
DeliverInv == \A c \in Clients : DeliverOK(c)

\* Files of the host that no link leads to are what they were.
HostSame == \A p \in DOMAIN disk : IsHostPath(p) /\ Clear(p) => Untouched(disk, disk', p)

\* And the files of the program.
StreamsSame(c) == \A p \in {InPath(c), OutPath(c), ErrPath(c)} :
  p \in DOMAIN disk => Untouched(disk, disk', p)

LEMMA HostStays ==
  ASSUME NEW c, StaysInRoot(c)
  PROVE  HostSame
  BY DEF StaysInRoot, HostSame, Theirs, IsHostPath

LEMMA HostFiles ==
  ASSUME CliInv, NEW c \in Clients
  PROVE  \A f \in {options[c].stdin, options[c].stdout, options[c].stderr} : f # NoFile => IsHostPath(f)
  BY StreamsAssumption DEF CliInv, CliOK

\* A link on the way to a file of the host stays there.
LEMMA DirectBack ==
  ASSUME Sound(disk), HostSame, NEW f, IsHostPath(f), Direct(disk', f)
  PROVE  Direct(disk, f) /\ Clear(f)
  <1>1. f \in Path /\ f # <<>> /\ Clear(f) /\ Straight(disk', f)
    BY DEF Direct, IsHostPath
  <1>2. ASSUME NEW q \in Prefixes(f), IsLink(disk, q)  PROVE FALSE
    <2>1. q \in DOMAIN disk /\ disk[q].kind = "link" /\ q \in Path /\ IsPrefix(q, f)
      BY <1>1, <1>2, PrefixesDef DEF IsLink, Exists
    <2>2. q # <<>>
      BY <2>1, SoundRoot
    <2>3. q[1] = f[1]
      BY <1>1, <2>1, <2>2, PrefixDef, PathLen
    <2>4. IsHostPath(q)
      BY <2>1, <2>2, <2>3 DEF IsHostPath
    <2>5. Clear(q)
      BY <1>1, <2>1, LeadsAre, PrefixOrder DEF Clear
    <2>6. IsLink(disk', q)
      BY <2>1, <2>4, <2>5 DEF HostSame, Untouched, IsLink, Exists
    <2> QED  BY <1>1, <1>2, <2>6 DEF Straight
  <1> QED  BY <1>1, <1>2 DEF Direct, Straight

\* What is delivered does not change with the rest of the disk.
LEMMA DeliveredStays ==
  ASSUME Sound(disk), CliInv, NEW c \in Clients, HostSame, options'[c] = options[c], Plainly(c)'
  PROVE  /\ Plainly(c)
         /\ InputThere(c) => InputThere(c)' /\ Input(c)' = Input(c)
         /\ \A f \in {options[c].stdout, options[c].stderr} \ {NoFile} :
              /\ Exists(disk, f) => Exists(disk', f)
              /\ \A data : Holds(disk, f, data) => Holds(disk', f, data)
  <1>1. \A f \in {options[c].stdin, options[c].stdout, options[c].stderr} :
          f # NoFile => IsHostPath(f) /\ Direct(disk, f) /\ Clear(f)
    BY HostFiles, DirectBack DEF Plainly
  <1>2. Plainly(c)
    BY <1>1 DEF Plainly, Direct, NoFile
  <1>3. InputThere(c) => InputThere(c)' /\ Input(c)' = Input(c)
    BY <1>1 DEF HostSame, Untouched, InputThere, Input
  <1>4. \A f \in {options[c].stdout, options[c].stderr} \ {NoFile} :
              /\ Exists(disk, f) => Exists(disk', f)
              /\ \A data : Holds(disk, f, data) => Holds(disk', f, data)
    BY <1>1 DEF HostSame, Untouched, Holds, Exists
  <1> QED  BY <1>2, <1>3, <1>4

LEMMA RootStays ==
  ASSUME NEW c \in Clients, DeliverOK(c), role' = role,
         role[c] = "cli" /\ pc'[c] = "alive" =>
           /\ pc[c] = "alive" /\ dir'[c] = dir[c]
           /\ Root(c) \in DOMAIN disk => Root(c) \in DOMAIN disk' /\ disk'[Root(c)].kind = disk[Root(c)].kind
  PROVE  RootThere(c)'
  <1>1. ASSUME role[c] = "cli", pc'[c] = "alive"  PROVE IsDirectory(disk, Root(c))'
    <2>1. IsDirectory(disk, Root(c)) /\ Root(c)' = Root(c)
      BY <1>1 DEF DeliverOK, RootThere, Root
    <2> QED  BY <1>1, <2>1 DEF IsDirectory, Exists
  <1> QED  BY <1>1 DEF RootThere

\* A step that leaves the container of c alone, if it had one.
LEMMA DeliverKept ==
  ASSUME Sound(disk), CliInv, NEW c \in Clients, DeliverOK(c), HostSame,
         UNCHANGED role, options'[c] = options[c], step'[c] = step[c], exit'[c] = exit[c],
         result'[c] = result[c], RootThere(c)',
         Going(c)' => Going(c) /\ dir'[c] = dir[c] /\ StreamsSame(c)
                      /\ (lxc[c] = "STOPPED" => lxc'[c] = "STOPPED"),
         pc[c] = "gone" => pc'[c] = "gone",
         exit[c] = "success" /\ pc[c] # "alive" => pc'[c] # "alive"
  PROVE  DeliverOK(c)'
  <1>1. ASSUME Going(c)'
        PROVE  /\ Going(c)
               /\ InPath(c)' = InPath(c) /\ OutPath(c)' = OutPath(c) /\ ErrPath(c)' = ErrPath(c)
               /\ \A p \in {InPath(c), OutPath(c), ErrPath(c)} :
                    /\ \A data : Holds(disk, p, data) => Holds(disk', p, data)
                    /\ Exists(disk, p) => Exists(disk', p) /\ (IsLink(disk', p) <=> IsLink(disk, p))
               /\ Linked(disk, c) => Linked(disk, c)'
               /\ ErrLinked(disk, c) => ErrLinked(disk, c)'
    <2>1. InPath(c)' = InPath(c) /\ OutPath(c)' = OutPath(c) /\ ErrPath(c)' = ErrPath(c)
      BY <1>1 DEF InPath, OutPath, ErrPath, Root
    <2>2. \A p \in {InPath(c), OutPath(c), ErrPath(c)} :
            /\ \A data : Holds(disk, p, data) => Holds(disk', p, data)
            /\ Exists(disk, p) => Exists(disk', p) /\ (IsLink(disk', p) <=> IsLink(disk, p))
      BY <1>1 DEF StreamsSame, Holds, Untouched, IsLink, Exists
    <2>3. /\ Linked(disk, c) => Linked(disk, c)'
          /\ ErrLinked(disk, c) => ErrLinked(disk, c)'
      BY <2>1, <2>2 DEF Linked, ErrLinked, IsLink
    <2> QED  BY <1>1, <2>1, <2>2, <2>3
  <1>2. ASSUME Plainly(c)'
        PROVE  /\ Plainly(c)
               /\ InputThere(c) => InputThere(c)' /\ Input(c)' = Input(c)
               /\ \A f \in {options[c].stdout, options[c].stderr} \ {NoFile} :
                    /\ Exists(disk, f) => Exists(disk', f)
                    /\ \A data : Holds(disk, f, data) => Holds(disk', f, data)
    BY <1>2, DeliveredStays
  <1>3. ASSUME Going(c)', Plainly(c)'
        PROVE  /\ Going(c) /\ Plainly(c) /\ InputThere(c)' /\ Input(c)' = Input(c)
               /\ options[c].stdin # NoFile /\ (step[c] = "starting" \/ lxc'[c] # "STOPPED") =>
                    Holds(disk', InPath(c), Input(c)) /\ ~IsLink(disk', InPath(c))
    <2>1. Going(c) /\ Plainly(c)
      BY <1>1, <1>2, <1>3
    <2>2. InputThere(c)
      BY <2>1 DEF DeliverOK, FedOK
    <2>3. ASSUME options[c].stdin # NoFile, step[c] = "starting" \/ lxc'[c] # "STOPPED"
          PROVE  Holds(disk', InPath(c), Input(c)) /\ ~IsLink(disk', InPath(c))
      <3>1. Holds(disk, InPath(c), Input(c)) /\ ~IsLink(disk, InPath(c))
        BY <1>3, <2>1, <2>3 DEF DeliverOK, FedOK
      <3> QED  BY <1>1, <1>3, <3>1 DEF Holds, Exists
    <2> QED  BY <1>2, <1>3, <2>1, <2>2, <2>3
  <1>4. FedOK(c)'
    BY <1>1, <1>3 DEF FedOK
  <1>5. WrittenOK(c)'
    <2>1. result'[c] # "none" => step'[c] \notin {"options", "creating", "feeding", "starting"}
      BY DEF DeliverOK, WrittenOK
    <2>2. /\ Going(c)' /\ step'[c] \in {"stdout", "stderr"} => result'[c] # "none"
          /\ Going(c)' /\ result'[c] # "none" => lxc'[c] = "STOPPED"
      BY <1>1 DEF DeliverOK, WrittenOK
    <2>3. ASSUME Going(c)', result'[c] = "OK", Plainly(c)', ~Linked(disk, c)'
          PROVE  /\ options[c].stdout # NoFile => Holds(disk', OutPath(c)', Input(c)')
                 /\ options[c].stderr # NoFile => Holds(disk', ErrPath(c)', Complaint)
      <3>1. /\ options[c].stdout # NoFile => Holds(disk, OutPath(c), Input(c))
            /\ options[c].stderr # NoFile => Holds(disk, ErrPath(c), Complaint)
        BY <1>1, <1>3, <2>3 DEF DeliverOK, WrittenOK
      <3> QED  BY <1>1, <1>3, <2>3, <3>1
    <2> QED  BY <2>1, <2>2, <2>3 DEF WrittenOK
  <1>6. PulledOK(c)'
    <2>1. ASSUME Going(c)', step'[c] = "stderr", options[c].stdout # NoFile, Plainly(c)'
          PROVE  /\ Exists(disk', options[c].stdout)
                 /\ result'[c] = "OK" /\ ~ErrLinked(disk, c)' =>
                      /\ Holds(disk', options[c].stdout, Input(c)')
                      /\ Exists(disk', OutPath(c)') /\ ~IsLink(disk', OutPath(c)')
      <3>1. /\ Exists(disk, options[c].stdout)
            /\ result[c] = "OK" /\ ~ErrLinked(disk, c) =>
                 Holds(disk, options[c].stdout, Input(c)) /\ Exists(disk, OutPath(c)) /\ ~IsLink(disk, OutPath(c))
        BY <1>3, <2>1 DEF DeliverOK, PulledOK
      <3> QED  BY <1>1, <1>2, <1>3, <2>1, <3>1
    <2>2. ASSUME exit'[c] = "success"
          PROVE  /\ step'[c] \in {"leaving", "exited"} /\ result'[c] # "none" /\ pc'[c] # "alive"
                 /\ step'[c] = "exited" => pc'[c] = "gone"
      BY <2>2 DEF DeliverOK, PulledOK
    <2>3. ASSUME exit'[c] = "success", Plainly(c)'
          PROVE  /\ InputThere(c)'
                 /\ \A f \in {options[c].stdout, options[c].stderr} \ {NoFile} : Exists(disk', f)
                 /\ result'[c] = "OK" =>
                      /\ options[c].stdout # NoFile => Holds(disk', options[c].stdout, Input(c)')
                      /\ options[c].stderr # NoFile => Holds(disk', options[c].stderr, Complaint)
      <3>1. /\ InputThere(c)
            /\ \A f \in {options[c].stdout, options[c].stderr} \ {NoFile} : Exists(disk, f)
            /\ result[c] = "OK" =>
                 /\ options[c].stdout # NoFile => Holds(disk, options[c].stdout, Input(c))
                 /\ options[c].stderr # NoFile => Holds(disk, options[c].stderr, Complaint)
        BY <1>2, <2>3 DEF DeliverOK, PulledOK
      <3> QED  BY <1>2, <2>3, <3>1
    <2> QED  BY <2>1, <2>2, <2>3 DEF PulledOK
  <1>7. role'[c] # "cli" => step'[c] = "options"
    BY DEF DeliverOK
  <1> QED  BY <1>4, <1>5, <1>6, <1>7 DEF DeliverOK

\* A step of another client.
LEMMA OthersDeliver ==
  ASSUME ContainerInv, CliInv, NEW c \in Clients, StaysInRoot(c),
         NEW o \in Clients \ {c}, Still(o), dir'[o] = dir[o], DeliverOK(o)
  PROVE  DeliverOK(o)'
  <1>1. ASSUME pc[o] = "alive"
        PROVE  \A p \in {Root(o), InPath(o), OutPath(o), ErrPath(o)} :
                 p \in DOMAIN disk => Untouched(disk, disk', p)
    <2>1. Holding(o) /\ Root(o) \in Path
      BY <1>1, AliveFacts DEF Holding
    <2>2. dir[o] \in Text /\ "rootfs" \in Text
      BY <2>1, NamesAreText, TextsAssumption DEF ContainerInv, Ownership
    <2>3. <<dir[o]>> \in Path /\ IsPrefix(<<dir[o]>>, Root(o))
      BY <2>2, Places DEF Root
    <2>4. \A p \in {InPath(o), OutPath(o), ErrPath(o)} : p \in Path /\ IsPrefix(Root(o), p)
      BY <2>1, StreamPaths
    <2>5. \A p \in {Root(o), InPath(o), OutPath(o), ErrPath(o)} : IsPrefix(<<dir[o]>>, p)
      BY <2>1, <2>3, <2>4, PrefixOrder
    <2> QED  BY <2>1, <2>5 DEF StaysInRoot, OfAnother
  <1>2. HostSame
    BY HostStays
  <1>3. Going(o)' => Going(o) /\ StreamsSame(o)
    BY <1>1 DEF Going, Still, StreamsSame
  <1>4. RootThere(o)'
    BY <1>1, RootStays DEF Still, Untouched
  <1>5. Sound(disk)
    BY DEF ContainerInv
  <1> QED  BY <1>2, <1>3, <1>4, <1>5, DeliverKept DEF Still

LEMMA NamesOfOthers ==
  ASSUME Control, NEW c \in Clients, StepBy(c)
  PROVE  \A o \in Clients \ {c} : dir'[o] = dir[o]
  <1>1. DOMAIN dir = Clients
    BY DEF Control
  <1>2. dir' = dir \/ \E n : dir' = [dir EXCEPT ![c] = n]
    <2>1. CASE ContainerStep(c)
      <3>1. CASE Creation(c)
        BY <3>1 DEF Creation, CreateContainer, TryName, NamingFails, ConstructLxc, Undo, RemoveDirectory,
           CreateConfiguredFiles, createVars
      <3>2. CASE FileCalls(c)
        BY <3>2 DEF FileCalls, PushFile, PushFileLink, SetAttribute, PullFile, createVars
      <3>3. CASE Drop(c) \/ ComesUp(c) \/ Freeze(c) \/ Unfreeze(c) \/ Destruction(c)
        BY <3>3 DEF Drop, ComesUp, Freeze, Unfreeze, SetLxc, Destruction, DestroyStops, DestroyRemoves,
           RemoveDirectory, createVars
      <3> QED  BY <2>1, <3>1, <3>2, <3>3 DEF ContainerStep
    <2>2. CASE Extend(c) \/ Set(c) \/ StartGroup(c)
      BY <2>2 DEF Extend, Set, Build, StartGroup, containerVars, createVars
    <2>3. CASE CliStep(c) \/ Ends(c)
      BY <2>3 DEF CliStep, ReadOptions, BuildTask, Feed, StartTask, WaitForTask, PullOutput, Exit, Ends,
         containerVars, createVars
    <2> QED  BY <2>1, <2>2, <2>3 DEF StepBy
  <1> QED  BY <1>1, <1>2

LEMMA StreamsInRoot ==
  ASSUME NEW c, Root(c) \in Path
  PROVE  /\ KeepInRoot(<<"stdin">>, Root(c)) = InPath(c)
         /\ KeepInRoot(<<"stdout">>, Root(c)) = OutPath(c)
         /\ KeepInRoot(<<"stderr">>, Root(c)) = ErrPath(c)
  <1>1. ASSUME NEW s \in {"stdin", "stdout", "stderr"}  PROVE KeepInRoot(<<s>>, Root(c)) = Root(c) \o <<s>>
    <2>1. <<s>> \in Path /\ Len(<<s>>) = 1 /\ <<s>>[1] = s
      BY <1>1, StreamNames
    <2>2. s # "." /\ s # ".."
      OBVIOUS
    <2>3. Resolved(<<s>>)
      BY <2>1, <2>2 DEF Resolved
    <2> QED  BY <2>3, ResolvedInside DEF KeepInRoot, Inside
  <1> QED  BY <1>1 DEF InPath, OutPath, ErrPath

\* The cli gives up: nothing is promised.
LEMMA LeaveDelivers ==
  ASSUME ContainerInv, CliInv, NEW c \in Clients, role[c] = "cli", role' = role, Leave(c, "failure")
  PROVE  DeliverOK(c)'
  <1>1. step'[c] = "leaving" /\ exit'[c] = "failure" /\ pc'[c] # "alive"
    BY DEF Leave, Step, Goto, CliInv, ContainerInv, Control
  <1> QED  BY <1>1 DEF DeliverOK, RootThere, FedOK, WrittenOK, PulledOK, Going

\* Its container, and what its client calls on it.
LEMMA ContainerStepDelivers ==
  ASSUME ContainerInv, CliInv, NEW c \in Clients, ContainerStep(c), HostSame, DeliverOK(c)
  PROVE  DeliverOK(c)'
  <1>1. UNCHANGED <<role, options, step, exit, result>> /\ Sound(disk)
    BY DEF ContainerStep, cliVars, ContainerInv
  <1>2. DOMAIN pc = Clients /\ DOMAIN lxc = Clients
    BY DEF ContainerInv, Control
  <1>3. CASE (role[c] = "cli" => step[c] = "creating") /\ Creation(c)
    <2>1. pc[c] # "gone"
      BY <1>3 DEF Creation, CreateContainer, TryName, NamingFails, ConstructLxc, Undo, CreateConfiguredFiles
    <2>2. ~Going(c)' /\ exit[c] # "success"
      BY <1>1, <1>3 DEF Going, DeliverOK, PulledOK
    <2>3. RootThere(c)'
      <3>1. CASE CreateConfiguredFiles(c)
        BY <3>1, ConfiguredFilesKeeps DEF RootThere
      <3>2. CASE ~CreateConfiguredFiles(c)
        <4>1. pc'[c] # "alive"
          BY <1>2, <1>3, <3>2 DEF Creation, CreateContainer, TryName, NamingFails, ConstructLxc, Undo, Goto
        <4> QED  BY <4>1 DEF RootThere
      <3> QED  BY <3>1, <3>2
    <2> QED  BY <1>1, <2>1, <2>2, <2>3, DeliverKept
  <1>4. CASE role[c] # "cli" /\ (FileCalls(c) \/ Drop(c))
    <2>1. pc[c] # "gone"
      BY <1>4 DEF FileCalls, PushFile, PushFileLink, SetAttribute, PullFile, MayCall, Drop
    <2>2. ~Going(c)' /\ RootThere(c)' /\ exit[c] # "success"
      BY <1>1, <1>4 DEF Going, DeliverOK, RootThere, PulledOK
    <2> QED  BY <1>1, <2>1, <2>2, DeliverKept
  <1>5. CASE ComesUp(c) \/ Freeze(c) \/ Unfreeze(c)
    <2>1. lxc[c] # "STOPPED" /\ UNCHANGED <<disk, pc, dir>>
      BY <1>5 DEF ComesUp, Freeze, Unfreeze, SetLxc, createVars
    <2>2. StreamsSame(c)
      BY <2>1 DEF StreamsSame, Untouched
    <2>3. Going(c)' => Going(c)
      BY <1>1, <2>1 DEF Going
    <2>4. RootThere(c)'
      BY <1>1, <2>1, RootStays
    <2> QED  BY <1>1, <2>1, <2>2, <2>3, <2>4, DeliverKept
  <1>6. CASE Destruction(c)
    <2>1. pc[c] # "gone" /\ pc'[c] # "alive"
      BY <1>2, <1>6 DEF Destruction, DestroyStops, DestroyRemoves, Goto
    <2>2. ~Going(c)' /\ RootThere(c)'
      BY <2>1 DEF Going, RootThere
    <2> QED  BY <1>1, <2>1, <2>2, DeliverKept
  <1> QED  BY <1>3, <1>4, <1>5, <1>6 DEF ContainerStep

\* A client that builds a task.
LEMMA BuilderDelivers ==
  ASSUME ContainerInv, CliInv, NEW c \in Clients, Extend(c) \/ Set(c) \/ StartGroup(c), HostSame, DeliverOK(c)
  PROVE  DeliverOK(c)'
  <1>1. role[c] = "builder" /\ UNCHANGED <<role, options, step, exit, result, pc>> /\ Sound(disk)
    BY DEF Extend, Set, MayBuild, Build, StartGroup, containerVars, cliVars, ContainerInv
  <1>2. ~Going(c)' /\ RootThere(c)'
    BY <1>1 DEF Going, DeliverOK, RootThere
  <1> QED  BY <1>1, <1>2, DeliverKept

\* Before there is anything to run, and after all is done.
LEMMA BesideDelivers ==
  ASSUME CliInv, NEW c \in Clients, ReadOptions(c) \/ BuildTask(c) \/ Exit(c), HostSame, DeliverOK(c)
  PROVE  DeliverOK(c)'
  <1>1. role[c] = "cli" /\ UNCHANGED <<role, result, pc, disk, dir>>
    BY DEF ReadOptions, BuildTask, Exit, Main, containerVars, createVars
  <1>2. RootThere(c)'
    BY <1>1, RootStays
  <1>3. CASE ReadOptions(c) \/ BuildTask(c)
    <2>1. step[c] \in {"options", "creating"} /\ step'[c] \in {"creating", "feeding", "exited"}
      BY <1>3 DEF ReadOptions, BuildTask, Main, Step, CliInv
    <2>2. result[c] = "none" /\ exit[c] # "success"
      BY <2>1 DEF DeliverOK, WrittenOK, PulledOK
    <2>3. exit'[c] # "success"
      BY <1>3, <2>2 DEF ReadOptions, BuildTask, CliInv
    <2> QED  BY <1>1, <1>2, <2>1, <2>2, <2>3 DEF DeliverOK, FedOK, WrittenOK, PulledOK, Going
  <1>4. CASE Exit(c)
    <2>1. step'[c] = "exited" /\ options' = options
      BY <1>4 DEF Exit, Step, CliInv
    <2>2. exit'[c] = "success" => exit[c] = "success" /\ pc[c] = "gone"
      BY <1>4 DEF Exit, CliInv, DeliverOK, PulledOK
    <2>3. /\ Plainly(c)' <=> Plainly(c)
          /\ InputThere(c)' <=> InputThere(c)
          /\ Input(c)' = Input(c)
      BY <1>1, <2>1 DEF Plainly, InputThere, Input
    <2>4. ~Going(c)'
      BY <2>1 DEF Going
    <2>5. PulledOK(c)'
      BY <1>1, <2>1, <2>2, <2>3, <2>4 DEF DeliverOK, PulledOK
    <2> QED  BY <1>1, <1>2, <2>1, <2>4, <2>5 DEF DeliverOK, FedOK, WrittenOK
  <1> QED  BY <1>3, <1>4

\* The input is pushed.
LEMMA FeedDelivers ==
  ASSUME ContainerInv, CliInv, NEW c \in Clients, Feed(c), HostSame, DeliverOK(c)
  PROVE  DeliverOK(c)'
  <1> DEFINE in == options[c].stdin
             remote == <<"stdin">>
             owner == "root"
             access == "0400"
             root == Root(c)
             p == InPath(c)
             r == Push(disk, in, remote, owner, access, root)
  <1>1. /\ role[c] = "cli" /\ role' = role /\ step[c] = "feeding" /\ pc[c] = "alive"
        /\ UNCHANGED <<options, result, dir>>
    BY DEF Feed, Main, createVars
  <1>2. result[c] = "none" /\ exit[c] # "success"
    BY <1>1 DEF DeliverOK, WrittenOK, PulledOK
  <1>3. CASE Leave(c, "failure")
    BY <1>1, <1>3, LeaveDelivers
  <1>4. CASE ~Leave(c, "failure")
    <2>1. step'[c] = "starting" /\ exit' = exit
      BY <1>4 DEF Feed, Step, CliInv
    <2>2. /\ in # NoFile => r.ok /\ disk' = r.disk
          /\ in = NoFile => disk' = disk
      BY <1>4 DEF Feed, Done
    <2>3. Sound(disk) /\ IsRoot(root) /\ root \in Path /\ IsDirectory(disk, root)
      BY <1>1, AliveFacts DEF DeliverOK, RootThere
    <2>4. /\ p \in Path /\ IsPrefix(root, p) /\ Front(p) = root /\ Straight(disk, root)
          /\ p # root /\ p = KeepInRoot(remote, root)
      <3>1. /\ p \in Path /\ IsPrefix(root, p) /\ Front(p) = root /\ Straight(disk, root)
            /\ p = KeepInRoot(remote, root)
        BY <2>3, StreamPaths, StreamStraight, StreamsInRoot
      <3>2. p # <<>>
        BY <2>3, <3>1, InRoot
      <3> QED  BY <3>1, <3>2, FrontDef
    <2>5. InPath(c)' = p
      BY <1>1 DEF InPath, Root
    <2>6. ASSUME in # NoFile
          PROVE  /\ Within(disk, disk', p)
                 /\ Straight(disk, in) =>
                      in \in DOMAIN disk /\ Holds(disk', p, disk[in].data) /\ ~IsLink(disk', p)
      <3>1. in \in Path
        BY <2>6, HostFiles DEF IsHostPath
      <3>2. remote \in Path /\ owner \in Text /\ access \in Text /\ r = Push(disk, in, remote, owner, access, root)
        BY StreamNames
      <3> HIDE DEF r, remote, owner, access, in, root, p
      <3>3. /\ Within(disk, r.disk, p)
            /\ r.ok /\ Straight(disk, Front(p)) /\ Straight(disk, in) =>
                 /\ in \in DOMAIN disk
                 /\ p \in DOMAIN r.disk /\ r.disk[p].kind = "file"
                 /\ r.disk[p].data = disk[in].data
        BY <2>3, <2>4, <3>1, <3>2, PushDef
      <3> QED  BY <2>2, <2>4, <2>6, <3>3 DEF Holds, IsLink
    <2>7. ASSUME Plainly(c)'
          PROVE  /\ InputThere(c)' /\ Input(c)' = Input(c)
                 /\ in # NoFile => Holds(disk', p, Input(c)) /\ ~IsLink(disk', p)
      <3>1. Plainly(c) /\ (InputThere(c) => InputThere(c)' /\ Input(c)' = Input(c))
        BY <1>1, <2>3, <2>7, DeliveredStays
      <3>2. in # NoFile => Straight(disk, in)
        BY <3>1 DEF Plainly, Direct, NoFile
      <3>3. InputThere(c)
        BY <2>6, <3>2 DEF InputThere
      <3> QED  BY <2>6, <3>1, <3>2, <3>3 DEF Input
    <2>8. FedOK(c)'
      BY <1>1, <2>5, <2>7 DEF FedOK
    <2>9. RootThere(c)'
      <3>1. root \in DOMAIN disk' /\ disk'[root].kind = "dir"
        <4>1. CASE in = NoFile
          BY <2>2, <2>3, <4>1 DEF IsDirectory, Exists
        <4>2. CASE in # NoFile
          <5>1. ~IsPrefix(p, root) /\ Clear(root)
            BY <2>3, <2>4, PrefixOrder, ClearInRoot
          <5>2. ~Below(p, root)
            BY <5>1 DEF Below, Clear
          <5> QED  BY <2>3, <2>6, <4>2, <5>2 DEF Within, IsDirectory, Exists
        <4> QED  BY <4>1, <4>2
      <3>2. Root(c)' = root
        BY <1>1 DEF Root
      <3> HIDE DEF root
      <3> QED  BY <3>1, <3>2 DEF RootThere, IsDirectory, Exists
    <2> QED  BY <1>1, <1>2, <2>1, <2>8, <2>9 DEF DeliverOK, WrittenOK, PulledOK
  <1> QED  BY <1>3, <1>4

\* The task is started, and waited for.
LEMMA RunDelivers ==
  ASSUME ContainerInv, CliInv, NEW c \in Clients, StartTask(c) \/ WaitForTask(c), DeliverOK(c)
  PROVE  DeliverOK(c)'
  <1>1. /\ role[c] = "cli" /\ role' = role /\ pc[c] = "alive" /\ step[c] \in {"starting", "waiting"}
        /\ UNCHANGED <<options, result, dir, disk>>
    BY DEF StartTask, WaitForTask, Main, createVars
  <1>2. CASE Leave(c, "failure")
    BY <1>1, <1>2, LeaveDelivers
  <1>3. CASE ~Leave(c, "failure")
    <2>1. UNCHANGED <<pc, exit>> /\ Going(c)
      BY <1>1, <1>3 DEF StartTask, WaitForTask, Going
    <2>2. /\ Input(c)' = Input(c) /\ InPath(c)' = InPath(c) /\ OutPath(c)' = OutPath(c)
          /\ ErrPath(c)' = ErrPath(c) /\ (InputThere(c)' <=> InputThere(c))
          /\ Plainly(c)' <=> Plainly(c)
          /\ Linked(disk, c)' <=> Linked(disk, c)
      BY <1>1 DEF Input, InPath, OutPath, ErrPath, Root, InputThere, Plainly, Linked
    <2>3. RootThere(c)'
      BY <1>1, <2>1, RootStays
    <2>4. exit'[c] # "success"
      BY <1>1, <2>1 DEF DeliverOK, PulledOK
    <2>5. CASE StartTask(c)
      <3>1. step[c] = "starting" /\ step'[c] = "waiting" /\ result[c] = "none"
        BY <1>3, <2>5 DEF StartTask, Main, Step, CliInv, DeliverOK, WrittenOK
      <3>2. FedOK(c)'
        BY <1>1, <2>1, <2>2, <3>1 DEF DeliverOK, FedOK
      <3> QED  BY <1>1, <2>3, <2>4, <3>1, <3>2 DEF DeliverOK, WrittenOK, PulledOK
    <2>6. CASE WaitForTask(c)
      <3>1. step'[c] = "stdout" /\ result[c] # "none" /\ lxc' = lxc
        BY <1>3, <2>6 DEF WaitForTask, Step, CliInv
      <3>2. FedOK(c)'
        BY <1>1, <2>1, <2>2, <3>1 DEF DeliverOK, FedOK
      <3>3. WrittenOK(c)'
        BY <1>1, <2>1, <2>2, <3>1 DEF DeliverOK, WrittenOK
      <3> QED  BY <1>1, <2>3, <2>4, <3>1, <3>2, <3>3 DEF DeliverOK, PulledOK
    <2> QED  BY <2>5, <2>6
  <1> QED  BY <1>2, <1>3

\* The outputs are pulled: what is delivered is what the program wrote, and it was
\* not a link.
LEMMA PullDelivers ==
  ASSUME ContainerInv, CliInv, NEW c \in Clients, PullOutput(c), HostSame, DeliverOK(c)
  PROVE  DeliverOK(c)'
  <1>1. PICK stream \in {"stdout", "stderr"} :
          LET local == options[c][stream]
              r == IF local = NoFile THEN Done(disk) ELSE Pull(disk, <<stream>>, local, Root(c))
          IN  /\ Main(c, stream)
              /\ disk' = r.disk
              /\ CASE ~r.ok -> Leave(c, "failure")
                   [] r.ok /\ stream = "stdout" -> Step(c, "stderr") /\ UNCHANGED <<pc, lxc, exit>>
                   [] r.ok /\ stream = "stderr" -> Leave(c, "success")
              /\ UNCHANGED <<createVars, useVars, abandoned, role, groupVars, options, result>>
    BY DEF PullOutput
  <1> DEFINE local == options[c][stream]
             remote == <<stream>>
             root == Root(c)
             r == Pull(disk, remote, local, root)
             there == IF stream = "stdout" THEN OutPath(c) ELSE ErrPath(c)
             pulled == IF local = NoFile THEN Done(disk) ELSE r
  <1>2. /\ role[c] = "cli" /\ role' = role /\ pc[c] = "alive" /\ step[c] = stream /\ disk' = pulled.disk
        /\ UNCHANGED <<options, result, dir>>
    BY <1>1 DEF Main, createVars
  <1>3. Sound(disk) /\ root \in Path
    BY <1>2, AliveFacts
  <1>4. Going(c) /\ result[c] # "none" /\ lxc[c] = "STOPPED"
    BY <1>2 DEF Going, DeliverOK, WrittenOK
  <1>5. /\ Kept(disk, disk')
        /\ pulled.ok /\ local # NoFile /\ Straight(disk, Front(local)) =>
             /\ local \in DOMAIN disk'
             /\ there \in DOMAIN disk => /\ disk'[local].kind = disk[there].kind
                                         /\ disk'[local].data = disk[there].data
    <2>1. CASE local = NoFile
      <3>1. disk' = disk
        BY <1>2, <2>1 DEF Done
      <3> QED  BY <2>1, <3>1 DEF Kept
    <2>2. CASE local # NoFile
      <3>1. local \in Path
        BY <2>2, HostFiles DEF IsHostPath
      <3>2. /\ remote \in Path /\ r = Pull(disk, remote, local, root)
            /\ there = KeepInRoot(remote, root) /\ root \in Path
        BY <1>3, StreamNames, StreamsInRoot
      <3>3. pulled = r
        BY <2>2
      <3> HIDE DEF r, remote, local, root, there, pulled
      <3>4. /\ Kept(disk, r.disk)
            /\ r.ok /\ Straight(disk, Front(local)) =>
                 /\ local \in DOMAIN r.disk
                 /\ there \in DOMAIN disk => /\ r.disk[local].kind = disk[there].kind
                                             /\ r.disk[local].data = disk[there].data
        BY <1>3, <3>1, <3>2, PullDef
      <3> QED  BY <1>2, <3>3, <3>4
    <2> QED  BY <2>1, <2>2
  <1>6. /\ InPath(c)' = InPath(c) /\ OutPath(c)' = OutPath(c) /\ ErrPath(c)' = ErrPath(c)
        /\ \A p : Exists(disk, p) => Exists(disk', p) /\ (IsLink(disk', p) <=> IsLink(disk, p))
        /\ \A p, x : Holds(disk, p, x) => Holds(disk', p, x)
    BY <1>2, <1>5 DEF Kept, InPath, OutPath, ErrPath, Root, Holds, Exists, IsLink
  <1>7. /\ Linked(disk, c) => Linked(disk, c)'
        /\ ErrLinked(disk, c) => ErrLinked(disk, c)'
    BY <1>2, <1>6 DEF Linked, ErrLinked, IsLink
  <1>8. ASSUME Plainly(c)'
        PROVE  /\ Plainly(c) /\ InputThere(c)' /\ Input(c)' = Input(c)
               /\ pulled.ok /\ local # NoFile =>
                    /\ Exists(disk', local) /\ ~IsLink(disk, there)
                    /\ \A x : Holds(disk, there, x) => Holds(disk', local, x)
    <2>1. Plainly(c) /\ InputThere(c)' /\ Input(c)' = Input(c)
      <3>1. Plainly(c) /\ (InputThere(c) => InputThere(c)' /\ Input(c)' = Input(c))
        BY <1>2, <1>3, <1>8, DeliveredStays
      <3>2. InputThere(c)
        BY <1>4, <3>1 DEF DeliverOK, FedOK
      <3> QED  BY <3>1, <3>2
    <2>2. ASSUME pulled.ok, local # NoFile
          PROVE  /\ Exists(disk', local) /\ ~IsLink(disk, there)
                 /\ \A x : Holds(disk, there, x) => Holds(disk', local, x)
      <3>1. /\ local \in Path /\ Straight(disk, local) /\ Straight(disk', local)
        BY <1>2, <1>8, <2>1, <2>2, HostFiles DEF Plainly, Direct, NoFile, IsHostPath
      <3>2. Straight(disk, Front(local))
        BY <1>3, <3>1, StraightFront
      <3>3. /\ local \in DOMAIN disk'
            /\ there \in DOMAIN disk => /\ disk'[local].kind = disk[there].kind
                                        /\ disk'[local].data = disk[there].data
        BY <1>5, <2>2, <3>2
      <3> HIDE DEF local, there
      <3>4. ~IsLink(disk', local)
        BY <3>1, PrefixesDef, PrefixOrder DEF Straight
      <3> QED  BY <3>3, <3>4 DEF Exists, IsLink, Holds
    <2> QED  BY <2>1, <2>2
  <1>9. RootThere(c)'
    BY <1>2, <1>5, RootStays DEF Kept
  <1>10. CASE ~pulled.ok
    <2>1. Leave(c, "failure")
      BY <1>1, <1>10
    <2> QED  BY <1>2, <2>1, LeaveDelivers
  <1>11. CASE pulled.ok /\ stream = "stdout"
    <2>1. Step(c, "stderr") /\ UNCHANGED <<pc, lxc, exit>>
      BY <1>1, <1>11
    <2>2. step'[c] = "stderr" /\ exit'[c] # "success"
      BY <1>2, <1>11, <2>1 DEF Step, CliInv, DeliverOK, PulledOK
    <2>3. FedOK(c)'
      BY <1>4, <1>8, <2>1, <2>2 DEF FedOK
    <2>4. WrittenOK(c)'
      BY <1>2, <1>4, <1>6, <1>7, <1>8, <2>1, <2>2 DEF DeliverOK, WrittenOK
    <2>5. ASSUME options[c].stdout # NoFile, Plainly(c)'
          PROVE  /\ Exists(disk', options[c].stdout)
                 /\ result[c] = "OK" /\ ~ErrLinked(disk, c)' =>
                      /\ Holds(disk', options[c].stdout, Input(c)')
                      /\ Exists(disk', OutPath(c)') /\ ~IsLink(disk', OutPath(c)')
      <3>1. /\ Exists(disk', options[c].stdout) /\ ~IsLink(disk, OutPath(c))
            /\ \A x : Holds(disk, OutPath(c), x) => Holds(disk', options[c].stdout, x)
        BY <1>8, <1>11, <2>5
      <3>2. ASSUME result[c] = "OK", ~ErrLinked(disk, c)'  PROVE Holds(disk, OutPath(c), Input(c))
        <4>1. ~Linked(disk, c)
          BY <1>7, <3>1, <3>2 DEF Linked, ErrLinked
        <4> QED  BY <1>4, <1>8, <2>5, <3>2, <4>1 DEF DeliverOK, WrittenOK
      <3> QED  BY <1>6, <1>8, <2>5, <3>1, <3>2 DEF Holds, Exists
    <2>6. PulledOK(c)'
      BY <1>2, <2>2, <2>5 DEF PulledOK
    <2> QED  BY <1>2, <1>9, <2>3, <2>4, <2>6 DEF DeliverOK
  <1>12. CASE pulled.ok /\ stream = "stderr"
    <2>1. Leave(c, "success")
      BY <1>1, <1>12
    <2>2. step'[c] = "leaving" /\ pc'[c] # "alive"
      BY <2>1 DEF Leave, Step, Goto, CliInv, ContainerInv, Control
    <2>3. ASSUME Plainly(c)'
          PROVE  /\ InputThere(c)'
                 /\ \A f \in {options[c].stdout, options[c].stderr} \ {NoFile} : Exists(disk', f)
                 /\ result[c] = "OK" =>
                      /\ options[c].stdout # NoFile => Holds(disk', options[c].stdout, Input(c)')
                      /\ options[c].stderr # NoFile => Holds(disk', options[c].stderr, Complaint)
      <3>1. options[c].stderr # NoFile =>
              /\ Exists(disk', options[c].stderr) /\ ~IsLink(disk, ErrPath(c))
              /\ \A x : Holds(disk, ErrPath(c), x) => Holds(disk', options[c].stderr, x)
        BY <1>8, <1>12, <2>3
      <3>2. ~ErrLinked(disk, c)
        BY <3>1 DEF ErrLinked
      <3>3. options[c].stdout # NoFile =>
              /\ Exists(disk, options[c].stdout)
              /\ result[c] = "OK" => Holds(disk, options[c].stdout, Input(c)) /\ ~IsLink(disk, OutPath(c))
        BY <1>2, <1>4, <1>8, <1>12, <2>3, <3>2 DEF DeliverOK, PulledOK
      <3>4. ASSUME result[c] = "OK", options[c].stderr # NoFile  PROVE Holds(disk, ErrPath(c), Complaint)
        <4>1. ~Linked(disk, c)
          BY <3>2, <3>3, <3>4 DEF Linked, ErrLinked
        <4> QED  BY <1>4, <1>8, <2>3, <3>4, <4>1 DEF DeliverOK, WrittenOK
      <3> QED  BY <1>6, <1>8, <2>3, <3>1, <3>3, <3>4
    <2>4. PulledOK(c)'
      BY <1>2, <1>4, <2>2, <2>3 DEF PulledOK, Going
    <2>5. FedOK(c)' /\ WrittenOK(c)'
      BY <2>2 DEF FedOK, WrittenOK, Going
    <2> QED  BY <1>2, <1>9, <2>4, <2>5 DEF DeliverOK
  <1> QED  BY <1>10, <1>11, <1>12

\* The program reads what was pushed.
LEMMA ReadsInput ==
  ASSUME ContainerInv, CliInv, NEW c \in Clients, DeliverOK(c), role[c] = "cli", Going(c), Plainly(c),
         lxc[c] = "RUNNING", Opens(c)
  PROVE  Read(c) = Input(c)
  <1>1. Sound(disk) /\ Root(c) \in Path /\ CliOK(c) /\ IsDirectory(disk, Root(c))
    BY AliveFacts DEF Going, CliInv, DeliverOK, RootThere
  <1>2. CASE options[c].stdin = NoFile
    BY <1>1, <1>2, StreamsHere DEF Read, Input
  <1>3. CASE options[c].stdin # NoFile
    <2>1. Holds(disk, InPath(c), Input(c)) /\ ~IsLink(disk, InPath(c))
      BY <1>3 DEF DeliverOK, FedOK
    <2>2. InPath(c) \in Path /\ Straight(disk, InPath(c))
      BY <1>1, <2>1, StreamPaths, StreamStraight
    <2>3. Inner(disk, c, "/stdin") = InPath(c)
      BY <1>1, <2>2, StreamsHere, RealDef
    <2>4. Stream(c, 0) # DevNull
      BY <1>1, <1>3, StreamsHere
    <2> QED  BY <2>1, <2>3, <2>4 DEF Read, Holds
  <1> QED  BY <1>2, <1>3

\* The program ends.
LEMMA EndsDelivers ==
  ASSUME ContainerInv, CliInv, NEW c \in Clients, Ends(c), HostSame, DeliverOK(c)
  PROVE  DeliverOK(c)'
  <1>1. /\ UNCHANGED <<role, options, step, exit, pc, dir>> /\ pc[c] = "alive"
        /\ lxc[c] # "STOPPED" /\ lxc'[c] = "STOPPED" /\ CliOK(c) /\ Sound(disk)
    BY DEF Ends, createVars, ContainerInv, Control, CliInv
  <1>2. CASE ~(role[c] = "cli" /\ lxc[c] = "RUNNING")
    <2>1. disk' = disk /\ result' = result
      BY <1>2 DEF Ends
    <2>2. StreamsSame(c) /\ (Going(c)' => Going(c))
      BY <1>1, <2>1 DEF StreamsSame, Untouched, Going
    <2>3. RootThere(c)'
      BY <1>1, <2>1, RootStays
    <2> QED  BY <1>1, <2>1, <2>2, <2>3, DeliverKept
  <1>3. CASE role[c] = "cli" /\ lxc[c] = "RUNNING"
    <2>1. (Succeeds(c) \/ Fails(c)) /\ DOMAIN result = Clients
      BY <1>3 DEF Ends, CliInv
    <2>2. step[c] \notin {"options", "creating", "feeding", "starting"}
      BY <1>1, <1>3, StreamsHere
    <2>3. Output(disk, disk', c)
      BY <1>1, <1>3, <2>1, SucceedsWrites, FailsWrites
    <2>4. /\ InPath(c)' = InPath(c) /\ OutPath(c)' = OutPath(c) /\ ErrPath(c)' = ErrPath(c)
      BY <1>1 DEF InPath, OutPath, ErrPath, Root
    <2>5. RootThere(c)'
      BY <1>1, <2>3, RootStays DEF Output
    <2>6. Going(c)' <=> Going(c)
      BY <1>1 DEF Going
    <2>7. Going(c) => step[c] = "waiting" /\ result[c] = "none"
      BY <1>1, <2>2 DEF Going, DeliverOK, WrittenOK
    <2>8. exit[c] # "success"
      BY <1>1 DEF DeliverOK, PulledOK
    <2>9. ASSUME Going(c), Plainly(c)'
          PROVE  Plainly(c) /\ InputThere(c)' /\ Input(c)' = Input(c)
      <3>1. Plainly(c) /\ (InputThere(c) => InputThere(c)' /\ Input(c)' = Input(c))
        BY <1>1, <2>9, DeliveredStays
      <3>2. InputThere(c)
        BY <2>9, <3>1 DEF DeliverOK, FedOK
      <3> QED  BY <3>1, <3>2
    <2>10. FedOK(c)'
      BY <1>1, <2>2, <2>6, <2>9 DEF FedOK
    <2>11. WrittenOK(c)'
      <3>1. ASSUME Going(c), result'[c] = "OK", Plainly(c)', ~Linked(disk, c)'
            PROVE  /\ options[c].stdout # NoFile => Holds(disk', OutPath(c), Input(c))
                   /\ options[c].stderr # NoFile => Holds(disk', ErrPath(c), Complaint)
        <4>1. Succeeds(c)
          <5>1. CASE Fails(c)
            BY <2>1, <3>1, <5>1 DEF Fails, Says
          <5> QED  BY <2>1, <5>1
        <4>2. Opens(c) /\ IsDirectory(disk, Root(c))
          BY <1>1, <1>3, <4>1 DEF Succeeds, DeliverOK, RootThere
        <4>3. Read(c) = Input(c)
          BY <1>3, <2>9, <3>1, <4>2, ReadsInput
        <4>4. ~Linked(disk', c)
          BY <1>1, <2>4, <3>1 DEF Linked
        <4> QED  BY <1>1, <1>3, <4>1, <4>2, <4>3, <4>4, SucceedsWrites
      <3> QED  BY <1>1, <2>2, <2>4, <2>6, <2>7, <2>9, <3>1 DEF WrittenOK
    <2>12. PulledOK(c)'
      BY <1>1, <2>6, <2>7, <2>8 DEF PulledOK
    <2> QED  BY <1>1, <1>3, <2>5, <2>10, <2>11, <2>12 DEF DeliverOK
  <1> QED  BY <1>2, <1>3

LEMMA StepDelivers ==
  ASSUME IInv, DeliverInv, NEW c \in Clients, StepBy(c)
  PROVE  DeliverInv'
  <1>1. ContainerInv /\ CliInv /\ StaysInRoot(c) /\ Others(c) /\ HostSame
    BY StepKeeps, HostStays DEF IInv
  <1>2. DeliverOK(c)'
    <2>1. DeliverOK(c)
      BY DEF DeliverInv
    <2> QED  BY <1>1, <2>1, ContainerStepDelivers, BuilderDelivers, BesideDelivers, FeedDelivers, RunDelivers,
                PullDelivers, EndsDelivers DEF StepBy, CliStep
  <1>3. ASSUME NEW o \in Clients \ {c}  PROVE DeliverOK(o)'
    <2>1. Still(o) /\ DeliverOK(o) /\ dir'[o] = dir[o]
      BY <1>1, NamesOfOthers DEF Others, DeliverInv, ContainerInv
    <2> QED  BY <1>1, <2>1, OthersDeliver
  <1> QED  BY <1>2, <1>3 DEF DeliverInv

LEMMA StutterDelivers ==
  ASSUME IInv, DeliverInv, UNCHANGED vars
  PROVE  DeliverInv'
  <1>1. UNCHANGED <<disk, pc, dir, lxc, role, step, options, exit, result>>
    BY DEF vars, containerVars, createVars, cliVars
  <1>2. HostSame /\ Sound(disk)
    BY <1>1 DEF HostSame, Untouched, IInv, ContainerInv
  <1>3. ASSUME NEW c \in Clients  PROVE DeliverOK(c)'
    <2>1. DeliverOK(c) /\ StreamsSame(c) /\ (Going(c)' => Going(c))
      BY <1>1 DEF DeliverInv, StreamsSame, Untouched, Going
    <2>2. RootThere(c)'
      BY <1>1, <2>1, RootStays
    <2> QED  BY <1>1, <1>2, <2>1, <2>2, DeliverKept DEF IInv
  <1> QED  BY <1>3 DEF DeliverInv

\* cli.cpp: main() returns success only when the container is gone and the control
\* process has left a result, whatever the program did; and then, if no link leads to
\* the files asked for or is one of them, those for its output are there, and after
\* a success of the program they hold all of it.
THEOREM DeliversHold == Spec => []CliDelivers
  <1>1. Init => DeliverInv
    <2> SUFFICES ASSUME Init, NEW c \in Clients  PROVE DeliverOK(c)
      BY DEF DeliverInv
    <2>1. step[c] = "options" /\ result[c] = "none" /\ exit[c] = "none" /\ pc[c] = "idle"
      BY DEF Init, ContainerInit
    <2> QED  BY <2>1 DEF DeliverOK, RootThere, FedOK, WrittenOK, PulledOK, Going
  <1>2. IInv /\ DeliverInv /\ [Next]_vars => DeliverInv'
    BY StepDelivers, StutterDelivers DEF Next, StepBy
  <1>3. DeliverInv => CliDelivers
    <2> SUFFICES ASSUME DeliverInv, NEW c \in Clients, step[c] = "exited", exit[c] = "success"
                 PROVE  /\ pc[c] = "gone" /\ result[c] # "none"
                        /\ Plainly(c) =>
                             /\ \A f \in {options[c].stdout, options[c].stderr} \ {NoFile} : Exists(disk, f)
                             /\ result[c] = "OK" =>
                                  /\ options[c].stdout # NoFile => disk[options[c].stdout].data = Input(c)
                                  /\ options[c].stderr # NoFile =>
                                       disk[options[c].stderr].data = <<"complaint">>
      BY DEF CliDelivers, Input, Plainly
    <2> QED  BY DEF DeliverInv, DeliverOK, PulledOK, Holds, Complaint
  <1> QED  BY <1>1, <1>2, <1>3, Invariant, PTL DEF Spec
=============================================================================
