------------------------- MODULE PropertySyncProofs -------------------------
EXTENDS PropertySync, SequenceFacts
(***************************************************************************)
(* What the property synchronizer promises, for any number of maps,        *)
(* layouts and commands on their way.  The invariant has seven parts:      *)
(*                                                                         *)
(*   Types      the tables of both sides, and whose descriptors live;      *)
(*   ListShape  the update list, which has two maps at most, and where     *)
(*              Write is in it;                                            *)
(*   Removals   what the reader is to be told to forget is forgotten;      *)
(*   Current    a map not to be sent has been sent as it is;               *)
(*   Caring     the reader will be told of the end of what it has;         *)
(*   Copies     the last command about a map, or its copy when there is    *)
(*              none, is what the writer remembers of it;                  *)
(*   Promises   as long as no layout was taken for another, each command   *)
(*              finds at the reader the layout it was written for.         *)
(*                                                                         *)
(* The first six are kept whatever the writer mistakes; the last says what *)
(* a command will find behind the commands before it, which is what makes  *)
(* it inductive: reading one takes one off that count.  The theorems, and  *)
(* the refinement of PropertyReplica, are at the end.                      *)
(***************************************************************************)

(* Sequences of commands and removals. *)

\* SetToSeq lists every element of a set once.
LEMMA SetToSeqIs ==
  ASSUME NEW S, IsFiniteSet(S)
  PROVE  /\ SetToSeq(S) \in Seq(S) /\ Range(SetToSeq(S)) = S
         /\ \A i, j \in 1..Len(SetToSeq(S)) : SetToSeq(S)[i] = SetToSeq(S)[j] => i = j
<1> DEFINE n == Cardinality(S)  q == SetToSeq(S)
<1>1. n \in Nat /\ ExistsBijection(1..n, S)
  BY FS_CardinalityType
<1>2. PICK f \in [1..n -> S] : IsInjective(f)
  BY <1>1 DEF ExistsBijection, Bijection, Injection
<1>3. q \in [1..n -> S] /\ IsInjective(q)
  BY <1>2 DEF SetToSeq
<1> HIDE DEF q
<1>4. q \in Injection(1..n, S)
  BY <1>3 DEF Injection
<1>5. Cardinality(1..n) = n
  BY <1>1, FS_Interval
<1>6. q \in Surjection(1..n, S)
  BY <1>4, <1>5, FS_Injection
<1> HIDE DEF n
<1>7. q \in Seq(S) /\ Len(q) = n
  BY <1>1, <1>3
<1>8. Range(q) = S
  BY <1>3, <1>6 DEF Range, Surjection
<1> QED BY <1>3, <1>7, <1>8 DEF q, IsInjective

\* What a sequence is after it got longer, or lost its head.
LEMMA AppendIs ==
  ASSUME NEW S, NEW s \in Seq(S), NEW e \in S
  PROVE  /\ Append(s, e) \in Seq(S) /\ Len(s) \in Nat
         /\ Len(Append(s, e)) = Len(s) + 1 /\ Append(s, e)[Len(s) + 1] = e
         /\ \A i \in 1..Len(s) : Append(s, e)[i] = s[i]
OBVIOUS

\* What is left of a sequence when its head was taken.
LEMMA TailIs ==
  ASSUME NEW S, NEW s \in Seq(S), s # <<>>
  PROVE  /\ Tail(s) \in Seq(S) /\ Len(s) \in Nat \ {0} /\ Len(Tail(s)) = Len(s) - 1
         /\ Head(s) = s[1] /\ s[1] \in S
         /\ \A i \in 1..Len(s) - 1 : Tail(s)[i] = s[i + 1]
OBVIOUS

\* What is in a list before and after its head was taken.
LEMMA TailRange ==
  ASSUME NEW S, NEW s \in Seq(S), s # <<>>
  PROVE  /\ Range(s) = Range(Tail(s)) \cup {Head(s)}
         /\ (\A i, j \in 1..Len(s) : s[i] = s[j] => i = j) =>
              /\ \A i, j \in 1..Len(Tail(s)) : Tail(s)[i] = Tail(s)[j] => i = j
              /\ Head(s) \notin Range(Tail(s))
<1> DEFINE t == Tail(s)
<1>1. /\ t \in Seq(S) /\ Len(s) \in Nat \ {0} /\ Len(t) = Len(s) - 1
      /\ Head(s) = s[1] /\ \A i \in 1..Len(s) - 1 : t[i] = s[i + 1]
  BY TailIs
<1> HIDE DEF t
<1>2. Range(s) = {s[i] : i \in 1..Len(s)} /\ Range(t) = {t[i] : i \in 1..Len(t)}
  BY <1>1 DEF Range
<1>3. ASSUME NEW i \in 1..Len(s), i # 1 PROVE s[i] \in Range(t)
  <2>1. i - 1 \in 1..Len(t) /\ t[i - 1] = s[i]
    BY <1>1, <1>3
  <2> QED BY <1>2, <2>1
<1>4. \A i \in 1..Len(t) : i + 1 \in 1..Len(s) /\ t[i] = s[i + 1]
  BY <1>1
<1>5. Range(s) = Range(t) \cup {Head(s)}
  <2>1. s[1] \in Range(s) /\ Head(s) = s[1]
    BY <1>1, <1>2
  <2>2. \A i \in 1..Len(t) : t[i] \in Range(s)
    BY <1>2, <1>4
  <2>3. \A i \in 1..Len(s) : s[i] = Head(s) \/ s[i] \in Range(t)
    BY <1>3, <2>1
  <2> HIDE <1>1
  <2> QED BY <1>2, <2>1, <2>2, <2>3
<1>6. ASSUME \A i, j \in 1..Len(s) : s[i] = s[j] => i = j
      PROVE  /\ \A i, j \in 1..Len(t) : t[i] = t[j] => i = j
             /\ Head(s) \notin Range(t)
  <2>1. ASSUME NEW i \in 1..Len(t), NEW j \in 1..Len(t), t[i] = t[j] PROVE i = j
    <3>1. i + 1 = j + 1
      BY <1>4, <1>6, <2>1
    <3> QED BY <1>1, <3>1
  <2>2. \A i \in 1..Len(t) : t[i] # Head(s)
    BY <1>1, <1>4, <1>6
  <2> QED BY <1>2, <2>1, <2>2
<1> QED BY <1>5, <1>6 DEF t

\* What is in a list behind which others were put.
LEMMA JoinRange ==
  ASSUME NEW S, NEW s \in Seq(S), NEW t \in Seq(S)
  PROVE  /\ s \o t \in Seq(S) /\ Range(s \o t) = Range(s) \cup Range(t)
         /\ /\ \A i, j \in 1..Len(s) : s[i] = s[j] => i = j
            /\ \A i, j \in 1..Len(t) : t[i] = t[j] => i = j
            /\ Range(s) \cap Range(t) = {}
            => \A i, j \in 1..Len(s \o t) : (s \o t)[i] = (s \o t)[j] => i = j
<1> DEFINE q == s \o t
<1>1. /\ q \in Seq(S) /\ Len(q) = Len(s) + Len(t) /\ Len(s) \in Nat /\ Len(t) \in Nat
      /\ \A i \in 1..Len(q) : q[i] = IF i <= Len(s) THEN s[i] ELSE t[i - Len(s)]
  BY ConcatProperties
<1> HIDE DEF q
<1>2. /\ Range(s) = {s[i] : i \in 1..Len(s)} /\ Range(t) = {t[i] : i \in 1..Len(t)}
      /\ Range(q) = {q[i] : i \in 1..Len(q)}
  <2>1. DOMAIN s = 1..Len(s) /\ DOMAIN t = 1..Len(t) /\ DOMAIN q = 1..Len(q)
    BY <1>1
  <2> QED BY <2>1 DEF Range
<1>3. ASSUME NEW i \in 1..Len(q)
      PROVE  \/ i \in 1..Len(s) /\ q[i] = s[i] /\ q[i] \in Range(s)
             \/ i - Len(s) \in 1..Len(t) /\ q[i] = t[i - Len(s)] /\ q[i] \in Range(t)
  <2>1. CASE i <= Len(s)
    <3>1. i \in 1..Len(s) /\ q[i] = s[i]
      BY <1>1, <2>1
    <3> QED BY <1>2, <3>1
  <2>2. CASE ~(i <= Len(s))
    <3>1. i - Len(s) \in 1..Len(t) /\ q[i] = t[i - Len(s)]
      BY <1>1, <2>2
    <3> QED BY <1>2, <3>1
  <2> QED BY <2>1, <2>2
<1>4. ASSUME NEW i \in 1..Len(s) PROVE s[i] \in Range(q)
  <2>1. i \in 1..Len(q) /\ q[i] = s[i]
    BY <1>1
  <2> QED BY <1>2, <2>1
<1>5. ASSUME NEW i \in 1..Len(t) PROVE t[i] \in Range(q)
  <2>1. i + Len(s) \in 1..Len(q) /\ q[i + Len(s)] = t[i]
    BY <1>1
  <2> QED BY <1>2, <2>1
<1>6. Range(q) = Range(s) \cup Range(t)
  BY <1>2, <1>3, <1>4, <1>5
<1>7. ASSUME \A i, j \in 1..Len(s) : s[i] = s[j] => i = j,
             \A i, j \in 1..Len(t) : t[i] = t[j] => i = j,
             Range(s) \cap Range(t) = {},
             NEW i \in 1..Len(q), NEW j \in 1..Len(q), q[i] = q[j]
      PROVE  i = j
  <2>1. ~(q[i] \in Range(s) /\ q[i] \in Range(t))
    BY <1>7
  <2>2. CASE q[i] \in Range(s)
    <3>1. i \in 1..Len(s) /\ j \in 1..Len(s) /\ s[i] = s[j]
      BY <1>3, <1>7, <2>1, <2>2
    <3> QED BY <1>7, <3>1
  <2>3. CASE q[i] \in Range(t)
    <3>1. /\ i - Len(s) \in 1..Len(t) /\ j - Len(s) \in 1..Len(t)
          /\ t[i - Len(s)] = t[j - Len(s)]
      BY <1>3, <1>7, <2>1, <2>3
    <3>2. i - Len(s) = j - Len(s)
      BY <1>7, <3>1
    <3> QED BY <1>1, <3>2
  <2> QED BY <1>3, <2>2, <2>3
<1> QED BY <1>1, <1>6, <1>7 DEF q

-----------------------------------------------------------------------------
(* Tables of descriptors. *)

\* What something refers to.
LEMMA ReferredIs ==
  ASSUME NEW layouts, NEW maps, NEW d
  PROVE  d \in Referred(layouts, maps) <=>
           \/ \E l \in Layouts : d = layouts[l]
           \/ \E m \in Maps : maps[m] # None /\ d = maps[m].desc
BY DEF Referred

\* There are descriptors enough for a layout that has none.
LEMMA EnoughDescs ==
  ASSUME NEW layouts \in [Layouts -> Descs \cup {None}], NEW maps,
         \A m \in Maps : maps[m] # None => maps[m].desc \in Descs,
         NEW l \in Layouts, layouts[l] = None
  PROVE  Descs \ DescsOf(layouts, maps) # {}
<1> DEFINE L == Layouts \ {l}
           M == {m \in Maps : maps[m] # None}
           A == {layouts[k] : k \in L}
           B == {maps[m].desc : m \in M}
<1>0. IsFiniteSet(L) /\ IsFiniteSet(M)
  BY SyncAssumption, FS_Subset
<1>1. IsFiniteSet(A) /\ Cardinality(A) <= Cardinality(L)
  <2> DEFINE f == [k \in L |-> layouts[k]]
  <2> HIDE DEF L
  <2>1. f \in [L -> A] /\ \A a \in A : \E k \in L : f[k] = a
    OBVIOUS
  <2> HIDE DEF f, A
  <2>2. f \in Surjection(L, A)
    BY <2>1 DEF Surjection
  <2> QED BY <1>0, <2>2, FS_Surjection
<1>2. IsFiniteSet(B) /\ Cardinality(B) <= Cardinality(M)
  <2> DEFINE f == [m \in M |-> maps[m].desc]
  <2> HIDE DEF M
  <2>1. f \in [M -> B] /\ \A b \in B : \E m \in M : f[m] = b
    OBVIOUS
  <2> HIDE DEF f, B
  <2>2. f \in Surjection(M, B)
    BY <2>1 DEF Surjection
  <2> QED BY <1>0, <2>2, FS_Surjection
<1>3. Cardinality(L) = Cardinality(Layouts) - 1
  BY SyncAssumption, FS_RemoveElement
<1>4. Cardinality(M) <= Cardinality(Maps)
  BY SyncAssumption, FS_Subset
<1>5. DescsOf(layouts, maps) \subseteq A \cup B
  BY DEF DescsOf, Referred
<1> HIDE DEF L, M, A, B
<1>6. IsFiniteSet(A \cup B) /\ Cardinality(A \cup B) <= Cardinality(A) + Cardinality(B)
  <2>1. /\ IsFiniteSet(A \cup B) /\ IsFiniteSet(A \cap B)
        /\ Cardinality(A \cup B) = Cardinality(A) + Cardinality(B) - Cardinality(A \cap B)
    BY <1>1, <1>2, FS_Union, FS_Subset
  <2>2. Cardinality(A \cap B) \in Nat /\ Cardinality(A) \in Nat /\ Cardinality(B) \in Nat
    BY <1>1, <1>2, <2>1, FS_CardinalityType
  <2> QED BY <2>1, <2>2
<1>7. /\ Cardinality(A) \in Nat /\ Cardinality(B) \in Nat /\ Cardinality(A \cup B) \in Nat
      /\ Cardinality(L) \in Nat /\ Cardinality(M) \in Nat
      /\ Cardinality(Layouts) \in Nat /\ Cardinality(Maps) \in Nat
      /\ Cardinality(Descs) \in Nat
  BY <1>0, <1>1, <1>2, <1>6, SyncAssumption, FS_CardinalityType
<1>8. Cardinality(A \cup B) < Cardinality(Descs)
  BY <1>1, <1>2, <1>3, <1>4, <1>6, <1>7, SyncAssumption
<1>9. SUFFICES ASSUME Descs \subseteq A \cup B PROVE FALSE
  BY <1>5
<1>10. Cardinality(Descs) <= Cardinality(A \cup B)
  BY <1>6, <1>9, FS_Subset
<1> QED BY <1>7, <1>8, <1>10

-----------------------------------------------------------------------------
(* The invariant, part by part. *)

LayoutDescs == [id : Layouts, hash : Shapes]
LayoutCopies == [id : Layouts, shape : Shapes]
WDescs == DescsOf(wlayouts, wmaps)
RDescs == DescsOf(rlayouts, rmaps)
Commands == [kind : {"update"}, id : Maps, layout : Layouts, has_layout : BOOLEAN,
             state : States]
            \cup [kind : {"layout"}, id : Layouts] \cup [kind : {"map"}, id : Maps]

\* The maps that live have a layout in use and contents; a layout has a shape.
SourceTypes ==
  /\ lay \in [Maps -> Layouts \cup {None}] /\ data \in [Maps -> Values \cup {None}]
  /\ shape \in [Layouts -> Shapes \cup {None}]
  /\ \A m \in Maps : lay[m] = None <=> data[m] = None
  /\ \A l \in Layouts : shape[l] # None <=> l \in InUse

\* What the writer remembers; a descriptor lives while something refers to it, and
\* the table of layouts has those of the layouts asked for.
WriterTypes ==
  /\ wlayouts \in [Layouts -> Descs \cup {None}]
  /\ wmaps \in [Maps -> WriterMaps \cup {None}]
  /\ wdesc \in [WDescs -> LayoutDescs]
  /\ \A l \in Layouts : wlayouts[l] # None => wdesc[wlayouts[l]].id = l /\ l \in tracked
  /\ \A m \in Maps : wmaps[m] # None => m \in Live
  /\ tracked \subseteq InUse

\* What the reader remembers: a copy refers to a descriptor, with the id of its layout.
ReaderTypes ==
  /\ rlayouts \in [Layouts -> Descs \cup {None}]
  /\ rmaps \in [Maps -> ReaderMaps \cup {None}]
  /\ rdesc \in [RDescs -> LayoutCopies]
  /\ \A l \in Layouts : rlayouts[l] # None => rdesc[rlayouts[l]].id = l

\* Where the writer is, what it has yet to remove, and the commands on their way.
WriteTypes ==
  /\ dirty \subseteq Live /\ unsent \subseteq Maps
  /\ first \in Maps \cup {None} /\ last \in Maps \cup {None} /\ cur \in Maps \cup {None}
  /\ next \in [Maps -> Maps \cup {None}]
  /\ layout_remove_list \in Seq(Layouts) /\ map_remove_list \in Seq(Maps)
  /\ pc \in {"idle", "removals", "updates"} /\ faults \in Nat
  /\ stream \in Seq(Commands)
  /\ mistaken \subseteq Layouts /\ misread \subseteq Maps

Chain(m) == {n \in {m, IF m = None THEN None ELSE next[m]} : n # None}

\* The list has no more than two maps, the second of which has no successor; what
\* is in it and has not been reached is dirty.
ListShape ==
  /\ first # None => last # None
  /\ first # None /\ next[first] # None => next[first] # first /\ next[next[first]] = None
  /\ first # None /\ last # first => next[first] = None
  /\ faults = 0 => last = first
  /\ pc # "updates" => Listed \subseteq dirty
  /\ pc = "updates" => /\ Chain(cur) \subseteq Listed \cap dirty
                       /\ Listed \cap dirty \subseteq Chain(cur)

\* The removals are written before the updates; what is to be removed is forgotten.
Removals ==
  /\ pc = "updates" => layout_remove_list = <<>> /\ map_remove_list = <<>>
  /\ \A l \in Range(layout_remove_list) : wlayouts[l] = None
  /\ \A m \in Range(map_remove_list) : wmaps[m] = None
  /\ \A i, j \in 1..Len(map_remove_list) : map_remove_list[i] = map_remove_list[j] => i = j

\* What is not to be sent was sent.
Current ==
  \A m \in Live \ (dirty \cup unsent) : wmaps[m] # None /\ wmaps[m].hash = Hash(m)

About(c, m) == c.kind # "layout" /\ c.id = m
Ends(c, l)  == c.kind = "layout" /\ c.id = l
Gives(c, l) == c.kind = "update" /\ c.has_layout /\ c.layout = l

\* The reader will be told of the end of l behind the first n commands.
Cared(l, n) ==
  \/ l \in tracked \/ l \in Range(layout_remove_list)
  \/ \E j \in n + 1..Len(stream) : Ends(stream[j], l)

\* The reader is told of the end of every layout it has or is to get.
Caring ==
  \A l \in Layouts \ mistaken :
    /\ \A i \in 1..Len(stream) : Gives(stream[i], l) => Cared(l, i)
    /\ rlayouts[l] # None => Cared(l, 0)

\* The last command about a map says what the writer remembers of it.
Final(c, m) ==
  IF wmaps[m] # None
  THEN /\ c.kind = "update" /\ c.state = wmaps[m].hash
       /\ c.layout = wdesc[wmaps[m].desc].id
  ELSE m \notin Range(map_remove_list) => c.kind = "map"

\* What the reader has made of the last command about a map that was read.
Settled(m) ==
  IF wmaps[m] # None
  THEN /\ m \notin misread => Shows(m, wmaps[m].hash)
       /\ mistaken = {} /\ rmaps[m] # None
            => rdesc[rmaps[m].desc].id = wdesc[wmaps[m].desc].id
  ELSE m \notin Range(map_remove_list) => rmaps[m] = None /\ m \notin misread

\* The last command about a map is true to the writer; if there is none, the copy is.
Copies ==
  \A m \in Maps :
    /\ \A i \in 1..Len(stream) : About(stream[i], m) =>
         Final(stream[i], m) \/ \E j \in i + 1..Len(stream) : About(stream[j], m)
    /\ (\A i \in 1..Len(stream) : ~About(stream[i], m)) => Settled(m)

\* After n commands the reader has layout l, with shape s.
Has(l, s, n) ==
  /\ \A i \in 1..n : (Gives(stream[i], l) /\ stream[i].state.shape # s) \/ Ends(stream[i], l)
       => \E j \in i + 1..n : Gives(stream[j], l) \/ Ends(stream[j], l)
  /\ (\A i \in 1..n : ~Gives(stream[i], l) /\ ~Ends(stream[i], l))
       => rlayouts[l] # None /\ rdesc[rlayouts[l]].shape = s

\* After n commands the copy of m does not refer to a dead layout at address l.
Fresh(m, l, n) ==
  /\ \A i \in 1..n : \A j \in i + 1..n :
       About(stream[i], m) /\ stream[i].kind = "update" /\ stream[i].layout = l
       /\ Ends(stream[j], l) => \E k \in i + 1..n : About(stream[k], m)
  /\ (\A i \in 1..n : ~About(stream[i], m)) /\ rmaps[m] # None /\ rdesc[rmaps[m].desc].id = l
       => rmaps[m].desc = rlayouts[l] /\ \A j \in 1..n : ~Ends(stream[j], l)

\* Every command finds its layout with the shape it was written with, and no copy of
\* a dead one.
Understood ==
  /\ misread = {}
  /\ \A i \in 1..Len(stream) : stream[i].kind = "update" /\ ~stream[i].has_layout =>
       /\ Has(stream[i].layout, stream[i].state.shape, i - 1)
       /\ Fresh(stream[i].id, stream[i].layout, i - 1)
  /\ \A l \in Layouts : wlayouts[l] # None =>
       /\ Has(l, wdesc[wlayouts[l]].hash, Len(stream))
       /\ \A m \in Maps : wmaps[m] # None /\ wmaps[m].desc = wlayouts[l] =>
            Fresh(m, l, Len(stream))
\* The commands are understood as long as no layout was taken for another.
Promises == mistaken = {} => Understood

-----------------------------------------------------------------------------
(* The maps and their layouts. *)

\* A map that lives has a layout, which is in use, and contents.
LEMMA LiveIs ==
  SourceTypes =>
    /\ \A m \in Live : /\ lay[m] \in Layouts /\ lay[m] \in InUse /\ data[m] \in Values
                       /\ shape[lay[m]] \in Shapes /\ Hash(m) \in States /\ m \in Maps
    /\ \A l \in Layouts : l \in InUse <=> \E n \in Maps : lay[n] = l
<1> SUFFICES ASSUME SourceTypes
             PROVE  /\ \A m \in Live : /\ lay[m] \in Layouts /\ lay[m] \in InUse
                                       /\ data[m] \in Values /\ shape[lay[m]] \in Shapes
                                       /\ Hash(m) \in States /\ m \in Maps
                    /\ \A l \in Layouts : l \in InUse <=> \E n \in Maps : lay[n] = l
  OBVIOUS
<1>1. ASSUME NEW m \in Live
      PROVE  /\ lay[m] \in Layouts /\ lay[m] \in InUse /\ data[m] \in Values
             /\ shape[lay[m]] \in Shapes /\ m \in Maps
  BY DEF SourceTypes, Live, InUse
<1>2. ASSUME NEW m \in Live PROVE Hash(m) \in States
  BY <1>1 DEF Hash, States
<1>3. ASSUME NEW l \in Layouts PROVE l \in InUse <=> \E n \in Maps : lay[n] = l
  BY SyncAssumption DEF InUse, Live
<1> QED BY <1>1, <1>2, <1>3

\* Only its own layout can be a map's alone.
LEMMA OwnIs ==
  ASSUME SourceTypes, NEW m \in Live
  PROVE  \A l : l \in Own(m) <=> l = lay[m] /\ \A n \in Maps : lay[n] = l => n = m
<1> SUFFICES ASSUME NEW l
             PROVE  l \in Own(m) <=> l = lay[m] /\ \A n \in Maps : lay[n] = l => n = m
  OBVIOUS
<1>1. m \in Maps /\ lay[m] \in Layouts /\ lay[m] # None
  BY LiveIs, SyncAssumption
<1>2. CASE l \in Layouts
  <2>1. Users(l) = {n \in Maps : lay[n] = l}
    BY <1>2, SyncAssumption DEF Users, Live
  <2> QED BY <1>1, <1>2, <2>1 DEF Own
<1>3. CASE l \notin Layouts
  BY <1>1, <1>3 DEF Own
<1> QED BY <1>2, <1>3

\* A map is made: its layout is in use.
LEMMA SourceCreated ==
  ASSUME SourceTypes, NEW m \in Maps, NEW l \in Layouts, NEW s \in Shapes, NEW v \in Values,
         CreateSynchronizer(m, l, s, v)
  PROVE  /\ SourceTypes' /\ InUse' = InUse \cup {l} /\ Live' = Live \cup {m}
         /\ \A n \in Live : n # m /\ Hash(n)' = Hash(n)
<1>1. /\ lay' = [lay EXCEPT ![m] = l] /\ shape' = [shape EXCEPT ![l] = s]
      /\ data' = [data EXCEPT ![m] = v] /\ m \notin Live /\ (l \in InUse => s = shape[l])
  BY DEF CreateSynchronizer
<1>2. /\ lay \in [Maps -> Layouts \cup {None}] /\ data \in [Maps -> Values \cup {None}]
      /\ shape \in [Layouts -> Shapes \cup {None}]
      /\ \A n \in Maps : lay[n] = None <=> data[n] = None
      /\ \A k \in Layouts : shape[k] # None <=> k \in InUse
  BY DEF SourceTypes
<1>3. Live' = Live \cup {m}
  BY <1>1, <1>2, SyncAssumption DEF Live
<1>4. InUse' = InUse \cup {l}
  BY <1>1, <1>2, <1>3 DEF InUse, Live
<1>5. ASSUME NEW n \in Live PROVE n # m /\ Hash(n)' = Hash(n)
  <2>1. /\ n \in Maps /\ n # m /\ lay[n] \in InUse /\ lay[n] \in Layouts
        /\ lay'[n] = lay[n] /\ data'[n] = data[n]
    BY <1>1, <1>2, LiveIs
  <2>2. shape'[lay[n]] = shape[lay[n]]
    BY <1>1, <1>2, <2>1
  <2> QED BY <2>1, <2>2 DEF Hash
<1>6. SourceTypes'
  <2>1. /\ lay' \in [Maps -> Layouts \cup {None}] /\ data' \in [Maps -> Values \cup {None}]
        /\ shape' \in [Layouts -> Shapes \cup {None}]
    BY <1>1, <1>2
  <2>2. \A n \in Maps : lay'[n] = None <=> data'[n] = None
    BY <1>1, <1>2, SyncAssumption
  <2>3. \A k \in Layouts : shape'[k] # None <=> k \in InUse'
    BY <1>1, <1>2, <1>4, SyncAssumption
  <2> QED BY <2>1, <2>2, <2>3 DEF SourceTypes
<1> QED BY <1>3, <1>4, <1>5, <1>6

\* A map gets other data.
LEMMA SourceSet ==
  ASSUME SourceTypes, NEW m \in Maps, NEW v \in Values, SetProperty(m, v)
  PROVE  /\ SourceTypes' /\ InUse' = InUse /\ Live' = Live
         /\ \A n \in Live : n # m => Hash(n)' = Hash(n)
<1>1. data' = [data EXCEPT ![m] = v] /\ UNCHANGED <<lay, shape>> /\ m \in Live
  BY DEF SetProperty
<1>2. Live' = Live /\ InUse' = InUse
  BY <1>1 DEF Live, InUse
<1>3. SourceTypes'
  BY <1>1, <1>2, SyncAssumption DEF SourceTypes, Live
<1>4. ASSUME NEW n \in Live, n # m PROVE Hash(n)' = Hash(n)
  BY <1>1, <1>4 DEF Hash, SourceTypes, Live
<1> QED BY <1>2, <1>3, <1>4

\* A map's layout changes: it is the same, which no other map has, or a new one.
LEMMA SourceRelaid ==
  ASSUME SourceTypes, NEW m \in Maps, NEW l \in Layouts, NEW s \in Shapes,
         NEW v \in Values, ChangeLayout(m, l, s, v)
  PROVE  /\ SourceTypes' /\ InUse' = InUse \cup {l} /\ Live' = Live
         /\ \A n \in Live : n # m => Hash(n)' = Hash(n)
<1>1. /\ lay' = [lay EXCEPT ![m] = l] /\ shape' = [shape EXCEPT ![l] = s] /\ m \in Live
      /\ data' = [data EXCEPT ![m] = v]
      /\ IF lay[m] \in Own(m) THEN l = lay[m] ELSE l \notin InUse
  BY DEF ChangeLayout
<1>2. /\ lay \in [Maps -> Layouts \cup {None}] /\ data \in [Maps -> Values \cup {None}]
      /\ shape \in [Layouts -> Shapes \cup {None}]
      /\ \A n \in Maps : lay[n] = None <=> data[n] = None
      /\ \A k \in Layouts : shape[k] # None <=> k \in InUse
  BY DEF SourceTypes
<1>3. Live' = Live
  BY <1>1, <1>2, SyncAssumption DEF Live
<1>4. ASSUME NEW n \in Live, n # m PROVE lay[n] # l
  <2>1. lay[n] \in InUse /\ n \in Maps
    BY LiveIs
  <2> QED BY <1>1, <1>4, <2>1, OwnIs
<1>5. lay[m] # l => \E n \in Live : n # m /\ lay[n] = lay[m]
  <2>1. lay[m] # l => \E n \in Maps : n # m /\ lay[n] = lay[m]
    BY <1>1, OwnIs
  <2> QED BY <1>1, <2>1 DEF Live
<1>6. InUse' = InUse \cup {l}
  <2>1. \A n \in Live : lay'[n] = IF n = m THEN l ELSE lay[n]
    BY <1>1, <1>2, LiveIs
  <2>2. m \in Live
    BY <1>1
  <2> QED BY <1>3, <1>5, <2>1, <2>2 DEF InUse
<1>7. ASSUME NEW n \in Live, n # m PROVE Hash(n)' = Hash(n)
  <2>1. n \in Maps /\ lay'[n] = lay[n] /\ lay[n] \in Layouts /\ lay[n] # l
    BY <1>1, <1>2, <1>4, <1>7, LiveIs
  <2>2. shape'[lay[n]] = shape[lay[n]] /\ data'[n] = data[n]
    BY <1>1, <1>2, <1>7, <2>1
  <2> QED BY <2>1, <2>2 DEF Hash
<1>8. SourceTypes'
  <2>1. /\ lay' \in [Maps -> Layouts \cup {None}] /\ data' \in [Maps -> Values \cup {None}]
        /\ shape' \in [Layouts -> Shapes \cup {None}]
    BY <1>1, <1>2
  <2>2. \A n \in Maps : lay'[n] = None <=> data'[n] = None
    BY <1>1, <1>2, SyncAssumption DEF Live
  <2>3. \A k \in Layouts : shape'[k] # None <=> k \in InUse'
    BY <1>1, <1>2, <1>6, SyncAssumption
  <2> QED BY <2>1, <2>2, <2>3 DEF SourceTypes
<1> QED BY <1>3, <1>6, <1>7, <1>8

\* A map gets another layout and other data.
LEMMA SourceReset ==
  ASSUME SourceTypes, NEW m \in Maps, NEW l \in Layouts, NEW s \in Shapes, NEW v \in Values,
         Reset(m, l, s, v)
  PROVE  /\ SourceTypes' /\ InUse' = (InUse \ Own(m)) \cup {l} /\ Live' = Live
         /\ \A n \in Live : n # m => Hash(n)' = Hash(n)
<1>1. /\ lay' = [lay EXCEPT ![m] = l] /\ m \in Live /\ l # lay[m]
      /\ shape' = [k \in Layouts |-> IF k = l THEN s
                                     ELSE IF k \in Own(m) THEN None ELSE shape[k]]
      /\ data' = [data EXCEPT ![m] = v] /\ (l \in InUse => s = shape[l])
  BY DEF Reset
<1>2. /\ lay \in [Maps -> Layouts \cup {None}] /\ data \in [Maps -> Values \cup {None}]
      /\ shape \in [Layouts -> Shapes \cup {None}]
      /\ \A n \in Maps : lay[n] = None <=> data[n] = None
      /\ \A k \in Layouts : shape[k] # None <=> k \in InUse
  BY DEF SourceTypes
<1>3. Live' = Live
  BY <1>1, <1>2, SyncAssumption DEF Live
<1>4. \A k : k \in Own(m) <=> k = lay[m] /\ \A n \in Maps : lay[n] = k => n = m
  BY <1>1, OwnIs
<1>5. InUse' = (InUse \ Own(m)) \cup {l}
  <2>1. \A n \in Live : lay'[n] = (IF n = m THEN l ELSE lay[n]) /\ n \in Maps
    BY <1>1, <1>2, LiveIs
  <2>2. InUse' \subseteq (InUse \ Own(m)) \cup {l}
    BY <1>3, <1>4, <2>1 DEF InUse
  <2>3. l \in InUse'
    BY <1>1, <1>3, <2>1 DEF InUse
  <2>4. ASSUME NEW k \in InUse, k \notin Own(m) PROVE k \in InUse'
    <3>1. \E n \in Live : n # m /\ lay[n] = k
      BY <1>4, <2>4 DEF InUse, Live
    <3> QED BY <1>3, <2>1, <3>1 DEF InUse
  <2> QED BY <2>2, <2>3, <2>4
<1>6. ASSUME NEW n \in Live, n # m PROVE Hash(n)' = Hash(n)
  <2>1. /\ n \in Maps /\ lay'[n] = lay[n] /\ lay[n] \in Layouts /\ lay[n] \in InUse
        /\ data'[n] = data[n]
    BY <1>1, <1>2, <1>6, LiveIs
  <2>2. lay[n] \notin Own(m)
    BY <1>4, <1>6, <2>1
  <2>3. shape'[lay[n]] = shape[lay[n]]
    BY <1>1, <1>2, <2>1, <2>2
  <2> QED BY <2>1, <2>3 DEF Hash
<1>7. SourceTypes'
  <2>1. /\ lay' \in [Maps -> Layouts \cup {None}] /\ data' \in [Maps -> Values \cup {None}]
    BY <1>1, <1>2
  <2>2. shape' \in [Layouts -> Shapes \cup {None}]
    BY <1>1, <1>2
  <2>3. \A n \in Maps : lay'[n] = None <=> data'[n] = None
    BY <1>1, <1>2, SyncAssumption DEF Live
  <2>4. l \notin Own(m)
    BY <1>1, <1>4
  <2>5. \A k \in Layouts : shape'[k] # None <=> k \in InUse'
    BY <1>1, <1>2, <1>5, <2>4, SyncAssumption
  <2> QED BY <2>1, <2>2, <2>3, <2>5 DEF SourceTypes
<1> QED BY <1>3, <1>5, <1>6, <1>7

\* A map is destroyed.
LEMMA SourceDestroyed ==
  ASSUME SourceTypes, NEW m \in Maps, DestroyMap(m)
  PROVE  /\ SourceTypes' /\ InUse' = InUse \ Own(m) /\ Live' = Live \ {m} /\ m \in Live
         /\ \A n \in Live : n # m => Hash(n)' = Hash(n)
<1>1. /\ lay' = [lay EXCEPT ![m] = None] /\ data' = [data EXCEPT ![m] = None] /\ m \in Live
      /\ shape' = [k \in Layouts |-> IF k \in Own(m) THEN None ELSE shape[k]]
  BY DEF DestroyMap
<1>2. /\ lay \in [Maps -> Layouts \cup {None}] /\ data \in [Maps -> Values \cup {None}]
      /\ shape \in [Layouts -> Shapes \cup {None}]
      /\ \A n \in Maps : lay[n] = None <=> data[n] = None
      /\ \A k \in Layouts : shape[k] # None <=> k \in InUse
  BY DEF SourceTypes
<1>3. Live' = Live \ {m}
  BY <1>1, <1>2 DEF Live
<1>4. \A k : k \in Own(m) <=> k = lay[m] /\ \A n \in Maps : lay[n] = k => n = m
  BY <1>1, OwnIs
<1>5. InUse' = InUse \ Own(m)
  <2>1. \A n \in Live : n # m => lay'[n] = lay[n] /\ n \in Live' /\ n \in Maps
    BY <1>1, <1>2, <1>3, LiveIs
  <2>2. InUse' \subseteq InUse \ Own(m)
    BY <1>3, <1>4, <2>1 DEF InUse
  <2>3. ASSUME NEW k \in InUse, k \notin Own(m) PROVE k \in InUse'
    <3>1. \E n \in Live : n # m /\ lay[n] = k
      BY <1>4, <2>3 DEF InUse, Live
    <3> QED BY <2>1, <3>1 DEF InUse
  <2> QED BY <2>2, <2>3
<1>6. ASSUME NEW n \in Live, n # m PROVE Hash(n)' = Hash(n)
  <2>1. /\ n \in Maps /\ lay'[n] = lay[n] /\ lay[n] \in Layouts /\ data'[n] = data[n]
    BY <1>1, <1>2, <1>6, LiveIs
  <2>2. lay[n] \notin Own(m)
    BY <1>4, <1>6, <2>1
  <2>3. shape'[lay[n]] = shape[lay[n]]
    BY <1>1, <2>1, <2>2
  <2> QED BY <2>1, <2>3 DEF Hash
<1>7. SourceTypes'
  <2>1. /\ lay' \in [Maps -> Layouts \cup {None}] /\ data' \in [Maps -> Values \cup {None}]
        /\ shape' \in [Layouts -> Shapes \cup {None}]
    BY <1>1, <1>2
  <2>2. \A n \in Maps : lay'[n] = None <=> data'[n] = None
    BY <1>1, <1>2
  <2>3. \A k \in Layouts : shape'[k] # None <=> k \in InUse'
    BY <1>1, <1>2, <1>5
  <2> QED BY <2>1, <2>2, <2>3 DEF SourceTypes
<1> QED BY <1>1, <1>3, <1>5, <1>6, <1>7

-----------------------------------------------------------------------------
(* What the writer remembers. *)

\* The descriptors of both sides.
LEMMA WriterDescs ==
  WriterTypes =>
    /\ DOMAIN wdesc = WDescs /\ WDescs \subseteq Descs
    /\ \A d \in WDescs : wdesc[d].id \in Layouts /\ wdesc[d].hash \in Shapes
                         /\ wdesc[d] = [id |-> wdesc[d].id, hash |-> wdesc[d].hash]
    /\ \A l \in Layouts : wlayouts[l] # None => wlayouts[l] \in WDescs
    /\ \A m \in Maps : wmaps[m] # None =>
         /\ wmaps[m].desc \in WDescs /\ wmaps[m].hash \in States
         /\ wmaps[m] = [desc |-> wmaps[m].desc, hash |-> wmaps[m].hash]
    /\ \A d : d \in WDescs <=> \/ \E l \in Layouts : d = wlayouts[l] /\ d # None
                               \/ \E m \in Maps : wmaps[m] # None /\ d = wmaps[m].desc
<1> SUFFICES ASSUME WriterTypes
             PROVE  /\ DOMAIN wdesc = WDescs /\ WDescs \subseteq Descs
                    /\ \A d \in WDescs : wdesc[d].id \in Layouts /\ wdesc[d].hash \in Shapes
                         /\ wdesc[d] = [id |-> wdesc[d].id, hash |-> wdesc[d].hash]
                    /\ \A l \in Layouts : wlayouts[l] # None => wlayouts[l] \in WDescs
                    /\ \A m \in Maps : wmaps[m] # None =>
                         /\ wmaps[m].desc \in WDescs /\ wmaps[m].hash \in States
                         /\ wmaps[m] = [desc |-> wmaps[m].desc, hash |-> wmaps[m].hash]
                    /\ \A d : d \in WDescs <=>
                         \/ \E l \in Layouts : d = wlayouts[l] /\ d # None
                         \/ \E m \in Maps : wmaps[m] # None /\ d = wmaps[m].desc
  OBVIOUS
<1>1. wdesc \in [WDescs -> LayoutDescs] /\ wlayouts \in [Layouts -> Descs \cup {None}]
      /\ wmaps \in [Maps -> WriterMaps \cup {None}]
  BY DEF WriterTypes
<1>2. \A m \in Maps : wmaps[m] # None =>
        /\ wmaps[m].desc \in Descs /\ wmaps[m].hash \in States
        /\ wmaps[m] = [desc |-> wmaps[m].desc, hash |-> wmaps[m].hash]
  BY <1>1 DEF WriterMaps
<1>3. \A d : d \in WDescs <=>
        \/ \E l \in Layouts : d = wlayouts[l] /\ d # None
        \/ \E m \in Maps : wmaps[m] # None /\ d = wmaps[m].desc
  <2>1. \A d : d \in Referred(wlayouts, wmaps) <=>
          \/ \E l \in Layouts : d = wlayouts[l]
          \/ \E m \in Maps : wmaps[m] # None /\ d = wmaps[m].desc
    BY ReferredIs
  <2>2. \A m \in Maps : wmaps[m] # None => wmaps[m].desc # None
    BY <1>2, SyncAssumption
  <2>3. WDescs = Referred(wlayouts, wmaps) \ {None}
    BY DEF WDescs, DescsOf
  <2> HIDE <1>1, <1>2
  <2> QED BY <2>1, <2>2, <2>3
<1>4. WDescs \subseteq Descs
  BY <1>1, <1>2, <1>3
<1>5. \A d \in WDescs : wdesc[d].id \in Layouts /\ wdesc[d].hash \in Shapes
        /\ wdesc[d] = [id |-> wdesc[d].id, hash |-> wdesc[d].hash]
  BY <1>1 DEF LayoutDescs
<1> QED BY <1>1, <1>2, <1>3, <1>4, <1>5

\* The descriptor the writer finds for a map is one of the map's layout; if it finds
\* none, there is a new one.
LEMMA KnownIs ==
  ASSUME SourceTypes, WriterTypes, NEW m \in Live
  PROVE  /\ Known(m) # None => /\ Known(m) \in WDescs /\ wdesc[Known(m)].id = lay[m]
                               /\ DescFor(m) = Known(m)
         /\ Known(m) = None => /\ wlayouts[lay[m]] = None
                               /\ DescFor(m) \in Descs \ WDescs
         /\ HasLayout(m) <=> ~(Known(m) # None /\ wdesc[Known(m)].hash = shape[lay[m]])
         /\ DescFor(m) \in Descs /\ DescFor(m) # None
         /\ Known(m) \in {wlayouts[lay[m]]} \cup {wmaps[n].desc : n \in {m}}
         /\ Known(m) # None /\ Known(m) # wlayouts[lay[m]] => Mistaken(m)
<1>1. m \in Maps /\ lay[m] \in Layouts
  BY LiveIs
<1>2. /\ DOMAIN wdesc = WDescs /\ WDescs \subseteq Descs
      /\ wlayouts[lay[m]] # None => wlayouts[lay[m]] \in WDescs
      /\ wmaps[m] # None => wmaps[m].desc \in WDescs
  BY <1>1, WriterDescs
<1>3. wlayouts[lay[m]] # None => wdesc[wlayouts[lay[m]]].id = lay[m]
  BY <1>1 DEF WriterTypes
<1>4. Known(m) # None => Known(m) \in WDescs /\ wdesc[Known(m)].id = lay[m]
  BY <1>2, <1>3 DEF Known
<1>5. Known(m) = None => wlayouts[lay[m]] = None
  BY <1>2, SyncAssumption DEF Known
<1>6. ASSUME Known(m) = None PROVE DescFor(m) \in Descs \ WDescs
  <2>1. wlayouts \in [Layouts -> Descs \cup {None}]
        /\ \A n \in Maps : wmaps[n] # None => wmaps[n].desc \in Descs
    BY <1>2, WriterDescs DEF WriterTypes
  <2>2. Descs \ WDescs # {}
    BY <1>1, <1>5, <1>6, <2>1, EnoughDescs DEF WDescs
  <2> QED BY <1>2, <1>6, <2>2 DEF DescFor, NewDesc
<1>7. HasLayout(m) <=> ~(Known(m) # None /\ wdesc[Known(m)].hash = shape[lay[m]])
  BY <1>2, <1>4, SyncAssumption DEF HasLayout
<1>8. Known(m) # None => DescFor(m) = Known(m)
  BY DEF DescFor
<1>9. DescFor(m) \in Descs /\ DescFor(m) # None
  BY <1>2, <1>4, <1>6, <1>8, SyncAssumption
<1>10. Known(m) = wlayouts[lay[m]] \/ (wmaps[m] # None /\ Known(m) = wmaps[m].desc)
  BY DEF Known
<1> QED BY <1>4, <1>5, <1>6, <1>7, <1>8, <1>9, <1>10 DEF Mistaken

\* What is remembered when a layout, or a map, has been written.
LEMMA Remembered ==
  ASSUME SourceTypes, WriterTypes, NEW m \in Live, RememberLayout(m),
         \/ UNCHANGED wmaps
         \/ wmaps' = [wmaps EXCEPT ![m] = [desc |-> DescFor(m), hash |-> Hash(m)]],
         UNCHANGED lay
  PROVE  /\ WriterTypes'
         /\ \A l \in Layouts : wlayouts'[l] = IF l = lay[m] /\ Known(m) = None
                                              THEN DescFor(m) ELSE wlayouts[l]
         /\ DescFor(m) \in WDescs'
         /\ wdesc'[DescFor(m)] = [id |-> lay[m], hash |-> shape[lay[m]]]
         /\ \A d \in WDescs' : d # DescFor(m) => d \in WDescs /\ wdesc'[d] = wdesc[d]
         /\ tracked \subseteq tracked' /\ lay[m] \in Layouts
         /\ wlayouts'[lay[m]] # None => lay[m] \in tracked'
<1> DEFINE d == DescFor(m)  l == lay[m]
           W == With(wdesc, d, [id |-> l, hash |-> shape[l]])
<1>1. /\ m \in Maps /\ l \in Layouts /\ l \in InUse /\ shape[l] \in Shapes
      /\ Hash(m) \in States
  BY LiveIs
<1>2. /\ wlayouts \in [Layouts -> Descs \cup {None}]
      /\ wmaps \in [Maps -> WriterMaps \cup {None}] /\ wdesc \in [WDescs -> LayoutDescs]
      /\ tracked \subseteq InUse
      /\ \A k \in Layouts : wlayouts[k] # None => wdesc[wlayouts[k]].id = k /\ k \in tracked
      /\ \A n \in Maps : wmaps[n] # None => n \in Live
  BY DEF WriterTypes
<1>3. /\ d \in Descs /\ d # None
      /\ Known(m) # None => Known(m) \in WDescs /\ wdesc[Known(m)].id = l /\ d = Known(m)
      /\ Known(m) = None => wlayouts[l] = None /\ d \notin WDescs
      /\ Known(m) = wlayouts[l] \/ (wmaps[m] # None /\ Known(m) = wmaps[m].desc)
  <2>1. Known(m) = wlayouts[l] \/ (wmaps[m] # None /\ Known(m) = wmaps[m].desc)
    BY DEF Known
  <2> QED BY <2>1, KnownIs
<1>4. /\ wlayouts' = IF Known(m) = None THEN [wlayouts EXCEPT ![l] = d] ELSE wlayouts
      /\ tracked' = IF Known(m) = None THEN tracked \cup {l} ELSE tracked
      /\ wdesc' = Collect(W, wlayouts', wmaps')
  BY DEF RememberLayout
<1> HIDE DEF d, l
<1>5. \A k \in Layouts : wlayouts'[k] = IF k = l /\ Known(m) = None THEN d ELSE wlayouts[k]
  BY <1>2, <1>4
<1>6. /\ \A n \in Maps : n # m => wmaps'[n] = wmaps[n]
      /\ wmaps'[m] = wmaps[m] \/ wmaps'[m] = [desc |-> d, hash |-> Hash(m)]
      /\ wmaps' \in [Maps -> WriterMaps \cup {None}]
  <2>1. CASE UNCHANGED wmaps
    BY <1>2, <2>1
  <2>2. CASE wmaps' = [wmaps EXCEPT ![m] = [desc |-> d, hash |-> Hash(m)]]
    <3>1. [desc |-> d, hash |-> Hash(m)] \in WriterMaps
      BY <1>1, <1>3 DEF WriterMaps
    <3> QED BY <1>1, <1>2, <2>2, <3>1
  <2> QED BY <2>1, <2>2 DEF d
<1>7. DOMAIN wdesc = WDescs
      /\ \A e : e \in WDescs <=> \/ \E k \in Layouts : e = wlayouts[k] /\ e # None
                                 \/ \E n \in Maps : wmaps[n] # None /\ e = wmaps[n].desc
  BY WriterDescs
<1>8. \A n \in Maps : wmaps'[n] # None => wmaps'[n].desc # None
  <2>1. \A w \in WriterMaps : w.desc # None
    BY SyncAssumption DEF WriterMaps
  <2> QED BY <1>6, <2>1
<1>9. \A e : e \in WDescs' <=> \/ \E k \in Layouts : e = wlayouts'[k] /\ e # None
                               \/ \E n \in Maps : wmaps'[n] # None /\ e = wmaps'[n].desc
  BY <1>8, ReferredIs DEF WDescs, DescsOf
<1>10. ASSUME NEW e \in WDescs', e # d PROVE e \in WDescs
  <2>1. CASE \E k \in Layouts : e = wlayouts'[k] /\ e # None
    BY <1>5, <1>7, <1>10, <2>1
  <2>2. CASE \E n \in Maps : wmaps'[n] # None /\ e = wmaps'[n].desc
    BY <1>6, <1>7, <1>10, <2>2
  <2> QED BY <1>9, <2>1, <2>2
<1>11. d \in WDescs'
  <2>1. CASE Known(m) = None
    BY <1>1, <1>3, <1>5, <1>9, <2>1
  <2>2. CASE Known(m) # None
    <3>1. CASE Known(m) = wlayouts[l]
      BY <1>1, <1>3, <1>5, <1>9, <2>2, <3>1
    <3>2. CASE wmaps[m] # None /\ Known(m) = wmaps[m].desc
      <4>1. wmaps'[m] # None /\ wmaps'[m].desc = d
        BY <1>1, <1>3, <1>6, <2>2, <3>2, SyncAssumption DEF WriterMaps
      <4> QED BY <1>1, <1>9, <4>1
    <3> QED BY <1>3, <3>1, <3>2
  <2> QED BY <2>1, <2>2
<1>12. WDescs' = Referred(wlayouts', wmaps') \ {None}
  BY DEF WDescs, DescsOf
<1>13. /\ DOMAIN W = WDescs \cup {d} /\ W[d] = [id |-> l, hash |-> shape[l]]
       /\ \A e \in WDescs : e # d => W[e] = wdesc[e]
  <2> DEFINE v == [id |-> l, hash |-> shape[l]]
  <2>1. W = With(wdesc, d, v)
    OBVIOUS
  <2> HIDE DEF W, v
  <2>2. /\ DOMAIN W = DOMAIN wdesc \cup {d} /\ W[d] = v
        /\ \A e \in DOMAIN wdesc : e # d => W[e] = wdesc[e]
    BY <2>1 DEF With
  <2> QED BY <1>7, <2>2 DEF v
<1> HIDE DEF W
<1>14. /\ DOMAIN wdesc' = DOMAIN W \cap Referred(wlayouts', wmaps')
       /\ \A e \in DOMAIN wdesc' : wdesc'[e] = W[e]
       /\ wdesc' = [e \in DOMAIN wdesc' |-> wdesc'[e]]
  <2>1. wdesc' = Collect(W, wlayouts', wmaps')
    BY <1>4
  <2> QED BY <2>1 DEF Collect
<1>15. None \notin WDescs
  BY WriterDescs, SyncAssumption
<1>16. DOMAIN wdesc' = WDescs'
  BY <1>3, <1>10, <1>11, <1>12, <1>13, <1>14, <1>15
<1>17. \A e \in WDescs' : wdesc'[e] = W[e]
  BY <1>14, <1>16
<1>18. wdesc'[d] = [id |-> l, hash |-> shape[l]]
  BY <1>11, <1>13, <1>17
<1>19. \A e \in WDescs' : e # d => e \in WDescs /\ wdesc'[e] = wdesc[e]
  BY <1>10, <1>13, <1>17
<1>20. wdesc' \in [WDescs' -> LayoutDescs]
  <2>2. [id |-> l, hash |-> shape[l]] \in LayoutDescs
    BY <1>1 DEF LayoutDescs
  <2>3. \A e \in WDescs' : wdesc'[e] \in LayoutDescs
    BY <1>2, <1>18, <1>19, <2>2
  <2> QED BY <1>14, <1>16, <2>3
<1>21. tracked \subseteq tracked' /\ tracked' \subseteq InUse
       /\ (wlayouts'[l] # None => l \in tracked')
  BY <1>1, <1>2, <1>4, <1>5
<1>22. ASSUME NEW k \in Layouts, wlayouts'[k] # None
       PROVE  wdesc'[wlayouts'[k]].id = k /\ k \in tracked'
  <2>1. CASE wlayouts'[k] = d
    <3>1. k = l
      BY <1>2, <1>3, <1>5, <1>7, <1>22, <2>1
    <3> QED BY <1>18, <1>21, <1>22, <2>1, <3>1
  <2>2. CASE wlayouts'[k] # d
    <3>1. wlayouts'[k] = wlayouts[k] /\ wlayouts'[k] \in WDescs'
      BY <1>5, <1>9, <1>22, <2>2
    <3> QED BY <1>2, <1>19, <1>21, <1>22, <2>2, <3>1
  <2> QED BY <2>1, <2>2
<1>23. WriterTypes'
  <2>1. wlayouts' \in [Layouts -> Descs \cup {None}]
    BY <1>2, <1>3, <1>4
  <2>2. Live' = Live /\ InUse' = InUse
    BY DEF Live, InUse
  <2>3. \A n \in Maps : wmaps'[n] # None => n \in Live
    BY <1>2, <1>6
  <2> QED BY <1>6, <1>20, <1>21, <1>22, <2>1, <2>2, <2>3 DEF WriterTypes
<1> QED BY <1>1, <1>5, <1>11, <1>18, <1>19, <1>21, <1>23 DEF d, l

\* What is forgotten when layouts and maps have been destroyed: it is put into the
\* lists of what the reader is to be told.
LEMMA Forgotten ==
  ASSUME WriterTypes, WriteTypes, NEW dead \in SUBSET Layouts, NEW gone \in SUBSET Maps,
         Forget(dead, gone), InUse \ dead \subseteq InUse', Live \ gone \subseteq Live'
  PROVE  /\ WriterTypes'
         /\ \A l \in Layouts : wlayouts'[l] = IF l \in dead \cap tracked THEN None
                                                                        ELSE wlayouts[l]
         /\ \A m \in Maps : wmaps'[m] = IF m \in gone THEN None ELSE wmaps[m]
         /\ tracked' = tracked \ dead
         /\ \A d \in WDescs' : d \in WDescs /\ wdesc'[d] = wdesc[d]
         /\ layout_remove_list' \in Seq(Layouts) /\ map_remove_list' \in Seq(Maps)
         /\ Range(layout_remove_list') = Range(layout_remove_list) \cup (dead \cap tracked)
         /\ Range(map_remove_list')
              = Range(map_remove_list) \cup {m \in gone : wmaps[m] # None}
         /\ Removals => \A i, j \in 1..Len(map_remove_list') :
                          map_remove_list'[i] = map_remove_list'[j] => i = j
<1> DEFINE L == dead \cap tracked  M == {m \in gone : wmaps[m] # None}
<1>1. /\ wlayouts' = [l \in Layouts |-> IF l \in L THEN None ELSE wlayouts[l]]
      /\ wmaps' = [m \in Maps |-> IF m \in gone THEN None ELSE wmaps[m]]
      /\ wdesc' = Collect(wdesc, wlayouts', wmaps')
      /\ tracked' = tracked \ dead
      /\ layout_remove_list' = layout_remove_list \o SetToSeq(L)
      /\ map_remove_list' = map_remove_list \o SetToSeq(M)
  BY DEF Forget
<1>2. /\ wlayouts \in [Layouts -> Descs \cup {None}]
      /\ wmaps \in [Maps -> WriterMaps \cup {None}] /\ wdesc \in [WDescs -> LayoutDescs]
      /\ tracked \subseteq InUse
      /\ \A k \in Layouts : wlayouts[k] # None => wdesc[wlayouts[k]].id = k /\ k \in tracked
      /\ \A n \in Maps : wmaps[n] # None => n \in Live
  BY DEF WriterTypes
<1>3. /\ IsFiniteSet(L) /\ IsFiniteSet(M) /\ L \subseteq Layouts /\ M \subseteq Maps
  BY SyncAssumption, FS_Subset
<1>4. /\ SetToSeq(L) \in Seq(L) /\ Range(SetToSeq(L)) = L
      /\ SetToSeq(M) \in Seq(M) /\ Range(SetToSeq(M)) = M
      /\ \A i, j \in 1..Len(SetToSeq(M)) : SetToSeq(M)[i] = SetToSeq(M)[j] => i = j
  <2> HIDE DEF L, M
  <2>1. SetToSeq(L) \in Seq(L) /\ Range(SetToSeq(L)) = L
    BY <1>3, SetToSeqIs
  <2>2. SetToSeq(M) \in Seq(M) /\ Range(SetToSeq(M)) = M
        /\ \A i, j \in 1..Len(SetToSeq(M)) : SetToSeq(M)[i] = SetToSeq(M)[j] => i = j
    BY <1>3, SetToSeqIs
  <2> QED BY <2>1, <2>2
<1>5. /\ layout_remove_list' \in Seq(Layouts)
      /\ Range(layout_remove_list') = Range(layout_remove_list) \cup L
  <2> HIDE DEF L
  <2>1. SetToSeq(L) \in Seq(Layouts) /\ layout_remove_list \in Seq(Layouts)
    BY <1>3, <1>4 DEF WriteTypes
  <2>2. /\ layout_remove_list \o SetToSeq(L) \in Seq(Layouts)
        /\ Range(layout_remove_list \o SetToSeq(L))
             = Range(layout_remove_list) \cup Range(SetToSeq(L))
    BY <2>1, JoinRange
  <2> QED BY <1>1, <1>4, <2>2
<1>6. /\ map_remove_list' \in Seq(Maps)
      /\ Range(map_remove_list') = Range(map_remove_list) \cup M
      /\ Removals => \A i, j \in 1..Len(map_remove_list') :
                       map_remove_list'[i] = map_remove_list'[j] => i = j
  <2>1. Removals => /\ Range(map_remove_list) \cap M = {}
                    /\ \A i, j \in 1..Len(map_remove_list) :
                         map_remove_list[i] = map_remove_list[j] => i = j
    BY DEF Removals
  <2> HIDE DEF M
  <2>2. SetToSeq(M) \in Seq(Maps) /\ map_remove_list \in Seq(Maps)
    BY <1>3, <1>4 DEF WriteTypes
  <2> DEFINE s == map_remove_list  t == SetToSeq(M)
  <2>3. s \in Seq(Maps) /\ t \in Seq(Maps) /\ map_remove_list' = s \o t
    BY <1>1, <2>2
  <2>4. /\ s \o t \in Seq(Maps) /\ Range(s \o t) = Range(s) \cup Range(t)
        /\ /\ \A i, j \in 1..Len(s) : s[i] = s[j] => i = j
           /\ \A i, j \in 1..Len(t) : t[i] = t[j] => i = j
           /\ Range(s) \cap Range(t) = {}
           => \A i, j \in 1..Len(s \o t) : (s \o t)[i] = (s \o t)[j] => i = j
    BY <2>3, JoinRange
  <2> QED BY <1>4, <2>1, <2>3, <2>4
<1>7. /\ \A l \in Layouts : wlayouts'[l] = IF l \in L THEN None ELSE wlayouts[l]
      /\ \A m \in Maps : wmaps'[m] = IF m \in gone THEN None ELSE wmaps[m]
  BY <1>1
<1> HIDE DEF L, M
<1>8. DOMAIN wdesc = WDescs /\ None \notin WDescs
      /\ \A e : e \in WDescs <=> \/ \E k \in Layouts : e = wlayouts[k] /\ e # None
                                 \/ \E n \in Maps : wmaps[n] # None /\ e = wmaps[n].desc
  BY WriterDescs, SyncAssumption
<1>9. \A e : e \in Referred(wlayouts', wmaps') <=>
               \/ \E k \in Layouts : e = wlayouts'[k]
               \/ \E n \in Maps : wmaps'[n] # None /\ e = wmaps'[n].desc
  BY ReferredIs
<1>10. WDescs' = Referred(wlayouts', wmaps') \ {None}
  BY DEF WDescs, DescsOf
<1>11. ASSUME NEW e \in WDescs' PROVE e \in WDescs
  <2>1. e \in Referred(wlayouts', wmaps') /\ e # None
    BY <1>10
  <2>2. CASE \E k \in Layouts : e = wlayouts'[k]
    BY <1>7, <1>8, <2>1, <2>2
  <2>3. CASE \E n \in Maps : wmaps'[n] # None /\ e = wmaps'[n].desc
    BY <1>7, <1>8, <2>3
  <2> QED BY <1>9, <2>1, <2>2, <2>3
<1>12. /\ DOMAIN wdesc' = DOMAIN wdesc \cap Referred(wlayouts', wmaps')
       /\ \A e \in DOMAIN wdesc' : wdesc'[e] = wdesc[e]
       /\ wdesc' = [e \in DOMAIN wdesc' |-> wdesc'[e]]
  <2>1. wdesc' = Collect(wdesc, wlayouts', wmaps')
    BY <1>1
  <2> QED BY <2>1 DEF Collect
<1>13. DOMAIN wdesc' = WDescs'
  BY <1>8, <1>10, <1>11, <1>12
<1>14. wdesc' \in [WDescs' -> LayoutDescs]
  <2>1. \A e \in WDescs' : wdesc'[e] \in LayoutDescs
    BY <1>2, <1>11, <1>12, <1>13
  <2> QED BY <1>12, <1>13, <2>1
<1>15. ASSUME NEW k \in Layouts, wlayouts'[k] # None
       PROVE  wdesc'[wlayouts'[k]].id = k /\ k \in tracked'
  <2>1. wlayouts'[k] = wlayouts[k] /\ k \notin L
    BY <1>7, <1>15
  <2>2. wlayouts'[k] \in WDescs'
    BY <1>9, <1>10, <1>15
  <2>3. wdesc'[wlayouts'[k]] = wdesc[wlayouts[k]]
    BY <1>12, <1>13, <2>1, <2>2
  <2> QED BY <1>1, <1>2, <1>15, <2>1, <2>3 DEF L
<1>16. WriterTypes'
  <2>1. wlayouts' \in [Layouts -> Descs \cup {None}]
    BY <1>1, <1>2
  <2>2. wmaps' \in [Maps -> WriterMaps \cup {None}]
    BY <1>1, <1>2
  <2>3. \A n \in Maps : wmaps'[n] # None => n \in Live'
    BY <1>2, <1>7
  <2>4. tracked' \subseteq InUse'
    BY <1>1, <1>2
  <2> QED BY <1>14, <1>15, <2>1, <2>2, <2>3, <2>4 DEF WriterTypes
<1>17. \A d \in WDescs' : d \in WDescs /\ wdesc'[d] = wdesc[d]
  BY <1>11, <1>12, <1>13
<1> QED BY <1>1, <1>5, <1>6, <1>7, <1>16, <1>17 DEF L, M

-----------------------------------------------------------------------------
(* What the reader remembers. *)

\* The descriptors of the reader, now and after a step.
LEMMA ReaderDescs ==
  ReaderTypes =>
    /\ DOMAIN rdesc = RDescs /\ RDescs \subseteq Descs /\ None \notin RDescs
    /\ \A d \in RDescs : rdesc[d].id \in Layouts /\ rdesc[d].shape \in Shapes
                         /\ rdesc[d] = [id |-> rdesc[d].id, shape |-> rdesc[d].shape]
    /\ \A l \in Layouts : rlayouts[l] # None => rlayouts[l] \in RDescs
    /\ \A m \in Maps : rmaps[m] # None =>
         /\ rmaps[m].desc \in RDescs /\ rmaps[m].shape \in Shapes
         /\ rmaps[m].val \in Values \cup {None}
         /\ rmaps[m] = [desc |-> rmaps[m].desc, shape |-> rmaps[m].shape,
                        val |-> rmaps[m].val]
    /\ \A d : d \in RDescs <=> \/ \E l \in Layouts : d = rlayouts[l] /\ d # None
                               \/ \E m \in Maps : rmaps[m] # None /\ d = rmaps[m].desc
<1> SUFFICES ASSUME ReaderTypes
             PROVE  /\ DOMAIN rdesc = RDescs /\ RDescs \subseteq Descs /\ None \notin RDescs
                    /\ \A d \in RDescs : rdesc[d].id \in Layouts /\ rdesc[d].shape \in Shapes
                         /\ rdesc[d] = [id |-> rdesc[d].id, shape |-> rdesc[d].shape]
                    /\ \A l \in Layouts : rlayouts[l] # None => rlayouts[l] \in RDescs
                    /\ \A m \in Maps : rmaps[m] # None =>
                         /\ rmaps[m].desc \in RDescs /\ rmaps[m].shape \in Shapes
                         /\ rmaps[m].val \in Values \cup {None}
                         /\ rmaps[m] = [desc |-> rmaps[m].desc, shape |-> rmaps[m].shape,
                                        val |-> rmaps[m].val]
                    /\ \A d : d \in RDescs <=>
                         \/ \E l \in Layouts : d = rlayouts[l] /\ d # None
                         \/ \E m \in Maps : rmaps[m] # None /\ d = rmaps[m].desc
  OBVIOUS
<1>1. rdesc \in [RDescs -> LayoutCopies] /\ rlayouts \in [Layouts -> Descs \cup {None}]
      /\ rmaps \in [Maps -> ReaderMaps \cup {None}]
  BY DEF ReaderTypes
<1>2. \A m \in Maps : rmaps[m] # None =>
        /\ rmaps[m].desc \in Descs /\ rmaps[m].shape \in Shapes
        /\ rmaps[m].val \in Values \cup {None}
        /\ rmaps[m] = [desc |-> rmaps[m].desc, shape |-> rmaps[m].shape,
                       val |-> rmaps[m].val]
  BY <1>1 DEF ReaderMaps
<1>3. \A d : d \in RDescs <=>
        \/ \E l \in Layouts : d = rlayouts[l] /\ d # None
        \/ \E m \in Maps : rmaps[m] # None /\ d = rmaps[m].desc
  <2>1. \A d : d \in Referred(rlayouts, rmaps) <=>
          \/ \E l \in Layouts : d = rlayouts[l]
          \/ \E m \in Maps : rmaps[m] # None /\ d = rmaps[m].desc
    BY ReferredIs
  <2>2. \A m \in Maps : rmaps[m] # None => rmaps[m].desc # None
    BY <1>2, SyncAssumption
  <2>3. RDescs = Referred(rlayouts, rmaps) \ {None}
    BY DEF RDescs, DescsOf
  <2> HIDE <1>1, <1>2
  <2> QED BY <2>1, <2>2, <2>3
<1>4. RDescs \subseteq Descs /\ None \notin RDescs
  BY <1>1, <1>2, <1>3, SyncAssumption
<1>5. \A d \in RDescs : rdesc[d].id \in Layouts /\ rdesc[d].shape \in Shapes
        /\ rdesc[d] = [id |-> rdesc[d].id, shape |-> rdesc[d].shape]
  BY <1>1 DEF LayoutCopies
<1> QED BY <1>1, <1>2, <1>3, <1>4, <1>5

\* A table of descriptors at the reader without those that nothing refers to.
LEMMA ReaderCollects ==
  ASSUME NEW descs, rdesc' = Collect(descs, rlayouts', rmaps'),
         rlayouts' \in [Layouts -> Descs \cup {None}],
         rmaps' \in [Maps -> ReaderMaps \cup {None}],
         None \notin DOMAIN descs, RDescs' \subseteq DOMAIN descs,
         \A d \in DOMAIN descs : descs[d] \in LayoutCopies,
         \A l \in Layouts : rlayouts'[l] # None => descs[rlayouts'[l]].id = l
  PROVE  ReaderTypes' /\ \A d \in RDescs' : rdesc'[d] = descs[d]
<1>1. /\ DOMAIN rdesc' = DOMAIN descs \cap Referred(rlayouts', rmaps')
      /\ \A d \in DOMAIN rdesc' : rdesc'[d] = descs[d]
      /\ rdesc' = [d \in DOMAIN rdesc' |-> rdesc'[d]]
  BY DEF Collect
<1>2. RDescs' = Referred(rlayouts', rmaps') \ {None}
  BY DEF RDescs, DescsOf
<1>3. DOMAIN rdesc' = RDescs'
  BY <1>1, <1>2
<1>4. rdesc' \in [RDescs' -> LayoutCopies]
  BY <1>1, <1>3
<1>5. \A l \in Layouts : rlayouts'[l] # None => rlayouts'[l] \in RDescs'
  BY <1>2, ReferredIs
<1>6. \A l \in Layouts : rlayouts'[l] # None => rdesc'[rlayouts'[l]].id = l
  BY <1>1, <1>3, <1>5
<1> QED BY <1>1, <1>3, <1>4, <1>6 DEF ReaderTypes

\* What stands at the front of the stream.
LEMMA HeadIs ==
  ASSUME WriteTypes, stream # <<>>
  PROVE  /\ Head(stream) = stream[1] /\ Len(stream) \in Nat \ {0}
         /\ Head(stream) \in Commands
         /\ Head(stream).kind = "update" =>
              /\ Head(stream).id \in Maps /\ Head(stream).layout \in Layouts
              /\ Head(stream).has_layout \in BOOLEAN /\ Head(stream).state \in States
         /\ Head(stream).kind = "layout" => Head(stream).id \in Layouts
         /\ Head(stream).kind = "map" => Head(stream).id \in Maps
         /\ Head(stream).kind \in {"update", "layout", "map"}
<1>1. stream \in Seq(Commands)
  BY DEF WriteTypes
<1>2. Head(stream) = stream[1] /\ Len(stream) \in Nat \ {0} /\ Head(stream) \in Commands
  BY <1>1
<1> QED BY <1>2 DEF Commands

\* The reader is told that a layout is gone.
LEMMA LayoutRemoved ==
  ASSUME ReaderTypes, WriteTypes, RemoveLayout, NEW l, l = Head(stream).id
  PROVE  /\ ReaderTypes' /\ l \in Layouts /\ rmaps' = rmaps
         /\ rlayouts' = [rlayouts EXCEPT ![l] = None]
         /\ \A d \in RDescs' : d \in RDescs /\ rdesc'[d] = rdesc[d]
<1>1. /\ rlayouts' = [rlayouts EXCEPT ![l] = None] /\ rmaps' = rmaps
      /\ rdesc' = Collect(rdesc, rlayouts', rmaps')
      /\ l \in Layouts
  BY HeadIs DEF RemoveLayout, Take
<1>2. /\ rlayouts \in [Layouts -> Descs \cup {None}]
      /\ rmaps \in [Maps -> ReaderMaps \cup {None}]
      /\ rdesc \in [RDescs -> LayoutCopies]
      /\ \A k \in Layouts : rlayouts[k] # None => rdesc[rlayouts[k]].id = k
  BY DEF ReaderTypes
<1>3. /\ rlayouts' \in [Layouts -> Descs \cup {None}]
      /\ \A k \in Layouts : rlayouts'[k] = IF k = l THEN None ELSE rlayouts[k]
  BY <1>1, <1>2
<1>4. RDescs' \subseteq RDescs /\ DOMAIN rdesc = RDescs /\ None \notin RDescs
  <2>1. RDescs' = Referred(rlayouts', rmaps') \ {None}
    BY DEF RDescs, DescsOf
  <2>2. \A d : d \in Referred(rlayouts', rmaps') <=>
          \/ \E k \in Layouts : d = rlayouts'[k]
          \/ \E m \in Maps : rmaps'[m] # None /\ d = rmaps'[m].desc
    BY ReferredIs
  <2>3. /\ DOMAIN rdesc = RDescs /\ None \notin RDescs
        /\ \A d : d \in RDescs <=> \/ \E k \in Layouts : d = rlayouts[k] /\ d # None
                                   \/ \E m \in Maps : rmaps[m] # None /\ d = rmaps[m].desc
    BY ReaderDescs
  <2>4. ASSUME NEW d \in RDescs' PROVE d \in RDescs
    <3>1. CASE \E k \in Layouts : d = rlayouts'[k]
      BY <1>3, <2>1, <2>3, <2>4, <3>1
    <3>2. CASE \E m \in Maps : rmaps'[m] # None /\ d = rmaps'[m].desc
      BY <1>1, <2>3, <3>2
    <3> QED BY <2>1, <2>2, <2>4, <3>1, <3>2
  <2> QED BY <2>3, <2>4
<1>5. ReaderTypes' /\ \A d \in RDescs' : rdesc'[d] = rdesc[d]
  <2>1. rmaps' \in [Maps -> ReaderMaps \cup {None}]
    BY <1>1, <1>2
  <2>2. \A d \in DOMAIN rdesc : rdesc[d] \in LayoutCopies
    BY <1>2
  <2>3. \A k \in Layouts : rlayouts'[k] # None => rdesc[rlayouts'[k]].id = k
    BY <1>2, <1>3
  <2> QED BY <1>1, <1>3, <1>4, <2>1, <2>2, <2>3, ReaderCollects
<1> QED BY <1>1, <1>4, <1>5

\* The reader is told that a map is gone.
LEMMA MapRemoved ==
  ASSUME ReaderTypes, WriteTypes, RemoveProperties, NEW m, m = Head(stream).id
  PROVE  /\ ReaderTypes' /\ m \in Maps /\ rlayouts' = rlayouts
         /\ rmaps' = [rmaps EXCEPT ![m] = None]
         /\ \A d \in RDescs' : d \in RDescs /\ rdesc'[d] = rdesc[d]
<1>1. /\ rmaps' = [rmaps EXCEPT ![m] = None] /\ rlayouts' = rlayouts
      /\ rdesc' = Collect(rdesc, rlayouts', rmaps')
      /\ m \in Maps
  BY HeadIs DEF RemoveProperties, Take
<1>2. /\ rlayouts \in [Layouts -> Descs \cup {None}]
      /\ rmaps \in [Maps -> ReaderMaps \cup {None}]
      /\ rdesc \in [RDescs -> LayoutCopies]
      /\ \A k \in Layouts : rlayouts[k] # None => rdesc[rlayouts[k]].id = k
  BY DEF ReaderTypes
<1>3. /\ rmaps' \in [Maps -> ReaderMaps \cup {None}]
      /\ \A n \in Maps : rmaps'[n] = IF n = m THEN None ELSE rmaps[n]
  BY <1>1, <1>2
<1>4. RDescs' \subseteq RDescs /\ DOMAIN rdesc = RDescs /\ None \notin RDescs
  <2>1. RDescs' = Referred(rlayouts', rmaps') \ {None}
    BY DEF RDescs, DescsOf
  <2>2. \A d : d \in Referred(rlayouts', rmaps') <=>
          \/ \E k \in Layouts : d = rlayouts'[k]
          \/ \E n \in Maps : rmaps'[n] # None /\ d = rmaps'[n].desc
    BY ReferredIs
  <2>3. /\ DOMAIN rdesc = RDescs /\ None \notin RDescs
        /\ \A d : d \in RDescs <=> \/ \E k \in Layouts : d = rlayouts[k] /\ d # None
                                   \/ \E n \in Maps : rmaps[n] # None /\ d = rmaps[n].desc
    BY ReaderDescs
  <2>4. ASSUME NEW d \in RDescs' PROVE d \in RDescs
    <3>1. CASE \E k \in Layouts : d = rlayouts'[k]
      BY <1>1, <2>1, <2>3, <2>4, <3>1
    <3>2. CASE \E n \in Maps : rmaps'[n] # None /\ d = rmaps'[n].desc
      BY <1>3, <2>3, <3>2
    <3> QED BY <2>1, <2>2, <2>4, <3>1, <3>2
  <2> QED BY <2>3, <2>4
<1>5. ReaderTypes' /\ \A d \in RDescs' : rdesc'[d] = rdesc[d]
  <2>1. rlayouts' \in [Layouts -> Descs \cup {None}]
        /\ \A k \in Layouts : rlayouts'[k] # None => rdesc[rlayouts'[k]].id = k
    BY <1>1, <1>2
  <2>2. \A d \in DOMAIN rdesc : rdesc[d] \in LayoutCopies
    BY <1>2
  <2> QED BY <1>1, <1>3, <1>4, <2>1, <2>2, ReaderCollects
<1> QED BY <1>1, <1>4, <1>5

\* The reader reads an update: the map keeps its layout and gets new data; or no
\* layout is found; or the map gets the layout of the table, which an update that
\* travels with its layout has put there; or it would have got it, but was not there
\* and did not take the buffer.
Kept(c) ==
  /\ KeepsLayout(c) /\ UNCHANGED <<rdesc, rlayouts>>
  /\ rmaps[c.id] # None
  /\ rmaps' = [rmaps EXCEPT ![c.id] = [desc |-> rmaps[c.id].desc, shape |-> rmaps[c.id].shape,
                                       val |-> Decode(c, rmaps[c.id].shape)]]
Refused(c) ==
  ~KeepsLayout(c) /\ ~c.has_layout /\ rlayouts[c.layout] = None /\ UNCHANGED reader
Laid(c, d) ==
  /\ ~KeepsLayout(c) /\ d \in Descs /\ d \in RDescs'
  /\ rlayouts' = [rlayouts EXCEPT ![c.layout] = d]
  /\ rlayouts[c.layout] # None => d = rlayouts[c.layout]
  /\ rlayouts[c.layout] = None => c.has_layout /\ d \notin RDescs
  /\ rdesc'[d].id = c.layout
  /\ c.has_layout => rdesc'[d].shape = c.state.shape
  /\ ~c.has_layout => d \in RDescs /\ rdesc'[d] = rdesc[d]
  /\ \A e \in RDescs' : e # d => e \in RDescs /\ rdesc'[e] = rdesc[e]
Relaid(c, d) ==
  /\ Laid(c, d)
  /\ rmaps' = [rmaps EXCEPT ![c.id] = [desc |-> d, shape |-> rdesc'[d].shape,
                                       val |-> Decode(c, rdesc'[d].shape)]]
  /\ rmaps[c.id] = None /\ rdesc'[d].shape = c.state.shape => c.state.val \notin Sparse
Dropped(c, d) ==
  /\ Laid(c, d)
  /\ rmaps' = rmaps /\ rmaps[c.id] = None
  /\ Decode(c, rdesc'[d].shape) = None
\* The layout the update was read with was the one it was written with, or not.
Judged(c, found) ==
  misread' = IF found = c.state.shape THEN misread \ {c.id} ELSE misread \cup {c.id}

\* An update is read: one of the four happens.
LEMMA ReadIs ==
  ASSUME ReaderTypes, WriteTypes, Read, NEW c, c = Head(stream)
  PROVE  /\ ReaderTypes'
         /\ \/ Kept(c) /\ Judged(c, rmaps[c.id].shape)
            \/ Refused(c) /\ Judged(c, None)
            \/ \E d : (Relaid(c, d) \/ Dropped(c, d)) /\ Judged(c, rdesc'[d].shape)
<1> DEFINE t == rlayouts[c.layout]
           d == IF t = None THEN NewDesc(rdesc) ELSE t
           v == [id |-> c.layout, shape |-> c.state.shape]
           descs == IF c.has_layout THEN With(rdesc, d, v) ELSE rdesc
           found == IF KeepsLayout(c) THEN rmaps[c.id].shape
                    ELSE IF d \in DOMAIN descs THEN descs[d].shape ELSE None
           w == [desc |-> d, shape |-> found, val |-> Decode(c, found)]
<1>1. /\ c.id \in Maps /\ c.layout \in Layouts /\ c.has_layout \in BOOLEAN
      /\ c.state \in States
  BY HeadIs DEF Read, Take
<1>2. c.state.shape \in Shapes /\ c.state.val \in Values
  BY <1>1 DEF States
<1>3. /\ rlayouts \in [Layouts -> Descs \cup {None}]
      /\ rmaps \in [Maps -> ReaderMaps \cup {None}]
      /\ rdesc \in [RDescs -> LayoutCopies]
      /\ \A k \in Layouts : rlayouts[k] # None => rdesc[rlayouts[k]].id = k
  BY DEF ReaderTypes
<1>4. /\ DOMAIN rdesc = RDescs /\ RDescs \subseteq Descs /\ None \notin RDescs
      /\ \A l \in Layouts : rlayouts[l] # None => rlayouts[l] \in RDescs
      /\ \A m \in Maps : rmaps[m] # None =>
           /\ rmaps[m].desc \in RDescs /\ rmaps[m].shape \in Shapes
           /\ rmaps[m].val \in Values \cup {None}
           /\ rmaps[m] = [desc |-> rmaps[m].desc, shape |-> rmaps[m].shape,
                          val |-> rmaps[m].val]
      /\ \A e : e \in RDescs <=> \/ \E l \in Layouts : e = rlayouts[l] /\ e # None
                                 \/ \E m \in Maps : rmaps[m] # None /\ e = rmaps[m].desc
  BY ReaderDescs
<1>5. /\ IF KeepsLayout(c)
         THEN /\ rmaps' = [rmaps EXCEPT ![c.id].val = Decode(c, found)]
              /\ UNCHANGED <<rdesc, rlayouts>>
         ELSE IF d \in DOMAIN descs
         THEN /\ rlayouts' = [rlayouts EXCEPT ![c.layout] = d]
              /\ \E copy \in Entered(c, w) : rmaps' = [rmaps EXCEPT ![c.id] = copy]
              /\ rdesc' = Collect(descs, rlayouts', rmaps')
         ELSE UNCHANGED reader
      /\ Judged(c, found)
  BY DEF Read, Judged
<1> HIDE DEF t, d, v, descs
<1>6. /\ d \in Descs
      /\ t = None => d \notin RDescs
      /\ t # None => d = t /\ d \in RDescs
  <2>1. CASE t = None
    <3>1. \A m \in Maps : rmaps[m] # None => rmaps[m].desc \in Descs
      BY <1>4
    <3>2. Descs \ DescsOf(rlayouts, rmaps) # {}
      BY <1>1, <1>3, <2>1, <3>1, EnoughDescs DEF t
    <3>3. d = NewDesc(rdesc) /\ Descs \ DOMAIN rdesc # {}
      BY <1>4, <2>1, <3>2 DEF d, RDescs
    <3> QED BY <1>4, <2>1, <3>3 DEF NewDesc
  <2>2. CASE t # None
    BY <1>1, <1>4, <2>2 DEF t, d
  <2> QED BY <2>1, <2>2
<1>7. ASSUME NEW s \in Shapes PROVE Decode(c, s) \in Values \cup {None}
  BY <1>2 DEF Decode
<1>8. CASE KeepsLayout(c)
  <2>0. found = rmaps[c.id].shape
    BY <1>8
  <2> HIDE DEF found, w
  <2>1. rmaps[c.id] # None
    BY <1>8 DEF KeepsLayout
  <2>2. [rmaps[c.id] EXCEPT !.val = Decode(c, rmaps[c.id].shape)]
          = [desc |-> rmaps[c.id].desc, shape |-> rmaps[c.id].shape,
             val |-> Decode(c, rmaps[c.id].shape)]
    <3> DEFINE r == rmaps[c.id]  x == Decode(c, rmaps[c.id].shape)
    <3>1. r = [desc |-> r.desc, shape |-> r.shape, val |-> r.val]
      BY <1>1, <1>4, <2>1
    <3> HIDE DEF r, x
    <3>2. [r EXCEPT !.val = x] = [desc |-> r.desc, shape |-> r.shape, val |-> x]
      BY <3>1
    <3> QED BY <3>2 DEF r, x
  <2>3. rmaps' = [rmaps EXCEPT ![c.id] = [rmaps[c.id] EXCEPT
                                            !.val = Decode(c, rmaps[c.id].shape)]]
    BY <1>5, <1>8, <2>0
  <2>4. Kept(c)
    BY <1>5, <1>8, <2>1, <2>2, <2>3 DEF Kept
  <2>5. [desc |-> rmaps[c.id].desc, shape |-> rmaps[c.id].shape,
         val |-> Decode(c, rmaps[c.id].shape)] \in ReaderMaps
    BY <1>1, <1>4, <1>7, <2>1 DEF ReaderMaps
  <2>6. rmaps' \in [Maps -> ReaderMaps \cup {None}]
    BY <1>1, <1>3, <2>2, <2>3, <2>5
  <2>7. RDescs' = RDescs
    <3>1. \A m \in Maps : /\ rmaps'[m] # None <=> rmaps[m] # None
                          /\ rmaps[m] # None => rmaps'[m].desc = rmaps[m].desc
      BY <1>1, <1>3, <2>1, <2>2, <2>3, <2>5, SyncAssumption
    <3>2. Referred(rlayouts', rmaps') = Referred(rlayouts, rmaps)
      BY <1>5, <1>8, <3>1 DEF Referred
    <3> QED BY <3>2 DEF RDescs, DescsOf
  <2>8. ReaderTypes'
    BY <1>3, <1>5, <1>8, <2>6, <2>7 DEF ReaderTypes
  <2> QED BY <1>5, <2>0, <2>4, <2>8
<1>9. CASE ~KeepsLayout(c) /\ d \notin DOMAIN descs
  <2>0. found = None
    BY <1>9
  <2> HIDE DEF found, w
  <2>1. UNCHANGED reader
    BY <1>5, <1>9
  <2>2. ~c.has_layout
    BY <1>9 DEF descs, With
  <2>3. t = None
    BY <1>4, <1>6, <1>9, <2>2 DEF descs
  <2>4. ReaderTypes'
    BY <2>1 DEF reader, ReaderTypes, RDescs, DescsOf
  <2> QED BY <1>5, <1>9, <2>0, <2>1, <2>2, <2>3, <2>4 DEF Refused, t
<1>10. CASE ~KeepsLayout(c) /\ d \in DOMAIN descs
  <2>0. found = descs[d].shape
    BY <1>10
  <2> HIDE DEF found
  <2>1. /\ rlayouts' = [rlayouts EXCEPT ![c.layout] = d]
        /\ \E copy \in Entered(c, w) : rmaps' = [rmaps EXCEPT ![c.id] = copy]
        /\ rdesc' = Collect(descs, rlayouts', rmaps')
    BY <1>5, <1>10
  <2>2. /\ DOMAIN descs = RDescs \cup {d}
        /\ c.has_layout => descs[d] = v
        /\ ~c.has_layout => d \in RDescs /\ descs[d] = rdesc[d]
        /\ \A e \in RDescs : e # d => descs[e] = rdesc[e]
    <3>1. CASE c.has_layout
      <4>1. descs = With(rdesc, d, v)
        BY <3>1 DEF descs
      <4> QED BY <1>4, <3>1, <4>1 DEF With
    <3>2. CASE ~c.has_layout
      <4>1. descs = rdesc
        BY <3>2 DEF descs
      <4> QED BY <1>4, <1>10, <3>2, <4>1
    <3> QED BY <3>1, <3>2
  <2>3. descs[d].id = c.layout /\ descs[d] \in LayoutCopies
    <3>1. CASE c.has_layout
      BY <1>1, <1>2, <2>2, <3>1 DEF v, LayoutCopies
    <3>2. CASE ~c.has_layout
      <4>1. d = rlayouts[c.layout] /\ rlayouts[c.layout] # None
        BY <1>6, <2>2, <3>2 DEF t
      <4> QED BY <1>1, <1>3, <2>2, <3>2, <4>1
    <3> QED BY <1>1, <3>1, <3>2
  <2>4. \A e \in DOMAIN descs : descs[e] \in LayoutCopies
    BY <1>3, <2>2, <2>3
  <2>5. /\ rlayouts' \in [Layouts -> Descs \cup {None}]
        /\ \A k \in Layouts : rlayouts'[k] = IF k = c.layout THEN d ELSE rlayouts[k]
    BY <1>1, <1>3, <1>6, <2>1
  <2>6. ASSUME NEW k \in Layouts, rlayouts'[k] # None PROVE descs[rlayouts'[k]].id = k
    <3>1. CASE k = c.layout
      BY <2>3, <2>5, <3>1
    <3>2. CASE k # c.layout
      <4>1. rlayouts[k] # None /\ rlayouts'[k] = rlayouts[k] /\ rlayouts[k] \in RDescs
        BY <1>4, <2>5, <2>6, <3>2
      <4>2. rlayouts[k] # d
        BY <1>1, <1>3, <1>6, <3>2, <4>1 DEF t
      <4> QED BY <1>3, <2>2, <4>1, <4>2
    <3> QED BY <3>1, <3>2
  <2>7. found \in Shapes
    BY <2>0, <2>3 DEF LayoutCopies
  <2>8. w \in ReaderMaps /\ w.desc = d /\ w.shape = found /\ w.val = Decode(c, found)
    BY <1>6, <1>7, <2>7 DEF ReaderMaps
  <2>9. PICK copy \in {None, w} :
          /\ rmaps' = [rmaps EXCEPT ![c.id] = copy]
          /\ copy = w => rmaps[c.id] # None \/ Decode(c, found) # None
                         \/ found # c.state.shape
          /\ copy = None => rmaps[c.id] = None /\ Decode(c, found) = None
    <3>1. PICK copy \in Entered(c, w) : rmaps' = [rmaps EXCEPT ![c.id] = copy]
      BY <2>1
    <3>2. w # None
      BY <2>8, SyncAssumption
    <3> HIDE DEF w
    <3>3. CASE rmaps[c.id] # None \/ w.val # None
      BY <2>8, <3>1, <3>2, <3>3 DEF Entered
    <3>4. CASE ~(rmaps[c.id] # None \/ w.val # None)
      BY <2>8, <3>1, <3>2, <3>4 DEF Entered
    <3> QED BY <3>3, <3>4
  <2> HIDE DEF w
  <2>10. /\ rmaps' \in [Maps -> ReaderMaps \cup {None}]
         /\ \A m \in Maps : m # c.id => rmaps'[m] = rmaps[m]
         /\ rmaps'[c.id] # None => rmaps'[c.id].desc = d
    BY <1>1, <1>3, <2>8, <2>9
  <2>11. RDescs' \subseteq DOMAIN descs
    <3>1. RDescs' = Referred(rlayouts', rmaps') \ {None}
      BY DEF RDescs, DescsOf
    <3>2. \A e : e \in Referred(rlayouts', rmaps') <=>
            \/ \E k \in Layouts : e = rlayouts'[k]
            \/ \E n \in Maps : rmaps'[n] # None /\ e = rmaps'[n].desc
      BY ReferredIs
    <3>3. ASSUME NEW e \in RDescs', e # d PROVE e \in RDescs
      <4>1. CASE \E k \in Layouts : e = rlayouts'[k]
        BY <1>4, <2>5, <3>1, <3>3, <4>1
      <4>2. CASE \E n \in Maps : rmaps'[n] # None /\ e = rmaps'[n].desc
        BY <1>4, <2>10, <3>3, <4>2
      <4> QED BY <3>1, <3>2, <3>3, <4>1, <4>2
    <3> QED BY <2>2, <3>3
  <2>12. ReaderTypes' /\ \A e \in RDescs' : rdesc'[e] = descs[e]
    <3>1. None \notin DOMAIN descs
      BY <1>4, <1>6, <2>2, SyncAssumption
    <3> QED BY <2>1, <2>4, <2>5, <2>6, <2>10, <2>11, <3>1, ReaderCollects
  <2>13. d \in RDescs'
    <3>1. d \in Referred(rlayouts', rmaps')
      BY <1>1, <2>5, ReferredIs
    <3> QED BY <1>6, <3>1, SyncAssumption DEF RDescs, DescsOf
  <2>14. rdesc'[d] = descs[d]
    BY <2>12, <2>13
  <2>15. ASSUME NEW e \in RDescs', e # d PROVE e \in RDescs /\ rdesc'[e] = rdesc[e]
    BY <2>2, <2>11, <2>12, <2>15
  <2>16. /\ rlayouts[c.layout] # None => d = rlayouts[c.layout]
         /\ rlayouts[c.layout] = None => c.has_layout /\ d \notin RDescs
    BY <1>6, <2>2 DEF t
  <2>17. c.has_layout => rdesc'[d].shape = c.state.shape
    BY <2>2, <2>14 DEF v
  <2>18. Laid(c, d) /\ found = rdesc'[d].shape
    BY <1>6, <1>10, <2>0, <2>1, <2>2, <2>3, <2>13, <2>14, <2>15, <2>16, <2>17 DEF Laid
  <2>19. CASE copy = w
    <3>1. rmaps[c.id] = None /\ found = c.state.shape => c.state.val \notin Sparse
      BY <2>9, <2>19 DEF Decode
    <3>2. Relaid(c, d)
      BY <2>9, <2>18, <2>19, <3>1 DEF Relaid, w
    <3> QED BY <1>5, <2>12, <2>18, <3>2
  <2>20. CASE copy = None
    <3>1. rmaps' = rmaps
      BY <1>3, <2>9, <2>20
    <3>2. Dropped(c, d)
      BY <2>9, <2>18, <2>20, <3>1 DEF Dropped
    <3> QED BY <1>5, <2>12, <2>18, <3>2
  <2> QED BY <2>9, <2>19, <2>20
<1> QED BY <1>8, <1>9, <1>10

-----------------------------------------------------------------------------
(* Types. *)

Types == SourceTypes /\ WriterTypes /\ ReaderTypes /\ WriteTypes

\* A map is put into the update list.
LEMMA AddIs ==
  ASSUME WriteTypes, NEW m \in Maps, AddToList(m)
  PROVE  /\ first' \in Maps \cup {None} /\ last' \in Maps \cup {None}
         /\ next' \in [Maps -> Maps \cup {None}]
<1>1. /\ first \in Maps \cup {None} /\ last \in Maps \cup {None}
      /\ next \in [Maps -> Maps \cup {None}]
  BY DEF WriteTypes
<1>2. CASE last = None
  BY <1>1, <1>2 DEF AddToList
<1>3. CASE last # None
  <2>1. /\ next' = [[next EXCEPT ![m] = None] EXCEPT ![last] = m]
        /\ UNCHANGED <<first, last>>
    BY <1>3 DEF AddToList
  <2> QED BY <1>1, <2>1
<1> QED BY <1>2, <1>3

\* A map that lives and has changed is told to the update list.
LEMMA OnUpdateIs ==
  ASSUME WriteTypes, NEW m \in Live, OnUpdate(m)
  PROVE  /\ first' \in Maps \cup {None} /\ last' \in Maps \cup {None}
         /\ next' \in [Maps -> Maps \cup {None}]
         /\ dirty' = dirty \cup {m}
<1>1. m \in Maps
  BY DEF Live
<1>2. CASE m \in dirty
  BY <1>2 DEF OnUpdate, list, WriteTypes
<1>3. CASE m \notin dirty
  BY <1>1, <1>3, AddIs DEF OnUpdate
<1> QED BY <1>2, <1>3

\* The commands of Write.
LEMMA UpdateIsCommand ==
  ASSUME SourceTypes, NEW m \in Live
  PROVE  [kind |-> "update", id |-> m, layout |-> lay[m], has_layout |-> HasLayout(m),
          state |-> Hash(m)] \in Commands
<1>1. /\ m \in Maps /\ lay[m] \in Layouts /\ Hash(m) \in States
  BY LiveIs
<1>2. HasLayout(m) \in BOOLEAN
  BY DEF HasLayout
<1> QED BY <1>1, <1>2 DEF Commands

\* Write comes to a map that lives.
LEMMA CurLives ==
  ASSUME ListShape, WriteTypes, pc = "updates", cur # None
  PROVE  cur \in Live /\ cur \in dirty /\ cur \in Listed
BY DEF ListShape, WriteTypes, Chain

\* The steps that change no map leave the rest of what is said of maps alone.
LEMMA SourceSame ==
  ASSUME UNCHANGED source
  PROVE  /\ Live' = Live /\ InUse' = InUse /\ \A m : Hash(m)' = Hash(m)
         /\ (SourceTypes => SourceTypes')
<1>1. Live' = Live /\ InUse' = InUse
  BY DEF source, Live, InUse
<1>2. \A m : Hash(m)' = Hash(m)
  BY DEF source, Hash
<1>3. SourceTypes => SourceTypes'
  BY <1>1 DEF source, SourceTypes
<1> QED BY <1>1, <1>2, <1>3

\* The steps that leave the writer alone keep what it remembers.
LEMMA WriterSame ==
  ASSUME UNCHANGED <<source, writer>>
  PROVE  WDescs' = WDescs /\ (WriterTypes => WriterTypes')
<1>1. Live' = Live /\ InUse' = InUse
  BY SourceSame
<1>2. UNCHANGED <<wdesc, wlayouts, wmaps, tracked>>
  BY DEF writer
<1>3. WDescs' = WDescs
  BY <1>2 DEF WDescs, DescsOf, Referred
<1> QED BY <1>1, <1>2, <1>3 DEF WriterTypes

\* The steps that leave the reader alone keep what it remembers.
LEMMA ReaderSame ==
  ASSUME UNCHANGED reader
  PROVE  RDescs' = RDescs /\ (ReaderTypes => ReaderTypes')
<1>1. UNCHANGED <<rdesc, rlayouts, rmaps>>
  BY DEF reader
<1>2. RDescs' = RDescs
  BY <1>1 DEF RDescs, DescsOf, Referred
<1> QED BY <1>1, <1>2 DEF ReaderTypes

\* What happens to maps keeps the types.
LEMMA ChangesTyped ==
  ASSUME Types, NEW m \in Maps,
         \/ \E v \in Values : SetProperty(m, v)
         \/ \E l \in Layouts, s \in Shapes, v \in Values :
              CreateSynchronizer(m, l, s, v) \/ ChangeLayout(m, l, s, v) \/ Reset(m, l, s, v)
         \/ DestroyMap(m)
  PROVE  Types'
<1> USE DEF Types
<1>0. /\ dirty \subseteq Live /\ unsent \subseteq Maps
      /\ first \in Maps \cup {None} /\ last \in Maps \cup {None} /\ cur \in Maps \cup {None}
      /\ next \in [Maps -> Maps \cup {None}]
      /\ layout_remove_list \in Seq(Layouts) /\ map_remove_list \in Seq(Maps)
      /\ pc \in {"idle", "removals", "updates"} /\ faults \in Nat
      /\ stream \in Seq(Commands)
      /\ mistaken \subseteq Layouts /\ misread \subseteq Maps
  BY DEF WriteTypes
<1>1. ASSUME Changing
      PROVE  /\ ReaderTypes' /\ UNCHANGED <<pc, cur, faults, stream, mistaken, misread>>
             /\ cur' \in Maps \cup {None} /\ pc' \in {"idle", "removals", "updates"}
             /\ faults' \in Nat /\ stream' \in Seq(Commands) /\ mistaken' \subseteq Layouts
             /\ misread' \subseteq Maps
  BY <1>0, <1>1, ReaderSame DEF Changing, loop
<1>2. ASSUME NEW v \in Values, SetProperty(m, v) PROVE Types'
  <2>1. Changing /\ m \in Live /\ OnUpdate(m) /\ UNCHANGED <<writer, removes, unsent>>
    BY <1>2 DEF SetProperty
  <2>2. SourceTypes' /\ InUse' = InUse /\ Live' = Live
    BY <1>2, SourceSet
  <2>3. WriterTypes'
    BY <2>1, <2>2 DEF WriterTypes, writer, WDescs, DescsOf, Referred
  <2>4. WriteTypes'
    BY <1>0, <1>1, <2>1, <2>2, OnUpdateIs DEF WriteTypes, removes
  <2> QED BY <1>1, <2>1, <2>2, <2>3, <2>4
<1>3. ASSUME NEW l \in Layouts, NEW s \in Shapes, NEW v \in Values, ChangeLayout(m, l, s, v)
      PROVE  Types'
  <2>1. Changing /\ m \in Live /\ OnUpdate(m) /\ UNCHANGED <<writer, removes, unsent>>
    BY <1>3 DEF ChangeLayout
  <2>2. SourceTypes' /\ InUse' = InUse \cup {l} /\ Live' = Live
    BY <1>3, SourceRelaid
  <2>3. WriterTypes'
    BY <2>1, <2>2 DEF WriterTypes, writer, WDescs, DescsOf, Referred
  <2>4. WriteTypes'
    BY <1>0, <1>1, <2>1, <2>2, OnUpdateIs DEF WriteTypes, removes
  <2> QED BY <1>1, <2>1, <2>2, <2>3, <2>4
<1>4. ASSUME NEW l \in Layouts, NEW s \in Shapes, NEW v \in Values,
             CreateSynchronizer(m, l, s, v)
      PROVE  Types'
  <2>1. /\ Changing /\ AddToList(m) /\ dirty' = dirty \cup {m}
        /\ UNCHANGED <<writer, removes, unsent>>
    BY <1>4 DEF CreateSynchronizer
  <2>2. SourceTypes' /\ InUse' = InUse \cup {l} /\ Live' = Live \cup {m}
    BY <1>4, SourceCreated
  <2>3. WriterTypes'
    BY <2>1, <2>2 DEF WriterTypes, writer, WDescs, DescsOf, Referred
  <2>4. WriteTypes'
    BY <1>0, <1>1, <2>1, <2>2, AddIs DEF WriteTypes, removes
  <2> QED BY <1>1, <2>1, <2>2, <2>3, <2>4
<1>5. ASSUME NEW l \in Layouts, NEW s \in Shapes, NEW v \in Values, Reset(m, l, s, v)
      PROVE  Types'
  <2>1. /\ Changing /\ OnUpdate(m) /\ m \in Live /\ Forget(Own(m), {}) /\ UNCHANGED unsent
    BY <1>5 DEF Reset
  <2>2. SourceTypes' /\ InUse' = (InUse \ Own(m)) \cup {l} /\ Live' = Live
    BY <1>5, SourceReset
  <2>3. Own(m) \subseteq Layouts
    BY DEF Own
  <2>4. /\ WriterTypes' /\ layout_remove_list' \in Seq(Layouts)
        /\ map_remove_list' \in Seq(Maps)
    BY <2>1, <2>2, <2>3, Forgotten
  <2>5. WriteTypes'
    BY <1>0, <1>1, <2>1, <2>2, <2>4, OnUpdateIs DEF WriteTypes
  <2> QED BY <1>1, <2>1, <2>2, <2>4, <2>5
<1>6. ASSUME DestroyMap(m) PROVE Types'
  <2>1. /\ Changing /\ Forget(Own(m), {m}) /\ dirty' = dirty \ {m} /\ unsent' = unsent \ {m}
        /\ UNCHANGED <<first, last, next>>
    BY <1>6 DEF DestroyMap
  <2>2. SourceTypes' /\ InUse' = InUse \ Own(m) /\ Live' = Live \ {m}
    BY <1>6, SourceDestroyed
  <2>3. Own(m) \subseteq Layouts
    BY DEF Own
  <2>4. /\ WriterTypes' /\ layout_remove_list' \in Seq(Layouts)
        /\ map_remove_list' \in Seq(Maps)
    BY <2>1, <2>2, <2>3, Forgotten
  <2>5. WriteTypes'
    BY <1>0, <1>1, <2>1, <2>2, <2>4 DEF WriteTypes
  <2> QED BY <1>1, <2>1, <2>2, <2>4, <2>5
<1> QED BY <1>2, <1>3, <1>4, <1>5, <1>6

\* A command is written.
LEMMA Emitted ==
  ASSUME WriteTypes, NEW c \in Commands, Emit(c)
  PROVE  /\ stream' \in Seq(Commands) /\ Len(stream) \in Nat /\ Len(stream') = Len(stream) + 1
         /\ stream'[Len(stream) + 1] = c
         /\ \A i \in 1..Len(stream) : stream'[i] = stream[i]
<1>1. stream \in Seq(Commands) /\ stream' = Append(stream, c)
  BY DEF WriteTypes, Emit
<1> QED BY <1>1, AppendIs

\* A command is read.
LEMMA Taking ==
  ASSUME WriteTypes, NEW kind, Take(kind)
  PROVE  /\ stream' \in Seq(Commands) /\ Len(stream) \in Nat \ {0}
         /\ Len(stream') = Len(stream) - 1 /\ stream # <<>>
         /\ Head(stream) = stream[1] /\ stream[1].kind = kind
         /\ \A i \in 1..Len(stream) - 1 : stream'[i] = stream[i + 1]
<1>1. /\ stream \in Seq(Commands) /\ stream # <<>> /\ stream' = Tail(stream)
      /\ Head(stream).kind = kind
  BY DEF WriteTypes, Take
<1> QED BY <1>1, TailIs

\* Every step keeps the types.
LEMMA TypesStep == Types /\ ListShape /\ [Next]_vars => Types'
<1> SUFFICES ASSUME Types, ListShape, [Next]_vars PROVE Types'
  OBVIOUS
<1> USE DEF Types
<1>0. /\ dirty \subseteq Live /\ unsent \subseteq Maps
      /\ first \in Maps \cup {None} /\ last \in Maps \cup {None} /\ cur \in Maps \cup {None}
      /\ next \in [Maps -> Maps \cup {None}]
      /\ layout_remove_list \in Seq(Layouts) /\ map_remove_list \in Seq(Maps)
      /\ pc \in {"idle", "removals", "updates"} /\ faults \in Nat
      /\ stream \in Seq(Commands)
      /\ mistaken \subseteq Layouts /\ misread \subseteq Maps
  BY DEF WriteTypes
<1>1. ASSUME NEW m \in Maps,
             \/ \E v \in Values : SetProperty(m, v)
             \/ \E l \in Layouts, s \in Shapes, v \in Values :
                  CreateSynchronizer(m, l, s, v) \/ ChangeLayout(m, l, s, v) \/ Reset(m, l, s, v)
             \/ DestroyMap(m)
      PROVE  Types'
  BY <1>1, ChangesTyped
<1>2. CASE BeginWrite \/ BeginUpdates \/ EndWrite
  <2>1. UNCHANGED <<source, writer, reader, removes, stream, unsent, mistaken, misread, dirty,
                    next, faults>>
    BY <1>2 DEF BeginWrite, BeginUpdates, EndWrite, list
  <2>2. SourceTypes' /\ WriterTypes' /\ ReaderTypes' /\ Live' = Live
    BY <2>1, SourceSame, WriterSame, ReaderSame
  <2>3. /\ first' \in Maps \cup {None} /\ last' \in Maps \cup {None}
        /\ cur' \in Maps \cup {None} /\ pc' \in {"idle", "removals", "updates"}
    BY <1>0, <1>2 DEF BeginWrite, BeginUpdates, EndWrite, list
  <2>4. WriteTypes'
    BY <1>0, <2>1, <2>2, <2>3 DEF WriteTypes, removes
  <2> QED BY <2>2, <2>4
<1>3. CASE RemoveLayoutCommand
  <2>1. /\ UNCHANGED <<source, writer, list, map_remove_list, loop, reader, unsent, mistaken,
                       misread>>
        /\ layout_remove_list' = Tail(layout_remove_list) /\ layout_remove_list # <<>>
        /\ Emit([kind |-> "layout", id |-> Head(layout_remove_list)])
    BY <1>3 DEF RemoveLayoutCommand
  <2>2. SourceTypes' /\ WriterTypes' /\ ReaderTypes' /\ Live' = Live
    BY <2>1, SourceSame, WriterSame, ReaderSame
  <2>3. /\ layout_remove_list' \in Seq(Layouts) /\ Head(layout_remove_list) \in Layouts
    BY <1>0, <2>1
  <2>4. [kind |-> "layout", id |-> Head(layout_remove_list)] \in Commands
    BY <2>3 DEF Commands
  <2>5. stream' \in Seq(Commands)
    BY <2>1, <2>4, Emitted
  <2>6. WriteTypes'
    BY <1>0, <2>1, <2>2, <2>3, <2>5 DEF WriteTypes, list, loop
  <2> QED BY <2>2, <2>6
<1>4. CASE RemoveMapCommand
  <2>1. /\ UNCHANGED <<source, writer, list, layout_remove_list, loop, reader, unsent, mistaken,
                       misread>>
        /\ map_remove_list' = Tail(map_remove_list) /\ map_remove_list # <<>>
        /\ Emit([kind |-> "map", id |-> Head(map_remove_list)])
    BY <1>4 DEF RemoveMapCommand
  <2>2. SourceTypes' /\ WriterTypes' /\ ReaderTypes' /\ Live' = Live
    BY <2>1, SourceSame, WriterSame, ReaderSame
  <2>3. /\ map_remove_list' \in Seq(Maps) /\ Head(map_remove_list) \in Maps
    BY <1>0, <2>1
  <2>4. [kind |-> "map", id |-> Head(map_remove_list)] \in Commands
    BY <2>3 DEF Commands
  <2>5. stream' \in Seq(Commands)
    BY <2>1, <2>4, Emitted
  <2>6. WriteTypes'
    BY <1>0, <2>1, <2>2, <2>3, <2>5 DEF WriteTypes, list, loop
  <2> QED BY <2>2, <2>6
<1>5. CASE WriteUpdate
  <2> DEFINE c == [kind |-> "update", id |-> cur, layout |-> lay[cur],
                   has_layout |-> HasLayout(cur), state |-> Hash(cur)]
  <2>1. /\ pc = "updates" /\ cur # None /\ Emit(c) /\ Remember(cur) /\ cur' = next[cur]
        /\ dirty' = dirty \ {cur} /\ unsent' = unsent \ {cur}
        /\ mistaken' = IF Mistaken(cur) THEN mistaken \cup {lay[cur]} ELSE mistaken
        /\ UNCHANGED <<source, first, last, next, removes, pc, faults, reader, misread>>
    BY <1>5 DEF WriteUpdate
  <2>2. cur \in Live /\ cur \in Maps
    BY <2>1, CurLives DEF Live
  <2>3. c \in Commands
    BY <2>2, UpdateIsCommand
  <2> HIDE DEF c
  <2>4. stream' \in Seq(Commands)
    BY <2>1, <2>3, Emitted
  <2>5. SourceTypes' /\ ReaderTypes' /\ Live' = Live
    BY <2>1, SourceSame, ReaderSame
  <2>6. WriterTypes' /\ lay[cur] \in Layouts
    <3>1. /\ wmaps' = [wmaps EXCEPT ![cur] = [desc |-> DescFor(cur), hash |-> Hash(cur)]]
          /\ RememberLayout(cur) /\ UNCHANGED lay
      BY <2>1 DEF Remember, source
    <3> QED BY <2>2, <3>1, Remembered
  <2>7. mistaken' \subseteq Layouts
    BY <1>0, <2>1, <2>6
  <2>8. cur' \in Maps \cup {None}
    BY <1>0, <2>1, <2>2
  <2>9. WriteTypes'
    BY <1>0, <2>1, <2>4, <2>5, <2>7, <2>8 DEF WriteTypes, removes
  <2> QED BY <2>5, <2>6, <2>9
<1>6. CASE SkipUpdate
  <2>1. /\ pc = "updates" /\ cur # None /\ cur' = next[cur]
        /\ dirty' = dirty \ {cur} /\ unsent' = unsent \ {cur}
        /\ UNCHANGED <<source, writer, first, last, next, removes, pc, faults, stream, reader,
                       mistaken, misread>>
    BY <1>6 DEF SkipUpdate
  <2>2. SourceTypes' /\ WriterTypes' /\ ReaderTypes' /\ Live' = Live
    BY <2>1, SourceSame, WriterSame, ReaderSame
  <2>3. cur' \in Maps \cup {None}
    BY <1>0, <2>1
  <2>4. WriteTypes'
    BY <1>0, <2>1, <2>2, <2>3 DEF WriteTypes, removes
  <2> QED BY <2>2, <2>4
<1>7. CASE WriteFails
  <2>1. /\ faults' = faults + 1 /\ pc' = "idle" /\ cur' = None
        /\ UNCHANGED <<source, removes, stream, reader, misread>>
    BY <1>7 DEF WriteFails
  <2>2. SourceTypes' /\ ReaderTypes' /\ Live' = Live
    BY <2>1, SourceSame, ReaderSame
  <2>3. CASE UNCHANGED <<list, unsent, writer, mistaken>>
    <3>1. WriterTypes'
      BY <2>1, <2>3, WriterSame
    <3>2. WriteTypes'
      BY <1>0, <2>1, <2>2, <2>3 DEF WriteTypes, removes, list
    <3> QED BY <2>2, <3>1, <3>2
  <2>4. CASE /\ pc = "updates" /\ cur # None /\ ~Synchronized(cur)
             /\ first' = next[cur] /\ dirty' = dirty \ {cur} /\ unsent' = unsent \cup {cur}
             /\ UNCHANGED <<last, next>>
             /\ \/ UNCHANGED <<writer, mistaken>>
                \/ /\ HasLayout(cur)
                   /\ UNCHANGED wmaps /\ RememberLayout(cur)
                   /\ mistaken' = mistaken \cup {lay[cur]}
    <3>1. cur \in Live /\ cur \in Maps
      BY <2>4, CurLives DEF Live
    <3>2. WriterTypes' /\ mistaken' \subseteq Layouts
      <4>1. CASE UNCHANGED <<writer, mistaken>>
        BY <1>0, <2>1, <4>1, WriterSame
      <4>2. CASE /\ UNCHANGED wmaps /\ RememberLayout(cur)
                 /\ mistaken' = mistaken \cup {lay[cur]}
        <5>1. UNCHANGED lay
          BY <2>1 DEF source
        <5>2. WriterTypes' /\ lay[cur] \in Layouts
          BY <3>1, <4>2, <5>1, Remembered
        <5> QED BY <1>0, <4>2, <5>2
      <4> QED BY <2>4, <4>1, <4>2
    <3>3. first' \in Maps \cup {None}
      BY <1>0, <2>4, <3>1
    <3>4. WriteTypes'
      BY <1>0, <2>1, <2>2, <2>4, <3>1, <3>2, <3>3 DEF WriteTypes, removes
    <3> QED BY <2>2, <3>2, <3>4
  <2> QED BY <1>7, <2>3, <2>4 DEF WriteFails
<1>8. ASSUME UNCHANGED WriterSide
      PROVE  /\ SourceTypes' /\ WriterTypes' /\ Live' = Live
             /\ UNCHANGED <<dirty, unsent, first, last, cur, next, layout_remove_list,
                            map_remove_list, pc, faults, mistaken>>
  <2>1. UNCHANGED <<source, writer, list, removes, loop, unsent, mistaken>>
    BY <1>8 DEF WriterSide
  <2> QED BY <2>1, SourceSame, WriterSame DEF list, removes, loop
<1>9. CASE RemoveLayout
  <2>1. UNCHANGED WriterSide /\ Take("layout") /\ misread' = misread
    BY <1>9 DEF RemoveLayout
  <2>2. ReaderTypes' /\ stream' \in Seq(Commands)
    BY <1>9, <2>1, LayoutRemoved, Taking
  <2> QED BY <1>0, <1>8, <2>1, <2>2 DEF WriteTypes
<1>10. CASE RemoveProperties
  <2>1. UNCHANGED <<WriterSide, rlayouts>> /\ Take("map")
        /\ misread' = misread \ {Head(stream).id}
    BY <1>10 DEF RemoveProperties
  <2>2. ReaderTypes' /\ stream' \in Seq(Commands)
    BY <1>10, <2>1, MapRemoved, Taking
  <2> QED BY <1>0, <1>8, <2>1, <2>2 DEF WriteTypes
<1>11. CASE Read
  <2>1. UNCHANGED WriterSide /\ Take("update")
    BY <1>11 DEF Read
  <2>2. ReaderTypes' /\ stream' \in Seq(Commands)
    BY <1>11, <2>1, ReadIs, Taking
  <2>3. misread' \subseteq Maps
    <3>1. Head(stream).id \in Maps
      BY <2>1, HeadIs DEF Take
    <3>2. misread' \subseteq misread \cup {Head(stream).id}
      BY <1>11 DEF Read
    <3> QED BY <1>0, <3>1, <3>2
  <2> QED BY <1>0, <1>8, <2>1, <2>2, <2>3 DEF WriteTypes
<1>12. CASE UNCHANGED vars
  <2>1. /\ UNCHANGED <<source, writer, list, removes, loop, stream, reader, unsent, mistaken,
                       misread>>
    BY <1>12 DEF vars
  <2>2. SourceTypes' /\ WriterTypes' /\ ReaderTypes' /\ Live' = Live
    BY <2>1, SourceSame, WriterSame, ReaderSame
  <2> QED BY <1>0, <2>1, <2>2 DEF WriteTypes, list, removes, loop
<1> QED BY <1>1, <1>2, <1>3, <1>4, <1>5, <1>6, <1>7, <1>9, <1>10, <1>11, <1>12 DEF Next

-----------------------------------------------------------------------------
(* The update list. *)

\* No map drops out of the list, or a third one was put into it, or a write failed.
Losing == Lost' \subseteq Lost \/ Cardinality(dirty') > 2 \/ faults > 0

\* A map is put into the list: a third one takes the place of the second.
LEMMA ListAdded ==
  ASSUME WriteTypes, ListShape, NEW m \in Maps, m \notin dirty, pc # "updates", AddToList(m),
         dirty' = dirty \cup {m}, IsFiniteSet(dirty'), UNCHANGED <<pc, faults>>
  PROVE  ListShape' /\ Losing
<1>1. /\ first \in Maps \cup {None} /\ last \in Maps \cup {None} /\ faults \in Nat
      /\ next \in [Maps -> Maps \cup {None}] /\ m # None
  BY SyncAssumption DEF WriteTypes
<1>2. /\ first # None => last # None
      /\ first # None /\ next[first] # None => next[first] # first /\ next[next[first]] = None
      /\ first # None /\ last # first => next[first] = None
      /\ faults = 0 => last = first
      /\ Listed \subseteq dirty
  BY DEF ListShape
<1>3. /\ first # None => first \in dirty /\ first # m
      /\ first # None /\ next[first] # None => next[first] \in dirty /\ next[first] # m
  BY <1>2 DEF Listed
<1>4. SUFFICES ASSUME TRUE
               PROVE  /\ first' # None => last' # None
                      /\ first' # None /\ next'[first'] # None =>
                           next'[first'] # first' /\ next'[next'[first']] = None
                      /\ first' # None /\ last' # first' => next'[first'] = None
                      /\ faults = 0 => last' = first'
                      /\ Listed' \subseteq dirty' /\ Losing
  BY DEF ListShape
<1>5. CASE last = None
  <2>1. next' = [next EXCEPT ![m] = None] /\ first' = m /\ last' = m /\ first = None
    BY <1>2, <1>5 DEF AddToList
  <2>2. next'[m] = None
    BY <1>1, <2>1
  <2>3. Listed' = {m} /\ Listed = {}
    BY <1>1, <2>1, <2>2 DEF Listed
  <2> QED BY <1>1, <2>1, <2>2, <2>3 DEF Losing, Lost
<1>6. CASE last # None
  <2>1. /\ next' = [[next EXCEPT ![m] = None] EXCEPT ![last] = m]
        /\ UNCHANGED <<first, last>>
    BY <1>6 DEF AddToList
  <2>2. \A n \in Maps : next'[n] = IF n = last THEN m ELSE IF n = m THEN None ELSE next[n]
    BY <1>1, <1>6, <2>1
  <2>3. CASE first = None
    <3>1. Listed' = {} /\ faults > 0
      BY <1>1, <1>2, <1>6, <2>1, <2>3 DEF Listed
    <3> QED BY <1>1, <2>1, <2>3, <3>1 DEF Losing
  <2>4. CASE first # None /\ last = first
    <3>1. next'[first] = m /\ next'[m] = None
      BY <1>1, <1>3, <2>2, <2>4
    <3>2. Listed' = {first, m}
      BY <1>1, <2>1, <2>4, <3>1 DEF Listed
    <3>3. Losing
      <4>1. CASE next[first] = None
        BY <1>3, <2>4, <3>2, <4>1 DEF Losing, Lost, Listed
      <4>2. CASE next[first] # None
        <5> DEFINE n == next[first]
        <5>1. n # first /\ n # m /\ first # m /\ {first, n, m} \in SUBSET dirty'
          BY <1>2, <1>3, <2>4, <4>2
        <5> HIDE DEF n
        <5>2. Cardinality({first, n, m}) = 3 /\ IsFiniteSet({first, n, m})
          <6>1. Cardinality({first}) = 1 /\ IsFiniteSet({first})
            BY FS_Singleton
          <6>2. /\ IsFiniteSet({first} \cup {n})
                /\ Cardinality({first} \cup {n})
                     = IF n \in {first} THEN Cardinality({first}) ELSE Cardinality({first}) + 1
            BY <6>1, FS_AddElement
          <6>3. Cardinality({first} \cup {n}) = 2
            BY <5>1, <6>1, <6>2
          <6>4. /\ IsFiniteSet(({first} \cup {n}) \cup {m})
                /\ Cardinality(({first} \cup {n}) \cup {m})
                     = IF m \in {first} \cup {n} THEN Cardinality({first} \cup {n})
                                                 ELSE Cardinality({first} \cup {n}) + 1
            BY <6>2, FS_AddElement
          <6>5. ({first} \cup {n}) \cup {m} = {first, n, m}
            OBVIOUS
          <6>6. Cardinality(({first} \cup {n}) \cup {m}) = 3
            BY <5>1, <6>3, <6>4
          <6> QED BY <6>4, <6>5, <6>6
        <5>3. Cardinality({first, n, m}) <= Cardinality(dirty')
          BY <5>1, FS_Subset
        <5>4. Cardinality(dirty') \in Nat
          BY FS_CardinalityType
        <5> QED BY <5>2, <5>3, <5>4 DEF Losing
      <4> QED BY <4>1, <4>2
    <3> QED BY <1>1, <1>2, <1>3, <2>1, <2>4, <3>1, <3>2, <3>3
  <2>5. CASE first # None /\ last # first
    <3>1. next'[first] = None /\ faults > 0
      BY <1>1, <1>2, <1>3, <2>2, <2>5
    <3>2. Listed' = {first}
      BY <2>1, <2>5, <3>1 DEF Listed
    <3>3. Listed' \subseteq dirty' /\ Losing
      BY <1>3, <2>5, <3>1, <3>2 DEF Losing
    <3>4. first' = first /\ last' = last /\ next'[first'] = None
      BY <2>1, <3>1
    <3> QED BY <2>5, <1>6, <3>1, <3>3, <3>4
  <2> QED BY <2>3, <2>4, <2>5
<1> QED BY <1>5, <1>6

\* A map in the list is changed.
LEMMA ListUpdated ==
  ASSUME WriteTypes, ListShape, NEW m \in Live, pc # "updates", OnUpdate(m),
         IsFiniteSet(dirty'), UNCHANGED <<pc, faults>>
  PROVE  ListShape' /\ Losing
<1>1. CASE m \in dirty
  <2>1. UNCHANGED <<dirty, first, last, next, pc, faults>>
    BY <1>1 DEF OnUpdate, list
  <2>2. Listed' = Listed
    BY <2>1 DEF Listed
  <2> QED BY <2>1, <2>2 DEF ListShape, Losing, Lost
<1>2. CASE m \notin dirty
  <2>1. m \in Maps /\ AddToList(m) /\ dirty' = dirty \cup {m}
    BY <1>2 DEF OnUpdate, Live
  <2> QED BY <1>2, <2>1, ListAdded
<1> QED BY <1>1, <1>2

\* What Write has behind it when it goes on from one map to the next.
LEMMA ListAdvanced ==
  ASSUME WriteTypes, ListShape, pc = "updates", cur # None, dirty' = dirty \ {cur}
  PROVE  /\ cur \in Maps /\ (cur = first \/ (first # None /\ cur = next[first]))
         /\ first # None /\ next[cur] # cur
         /\ next[cur] # None => cur = first /\ next[next[cur]] = None
         /\ Chain(next[cur]) = {n \in {next[cur]} : n # None}
         /\ Chain(next[cur]) \subseteq Listed \cap dirty'
         /\ Listed \cap dirty' \subseteq Chain(next[cur])
<1>1. /\ first \in Maps \cup {None} /\ cur \in Maps /\ cur \in Maps \cup {None}
      /\ next \in [Maps -> Maps \cup {None}]
  BY DEF WriteTypes
<1>2. /\ first # None /\ next[first] # None => next[first] # first /\ next[next[first]] = None
      /\ Chain(cur) \subseteq Listed \cap dirty /\ Listed \cap dirty \subseteq Chain(cur)
  BY DEF ListShape
<1>3. Chain(cur) = {n \in {cur, next[cur]} : n # None}
  BY DEF Chain
<1>4. first # None /\ (cur = first \/ cur = next[first])
  BY <1>2, <1>3 DEF Listed
<1>5. next[cur] # cur /\ (next[cur] # None => cur = first /\ next[next[cur]] = None)
  BY <1>2, <1>4
<1>6. Chain(next[cur]) = {n \in {next[cur]} : n # None}
  BY <1>5 DEF Chain
<1> QED BY <1>1, <1>2, <1>3, <1>4, <1>5, <1>6

\* Every step keeps the list in shape; and no map drops out of it unsent, but for a
\* third one and a failure.
LEMMA ListStep == Types /\ ListShape /\ [Next]_vars => ListShape' /\ Losing
<1> SUFFICES ASSUME Types, ListShape, [Next]_vars PROVE ListShape' /\ Losing
  OBVIOUS
<1>0. WriteTypes /\ SourceTypes /\ WriteTypes' /\ faults \in Nat
  BY TypesStep DEF Types, WriteTypes
<1>f. IsFiniteSet(dirty')
  <2>1. dirty' \in SUBSET Maps
    BY <1>0 DEF WriteTypes, Live
  <2> QED BY <2>1, SyncAssumption, FS_Subset
<1>s. ASSUME UNCHANGED <<list, faults>> PROVE Listed' = Listed /\ Losing /\ Lost' = Lost
  <2>1. Listed' = Listed
    BY <1>s DEF list, Listed
  <2> QED BY <1>s, <2>1 DEF list, Losing, Lost
<1>c. ASSUME Changing PROVE pc # "updates" /\ UNCHANGED <<pc, faults>>
  BY <1>c DEF Changing, loop
<1>1. ASSUME NEW m \in Maps, NEW v \in Values, SetProperty(m, v) PROVE ListShape' /\ Losing
  <2>1. m \in Live /\ OnUpdate(m) /\ Changing
    BY <1>1 DEF SetProperty
  <2> QED BY <1>0, <1>f, <1>c, <2>1, ListUpdated
<1>2. ASSUME NEW m \in Maps, NEW l \in Layouts, NEW s \in Shapes, NEW v \in Values,
             ChangeLayout(m, l, s, v)
      PROVE  ListShape' /\ Losing
  <2>1. m \in Live /\ OnUpdate(m) /\ Changing
    BY <1>2 DEF ChangeLayout
  <2> QED BY <1>0, <1>f, <1>c, <2>1, ListUpdated
<1>3. ASSUME NEW m \in Maps, NEW l \in Layouts, NEW s \in Shapes, NEW v \in Values,
             Reset(m, l, s, v)
      PROVE  ListShape' /\ Losing
  <2>1. m \in Live /\ OnUpdate(m) /\ Changing
    BY <1>3 DEF Reset
  <2> QED BY <1>0, <1>f, <1>c, <2>1, ListUpdated
<1>4. ASSUME NEW m \in Maps, NEW l \in Layouts, NEW s \in Shapes, NEW v \in Values,
             CreateSynchronizer(m, l, s, v)
      PROVE  ListShape' /\ Losing
  <2>1. m \notin Live /\ AddToList(m) /\ Changing /\ dirty' = dirty \cup {m}
    BY <1>4 DEF CreateSynchronizer
  <2>2. m \notin dirty
    BY <1>0, <2>1 DEF WriteTypes
  <2> QED BY <1>0, <1>f, <1>c, <2>1, <2>2, ListAdded
<1>5. ASSUME NEW m \in Maps, DestroyMap(m) PROVE ListShape' /\ Losing
  <2>1. /\ Changing /\ dirty' = dirty \ {m} /\ m \notin Listed
        /\ UNCHANGED <<first, last, next>>
    BY <1>5 DEF DestroyMap
  <2>2. Listed' = Listed
    BY <2>1 DEF Listed
  <2> QED BY <1>c, <2>1, <2>2 DEF ListShape, Losing, Lost
<1>6. CASE BeginWrite \/ BeginUpdates
  <2>1. /\ UNCHANGED <<list, faults>> /\ pc # "updates"
        /\ \/ pc' = "removals"
           \/ pc' = "updates" /\ cur' = first
    BY <1>6 DEF BeginWrite, BeginUpdates
  <2>2. Listed' = Listed /\ Losing
    BY <1>s, <2>1
  <2>3. Chain(first) = Listed
    BY DEF Chain, Listed
  <2>4. cur' = first => Chain(cur)' = Listed
    BY <2>1, <2>3 DEF Chain, list
  <2> QED BY <2>1, <2>2, <2>4 DEF ListShape, list
<1>7. CASE RemoveLayoutCommand \/ RemoveMapCommand
  <2>1. UNCHANGED <<list, faults, pc, cur>> /\ pc # "updates"
    BY <1>7 DEF RemoveLayoutCommand, RemoveMapCommand, loop
  <2>2. Listed' = Listed /\ Losing
    BY <1>s, <2>1
  <2> QED BY <2>1, <2>2 DEF ListShape, list
<1>8. CASE WriteUpdate \/ SkipUpdate
  <2>1. /\ pc = "updates" /\ cur # None /\ cur' = next[cur] /\ dirty' = dirty \ {cur}
        /\ UNCHANGED <<first, last, next, pc, faults>>
    BY <1>8 DEF WriteUpdate, SkipUpdate
  <2>2. Listed' = Listed
    BY <2>1 DEF Listed
  <2>3. Chain(cur)' = Chain(next[cur])
    BY <2>1 DEF Chain
  <2>4. /\ Chain(next[cur]) \subseteq Listed \cap dirty'
        /\ Listed \cap dirty' \subseteq Chain(next[cur])
    BY <1>0, <2>1, ListAdvanced
  <2> QED BY <2>1, <2>2, <2>3, <2>4 DEF ListShape, Losing, Lost
<1>9. CASE EndWrite
  <2>1. /\ pc = "updates" /\ cur = None /\ first' = None /\ last' = None /\ pc' = "idle"
        /\ UNCHANGED <<dirty, next, faults>>
    BY <1>9 DEF EndWrite
  <2>2. Listed' = {} /\ Chain(cur) = {}
    BY <2>1 DEF Listed, Chain
  <2>3. Lost' = Lost
    BY <2>1, <2>2 DEF ListShape, Lost
  <2> QED BY <2>1, <2>2, <2>3 DEF ListShape, Losing
<1>10. CASE WriteFails
  <2>1. /\ faults' = faults + 1 /\ pc' = "idle" /\ cur' = None
        /\ \/ pc = "removals" /\ UNCHANGED list
           \/ /\ pc = "updates" /\ cur # None
              /\ first' = next[cur] /\ dirty' = dirty \ {cur} /\ UNCHANGED <<last, next>>
    BY <1>10 DEF WriteFails
  <2>2. CASE pc = "removals" /\ UNCHANGED list
    <3>1. Listed' = Listed
      BY <2>2 DEF list, Listed
    <3> QED BY <1>0, <2>1, <2>2, <3>1 DEF ListShape, Losing, Lost, list
  <2>3. CASE /\ pc = "updates" /\ cur # None
             /\ first' = next[cur] /\ dirty' = dirty \ {cur} /\ UNCHANGED <<last, next>>
    <3>1. /\ cur \in Maps /\ first # None /\ next[cur] # cur
          /\ next[cur] # None => cur = first /\ next[next[cur]] = None
          /\ Chain(next[cur]) = {n \in {next[cur]} : n # None}
          /\ Chain(next[cur]) \subseteq Listed \cap dirty'
          /\ Listed \cap dirty' \subseteq Chain(next[cur])
      BY <1>0, <2>3, ListAdvanced
    <3>2. Listed' = Chain(next[cur])
      BY <2>3, <3>1 DEF Listed
    <3>3. ListShape'
      BY <1>0, <2>1, <2>3, <3>1, <3>2 DEF ListShape
    <3>4. Losing
      BY <2>3, <3>1, <3>2 DEF Losing, Lost
    <3> QED BY <3>3, <3>4
  <2> QED BY <2>1, <2>2, <2>3
<1>11. CASE RemoveLayout \/ RemoveProperties \/ Read \/ UNCHANGED vars
  <2>1. UNCHANGED <<list, faults, pc, cur>>
    BY <1>11 DEF RemoveLayout, RemoveProperties, Read, WriterSide, vars, loop
  <2>2. Listed' = Listed /\ Losing /\ Chain(cur)' = Chain(cur)
    BY <1>s, <2>1 DEF Chain, list
  <2> QED BY <2>1, <2>2 DEF ListShape, list
<1> QED BY <1>1, <1>2, <1>3, <1>4, <1>5, <1>6, <1>7, <1>8, <1>9, <1>10, <1>11 DEF Next

-----------------------------------------------------------------------------
(* What a step does, seen from the writer and the reader. *)

Same == UNCHANGED <<writer, removes, stream, reader, mistaken, misread>>
Forgetting(dead, gone) ==
  /\ UNCHANGED <<stream, reader, mistaken, misread, pc>> /\ pc # "updates"
  /\ Forget(dead, gone) /\ InUse \ dead \subseteq InUse' /\ Live \ gone \subseteq Live'
NotTold ==
  /\ pc = "updates" /\ cur \in Live /\ HasLayout(cur) /\ UNCHANGED wmaps /\ RememberLayout(cur)
  /\ mistaken' = mistaken \cup {lay[cur]} /\ pc' = "idle"
  /\ UNCHANGED <<source, removes, stream, reader, misread>>
Told ==
  /\ pc = "updates" /\ cur \in Live /\ WriteUpdate

\* The kinds of steps: most change nothing of what the two sides know or is on its way.
LEMMA StepIs ==
  ASSUME Types, ListShape, [Next]_vars
  PROVE  \/ Same
         \/ \E dead \in SUBSET Layouts, gone \in SUBSET Maps : Forgetting(dead, gone)
         \/ RemoveLayoutCommand \/ RemoveMapCommand \/ Told \/ NotTold
         \/ RemoveLayout \/ RemoveProperties \/ Read
<1>1. ASSUME NEW m \in Maps, NEW v \in Values, SetProperty(m, v) PROVE Same
  BY <1>1 DEF SetProperty, Changing, Same
<1>2. ASSUME NEW m \in Maps, NEW l \in Layouts, NEW s \in Shapes, NEW v \in Values,
             ChangeLayout(m, l, s, v)
      PROVE  Same
  BY <1>2 DEF ChangeLayout, Changing, Same
<1>3. ASSUME NEW m \in Maps, NEW l \in Layouts, NEW s \in Shapes, NEW v \in Values,
             CreateSynchronizer(m, l, s, v)
      PROVE  Same
  BY <1>3 DEF CreateSynchronizer, Changing, Same
<1>4. ASSUME NEW m \in Maps, NEW l \in Layouts, NEW s \in Shapes, NEW v \in Values,
             Reset(m, l, s, v)
      PROVE  Forgetting(Own(m), {}) /\ Own(m) \in SUBSET Layouts
  <2>1. Forget(Own(m), {}) /\ Changing
    BY <1>4 DEF Reset
  <2>2. InUse' = (InUse \ Own(m)) \cup {l} /\ Live' = Live
    BY <1>4, SourceReset DEF Types
  <2> QED BY <2>1, <2>2 DEF Changing, loop, Forgetting, Own
<1>5. ASSUME NEW m \in Maps, DestroyMap(m)
      PROVE  Forgetting(Own(m), {m}) /\ Own(m) \in SUBSET Layouts
  <2>1. Forget(Own(m), {m}) /\ Changing
    BY <1>5 DEF DestroyMap
  <2>2. InUse' = InUse \ Own(m) /\ Live' = Live \ {m}
    BY <1>5, SourceDestroyed DEF Types
  <2> QED BY <2>1, <2>2 DEF Changing, loop, Forgetting, Own
<1>6. CASE BeginWrite \/ BeginUpdates \/ SkipUpdate \/ EndWrite \/ UNCHANGED vars
  BY <1>6 DEF BeginWrite, BeginUpdates, SkipUpdate, EndWrite, vars, Same
<1>7. CASE WriteUpdate
  <2>1. pc = "updates" /\ cur # None
    BY <1>7 DEF WriteUpdate
  <2>2. cur \in Live
    BY <2>1, CurLives DEF Types
  <2> QED BY <1>7, <2>1, <2>2 DEF Told
<1>8. CASE WriteFails
  <2>1. UNCHANGED <<source, removes, stream, reader, misread>> /\ pc' = "idle"
    BY <1>8 DEF WriteFails
  <2>2. \/ UNCHANGED <<writer, mistaken>>
        \/ /\ pc = "updates" /\ cur # None /\ HasLayout(cur) /\ UNCHANGED wmaps
           /\ RememberLayout(cur) /\ mistaken' = mistaken \cup {lay[cur]}
    BY <1>8 DEF WriteFails
  <2>3. CASE UNCHANGED <<writer, mistaken>>
    BY <2>1, <2>3 DEF Same
  <2>4. CASE /\ pc = "updates" /\ cur # None /\ HasLayout(cur) /\ UNCHANGED wmaps
             /\ RememberLayout(cur) /\ mistaken' = mistaken \cup {lay[cur]}
    <3>1. cur \in Live
      BY <2>4, CurLives DEF Types
    <3> QED BY <2>1, <2>4, <3>1 DEF NotTold
  <2> QED BY <2>2, <2>3, <2>4
<1>9. CASE \E m \in Maps :
             \/ \E v \in Values : SetProperty(m, v)
             \/ \E l \in Layouts, s \in Shapes, v \in Values :
                  CreateSynchronizer(m, l, s, v) \/ ChangeLayout(m, l, s, v) \/ Reset(m, l, s, v)
             \/ DestroyMap(m)
  <2> DEFINE F == \E dead \in SUBSET Layouts, gone \in SUBSET Maps : Forgetting(dead, gone)
  <2>1. ASSUME NEW m \in Maps, NEW l \in Layouts, NEW s \in Shapes, NEW v \in Values,
               Reset(m, l, s, v)
        PROVE  F
    <3>1. {} \in SUBSET Maps
      OBVIOUS
    <3> QED BY <1>4, <2>1, <3>1
  <2>2. ASSUME NEW m \in Maps, DestroyMap(m) PROVE F
    <3>1. {m} \in SUBSET Maps
      OBVIOUS
    <3> QED BY <1>5, <2>2, <3>1
  <2> HIDE DEF F
  <2>3. Same \/ F
    BY <1>1, <1>2, <1>3, <1>9, <2>1, <2>2
  <2> QED BY <2>3 DEF F
<1> QED BY <1>6, <1>7, <1>8, <1>9 DEF Next

\* What the writer remembers when it has told the reader of a map, and in which case
\* it takes a layout for one it has sent.
LEMMA TellingIs ==
  ASSUME Types, Told
  PROVE  /\ RememberLayout(cur) /\ UNCHANGED <<source, removes, reader, misread, pc>>
         /\ wmaps' = [wmaps EXCEPT ![cur] = [desc |-> DescFor(cur), hash |-> Hash(cur)]]
         /\ Emit([kind |-> "update", id |-> cur, layout |-> lay[cur],
                  has_layout |-> HasLayout(cur), state |-> Hash(cur)])
         /\ [kind |-> "update", id |-> cur, layout |-> lay[cur],
             has_layout |-> HasLayout(cur), state |-> Hash(cur)] \in Commands
         /\ mistaken \subseteq mistaken' /\ (Mistaken(cur) => lay[cur] \in mistaken')
         /\ cur \in Maps /\ UNCHANGED lay
BY UpdateIsCommand DEF Types, Told, WriteUpdate, Remember, Live, source

\* Every step keeps what is to be removed forgotten.
LEMMA RemovalsStep == Types /\ ListShape /\ Removals /\ [Next]_vars => Removals'
<1> SUFFICES ASSUME Types, ListShape, Removals, [Next]_vars PROVE Removals'
  OBVIOUS
<1>0. /\ SourceTypes /\ WriterTypes /\ WriteTypes
      /\ layout_remove_list \in Seq(Layouts) /\ map_remove_list \in Seq(Maps)
  BY DEF Types, WriteTypes
<1>1. /\ pc = "updates" => layout_remove_list = <<>> /\ map_remove_list = <<>>
      /\ \A l \in Range(layout_remove_list) : wlayouts[l] = None
      /\ \A m \in Range(map_remove_list) : wmaps[m] = None
      /\ \A i, j \in 1..Len(map_remove_list) : map_remove_list[i] = map_remove_list[j] => i = j
  BY DEF Removals
<1>2. CASE Same
  <2>1. UNCHANGED <<wlayouts, wmaps, layout_remove_list, map_remove_list>>
    BY <1>2 DEF Same, writer, removes
  <2>2. pc' = "updates" => layout_remove_list = <<>> /\ map_remove_list = <<>>
    <3>1. CASE BeginUpdates
      BY <3>1 DEF BeginUpdates
    <3>2. CASE BeginWrite \/ EndWrite \/ WriteFails
      BY <3>2 DEF BeginWrite, EndWrite, WriteFails
    <3>3. CASE \/ SkipUpdate \/ WriteUpdate \/ RemoveLayoutCommand \/ RemoveMapCommand
               \/ RemoveLayout \/ RemoveProperties \/ Read \/ UNCHANGED vars
      <4>1. pc' = pc
        BY <3>3 DEF SkipUpdate, WriteUpdate, RemoveLayoutCommand, RemoveMapCommand, loop,
                    RemoveLayout, RemoveProperties, Read, WriterSide, vars
      <4> QED BY <1>1, <4>1
    <3>4. ASSUME Changing PROVE pc' = "idle"
      BY <3>4 DEF Changing, loop
    <3>5. CASE \E m \in Maps :
                 \/ \E v \in Values : SetProperty(m, v)
                 \/ \E l \in Layouts, s \in Shapes, v \in Values :
                      CreateSynchronizer(m, l, s, v) \/ ChangeLayout(m, l, s, v) \/ Reset(m, l, s, v)
                 \/ DestroyMap(m)
      <4>1. Changing
        BY <3>5 DEF SetProperty, ChangeLayout, CreateSynchronizer, Reset, DestroyMap
      <4> QED BY <3>4, <4>1
    <3> QED BY <3>1, <3>2, <3>3, <3>5 DEF Next
  <2> QED BY <1>1, <2>1, <2>2 DEF Removals
<1>3. ASSUME NEW dead \in SUBSET Layouts, NEW gone \in SUBSET Maps, Forgetting(dead, gone)
      PROVE  Removals'
  <2>1. /\ \A l \in Layouts : wlayouts'[l] = IF l \in dead \cap tracked THEN None
                                                                         ELSE wlayouts[l]
        /\ \A m \in Maps : wmaps'[m] = IF m \in gone THEN None ELSE wmaps[m]
        /\ layout_remove_list' \in Seq(Layouts) /\ map_remove_list' \in Seq(Maps)
        /\ Range(layout_remove_list') = Range(layout_remove_list) \cup (dead \cap tracked)
        /\ Range(map_remove_list')
             = Range(map_remove_list) \cup {m \in gone : wmaps[m] # None}
        /\ \A i, j \in 1..Len(map_remove_list') :
             map_remove_list'[i] = map_remove_list'[j] => i = j
    BY <1>0, <1>3, Forgotten DEF Forgetting
  <2>2. Range(layout_remove_list) \subseteq Layouts /\ Range(map_remove_list) \subseteq Maps
    BY <1>0 DEF Range
  <2>3. pc' # "updates"
    BY <1>3 DEF Forgetting
  <2> QED BY <1>1, <2>1, <2>2, <2>3 DEF Removals
<1>4. CASE RemoveLayoutCommand
  <2>1. /\ UNCHANGED <<wlayouts, wmaps, pc, map_remove_list>> /\ layout_remove_list # <<>>
        /\ layout_remove_list' = Tail(layout_remove_list) /\ pc = "removals"
    BY <1>4 DEF RemoveLayoutCommand, writer, loop
  <2>2. Range(layout_remove_list') \subseteq Range(layout_remove_list)
    BY <1>0, <2>1, TailRange
  <2> QED BY <1>1, <2>1, <2>2 DEF Removals
<1>5. CASE RemoveMapCommand
  <2>1. /\ UNCHANGED <<wlayouts, wmaps, pc, layout_remove_list>> /\ map_remove_list # <<>>
        /\ map_remove_list' = Tail(map_remove_list) /\ pc = "removals"
    BY <1>5 DEF RemoveMapCommand, writer, loop
  <2>2. /\ Range(map_remove_list') \subseteq Range(map_remove_list)
        /\ \A i, j \in 1..Len(map_remove_list') :
             map_remove_list'[i] = map_remove_list'[j] => i = j
    BY <1>0, <1>1, <2>1, TailRange
  <2> QED BY <1>1, <2>1, <2>2 DEF Removals
<1>6. CASE Told \/ NotTold
  <2>1. UNCHANGED removes /\ pc = "updates"
    BY <1>6, TellingIs DEF Told, NotTold
  <2>2. UNCHANGED <<layout_remove_list, map_remove_list>>
    BY <2>1 DEF removes
  <2>3. layout_remove_list' = <<>> /\ map_remove_list' = <<>>
    BY <1>1, <2>1, <2>2
  <2>4. Range(layout_remove_list') = {} /\ Range(map_remove_list') = {}
    BY <2>3 DEF Range
  <2> QED BY <2>3, <2>4 DEF Removals
<1>7. CASE RemoveLayout \/ RemoveProperties \/ Read
  <2>1. UNCHANGED <<wlayouts, wmaps, pc, layout_remove_list, map_remove_list>>
    BY <1>7 DEF RemoveLayout, RemoveProperties, Read, WriterSide, writer, loop, removes
  <2> QED BY <1>1, <2>1 DEF Removals
<1> QED BY <1>2, <1>3, <1>4, <1>5, <1>6, <1>7, StepIs

\* Every step keeps the writer up to date with what was sent.
LEMMA CurrentStep == Types /\ ListShape /\ Current /\ [Next]_vars => Current'
<1> SUFFICES ASSUME Types, ListShape, Current, [Next]_vars PROVE Current'
  OBVIOUS
<1>0. SourceTypes /\ WriterTypes /\ WriteTypes /\ wmaps \in [Maps -> WriterMaps \cup {None}]
  BY DEF Types, WriterTypes
<1>1. \A m \in Live \ (dirty \cup unsent) : wmaps[m] # None /\ wmaps[m].hash = Hash(m)
  BY DEF Current
<1>2. ASSUME NEW m \in Maps, Live' \subseteq Live \cup {m}, dirty' = dirty \cup {m},
             unsent' = unsent, \A n \in Live : n # m => Hash(n)' = Hash(n),
             \A n \in Maps : n # m => wmaps'[n] = wmaps[n]
      PROVE  Current'
  BY <1>1, <1>2 DEF Current, Live
<1>3. ASSUME NEW m \in Maps, NEW v \in Values, SetProperty(m, v) PROVE Current'
  <2>1. m \in Live /\ OnUpdate(m) /\ UNCHANGED <<wmaps, unsent>>
    BY <1>3 DEF SetProperty, writer
  <2>2. dirty' = dirty \cup {m}
    BY <1>0, <2>1, OnUpdateIs
  <2>3. Live' = Live /\ \A n \in Live : n # m => Hash(n)' = Hash(n)
    BY <1>0, <1>3, SourceSet
  <2> QED BY <1>2, <2>1, <2>2, <2>3
<1>4. ASSUME NEW m \in Maps, NEW l \in Layouts, NEW s \in Shapes, NEW v \in Values,
             ChangeLayout(m, l, s, v)
      PROVE  Current'
  <2>1. m \in Live /\ OnUpdate(m) /\ UNCHANGED <<wmaps, unsent>>
    BY <1>4 DEF ChangeLayout, writer
  <2>2. dirty' = dirty \cup {m}
    BY <1>0, <2>1, OnUpdateIs
  <2>3. Live' = Live /\ \A n \in Live : n # m => Hash(n)' = Hash(n)
    BY <1>0, <1>4, SourceRelaid
  <2> QED BY <1>2, <2>1, <2>2, <2>3
<1>5. ASSUME NEW m \in Maps, NEW l \in Layouts, NEW s \in Shapes, NEW v \in Values,
             CreateSynchronizer(m, l, s, v)
      PROVE  Current'
  <2>1. dirty' = dirty \cup {m} /\ UNCHANGED <<wmaps, unsent>>
    BY <1>5 DEF CreateSynchronizer, writer
  <2>2. Live' = Live \cup {m} /\ \A n \in Live : n # m => Hash(n)' = Hash(n)
    BY <1>0, <1>5, SourceCreated
  <2> QED BY <1>2, <2>1, <2>2
<1>6. ASSUME NEW m \in Maps, NEW l \in Layouts, NEW s \in Shapes, NEW v \in Values,
             Reset(m, l, s, v)
      PROVE  Current'
  <2>1. m \in Live /\ OnUpdate(m) /\ UNCHANGED unsent /\ Forget(Own(m), {})
    BY <1>6 DEF Reset
  <2>2. dirty' = dirty \cup {m}
    BY <1>0, <2>1, OnUpdateIs
  <2>3. Live' = Live /\ \A n \in Live : n # m => Hash(n)' = Hash(n)
    BY <1>0, <1>6, SourceReset
  <2>4. \A n \in Maps : wmaps'[n] = wmaps[n]
    BY <2>1 DEF Forget
  <2> QED BY <1>2, <2>1, <2>2, <2>3, <2>4
<1>7. ASSUME NEW m \in Maps, DestroyMap(m) PROVE Current'
  <2>1. dirty' = dirty \ {m} /\ unsent' = unsent \ {m} /\ Forget(Own(m), {m})
    BY <1>7 DEF DestroyMap
  <2>2. Live' = Live \ {m} /\ \A n \in Live : n # m => Hash(n)' = Hash(n)
    BY <1>0, <1>7, SourceDestroyed
  <2>3. \A n \in Maps : n # m => wmaps'[n] = wmaps[n]
    BY <2>1 DEF Forget
  <2> QED BY <1>1, <2>1, <2>2, <2>3 DEF Current, Live
<1>8. CASE WriteUpdate
  <2>1. /\ pc = "updates" /\ cur # None /\ Remember(cur) /\ UNCHANGED source
        /\ dirty' = dirty \ {cur} /\ unsent' = unsent \ {cur}
    BY <1>8 DEF WriteUpdate
  <2>2. cur \in Live /\ cur \in Maps
    BY <1>0, <2>1, CurLives DEF Live
  <2>3. Live' = Live /\ \A m : Hash(m)' = Hash(m)
    BY <2>1, SourceSame
  <2> DEFINE w == [desc |-> DescFor(cur), hash |-> Hash(cur)]
  <2>4. wmaps' = [wmaps EXCEPT ![cur] = w]
    BY <2>1 DEF Remember
  <2>5. w \in WriterMaps
    BY <1>0, <2>2, KnownIs, LiveIs DEF WriterMaps
  <2>6. w # None /\ w.hash = Hash(cur)
    BY <2>5, SyncAssumption
  <2> HIDE DEF w
  <2>7. wmaps'[cur] = w /\ \A n \in Maps : n # cur => wmaps'[n] = wmaps[n]
    BY <1>0, <2>2, <2>4
  <2>8. ASSUME NEW m \in Live, m \notin dirty', m \notin unsent'
        PROVE  wmaps'[m] # None /\ wmaps'[m].hash = Hash(m)
    <3>1. CASE m = cur
      BY <2>6, <2>7, <3>1
    <3>2. CASE m # cur
      BY <1>1, <2>1, <2>7, <2>8, <3>2 DEF Live
    <3> QED BY <3>1, <3>2
  <2> QED BY <2>3, <2>8 DEF Current
<1>9. CASE SkipUpdate
  <2>1. /\ Synchronized(cur) /\ UNCHANGED <<source, wmaps>>
        /\ dirty' = dirty \ {cur} /\ unsent' = unsent \ {cur}
    BY <1>9 DEF SkipUpdate, writer
  <2>2. Live' = Live /\ \A m : Hash(m)' = Hash(m)
    BY <2>1, SourceSame
  <2>3. wmaps[cur] # None /\ wmaps[cur].hash = Hash(cur)
    BY <2>1 DEF Synchronized
  <2> QED BY <1>1, <2>1, <2>2, <2>3 DEF Current
<1>10. CASE WriteFails
  <2>1. UNCHANGED <<source, wmaps>>
    BY <1>10 DEF WriteFails, writer
  <2>2. Live' = Live /\ \A m : Hash(m)' = Hash(m)
    BY <2>1, SourceSame
  <2>3. dirty \cup unsent \subseteq dirty' \cup unsent'
    BY <1>10 DEF WriteFails, list
  <2> QED BY <1>1, <2>1, <2>2, <2>3 DEF Current
<1>11. CASE \/ BeginWrite \/ BeginUpdates \/ EndWrite \/ RemoveLayoutCommand \/ RemoveMapCommand
            \/ RemoveLayout \/ RemoveProperties \/ Read \/ UNCHANGED vars
  <2>1. UNCHANGED <<source, wmaps, dirty, unsent>>
    BY <1>11 DEF BeginWrite, BeginUpdates, EndWrite, RemoveLayoutCommand, RemoveMapCommand,
                 RemoveLayout, RemoveProperties, Read, WriterSide, vars, writer, list
  <2>2. Live' = Live /\ \A m : Hash(m)' = Hash(m)
    BY <2>1, SourceSame
  <2> QED BY <1>1, <2>1, <2>2 DEF Current
<1> QED BY <1>3, <1>4, <1>5, <1>6, <1>7, <1>8, <1>9, <1>10, <1>11 DEF Next

-----------------------------------------------------------------------------
(* The ends of layouts. *)

\* What the reader will be told stays so when a command is written, and when one is
\* read that is not the end of the layout.
LEMMA CaredEmitted ==
  ASSUME WriteTypes, NEW c \in Commands, Emit(c), NEW l, NEW n \in 0..Len(stream),
         l \in tracked => l \in tracked',
         l \in Range(layout_remove_list) => l \in Range(layout_remove_list') \/ Ends(c, l),
         Cared(l, n)
  PROVE  Cared(l, n)'
<1>1. /\ Len(stream) \in Nat /\ Len(stream') = Len(stream) + 1
      /\ stream'[Len(stream) + 1] = c
      /\ \A i \in 1..Len(stream) : stream'[i] = stream[i]
  BY Emitted
<1>2. CASE l \in tracked
  BY <1>2 DEF Cared
<1>3. CASE l \in Range(layout_remove_list)
  <2>1. CASE Ends(c, l)
    <3>1. Len(stream) + 1 \in n + 1..Len(stream') /\ Ends(stream'[Len(stream) + 1], l)
      BY <1>1, <2>1
    <3> QED BY <3>1 DEF Cared
  <2>2. CASE l \in Range(layout_remove_list')
    BY <2>2 DEF Cared
  <2> QED BY <1>3, <2>1, <2>2
<1>4. CASE \E j \in n + 1..Len(stream) : Ends(stream[j], l)
  <2>1. PICK j \in n + 1..Len(stream) : Ends(stream[j], l)
    BY <1>4
  <2>2. j \in 1..Len(stream) /\ j \in n + 1..Len(stream')
    BY <1>1
  <2>3. Ends(stream'[j], l)
    BY <1>1, <2>1, <2>2
  <2> QED BY <2>2, <2>3 DEF Cared
<1> QED BY <1>2, <1>3, <1>4 DEF Cared

\* The same when the command that is read is not the end of the layout.
LEMMA CaredTaken ==
  ASSUME WriteTypes, NEW kind, Take(kind), UNCHANGED <<tracked, layout_remove_list>>,
         NEW l, NEW n \in Nat, Cared(l, n), n = 0 => ~Ends(stream[1], l)
  PROVE  Cared(l, IF n = 0 THEN 0 ELSE n - 1)'
<1>1. /\ Len(stream) \in Nat \ {0} /\ Len(stream') = Len(stream) - 1
      /\ \A i \in 1..Len(stream) - 1 : stream'[i] = stream[i + 1]
  BY Taking
<1>2. CASE l \in tracked \/ l \in Range(layout_remove_list)
  BY <1>2 DEF Cared
<1>3. CASE \E j \in n + 1..Len(stream) : Ends(stream[j], l)
  <2>1. PICK j \in n + 1..Len(stream) : Ends(stream[j], l)
    BY <1>3
  <2>2. j \in 1..Len(stream) /\ j # 1
    BY <1>1, <2>1
  <2>3. /\ j - 1 \in 1..Len(stream) - 1 /\ (j - 1) + 1 = j
        /\ j - 1 \in (IF n = 0 THEN 0 ELSE n - 1) + 1..Len(stream')
    BY <1>1, <2>1, <2>2
  <2>4. Ends(stream'[j - 1], l)
    <3>1. stream'[j - 1] = stream[j]
      BY <1>1, <2>3
    <3> QED BY <2>1, <3>1
  <2> QED BY <2>3, <2>4 DEF Cared
<1> QED BY <1>2, <1>3 DEF Cared

\* Every step keeps the reader from having a layout it will not be told the end of.
LEMMA CaringStep == Types /\ ListShape /\ Caring /\ [Next]_vars => Caring'
<1> SUFFICES ASSUME Types, ListShape, Caring, [Next]_vars PROVE Caring'
  OBVIOUS
<1>0. /\ SourceTypes /\ WriterTypes /\ WriteTypes /\ ReaderTypes
      /\ layout_remove_list \in Seq(Layouts) /\ Len(stream) \in Nat
      /\ rlayouts \in [Layouts -> Descs \cup {None}]
  BY DEF Types, WriteTypes, ReaderTypes
<1>1. \A l \in Layouts \ mistaken :
        /\ \A i \in 1..Len(stream) : Gives(stream[i], l) => Cared(l, i)
        /\ rlayouts[l] # None => Cared(l, 0)
  BY DEF Caring
<1>2. CASE Same
  BY <1>1, <1>2 DEF Same, writer, removes, reader, Caring, Cared
<1>3. ASSUME NEW dead \in SUBSET Layouts, NEW gone \in SUBSET Maps, Forgetting(dead, gone)
      PROVE  Caring'
  <2>1. /\ tracked' = tracked \ dead
        /\ Range(layout_remove_list') = Range(layout_remove_list) \cup (dead \cap tracked)
    BY <1>0, <1>3, Forgotten DEF Forgetting
  <2>2. UNCHANGED <<stream, rlayouts, mistaken>>
    BY <1>3 DEF Forgetting, reader
  <2>3. \A l, n : Cared(l, n) => Cared(l, n)'
    BY <2>1, <2>2 DEF Cared
  <2> QED BY <1>1, <2>2, <2>3 DEF Caring
<1>4. ASSUME NEW c \in Commands, Emit(c), rlayouts' = rlayouts, mistaken \subseteq mistaken',
             \A l \in Layouts :
               /\ l \in tracked => l \in tracked'
               /\ l \in Range(layout_remove_list) => l \in Range(layout_remove_list') \/ Ends(c, l)
               /\ Gives(c, l) => l \in tracked' \/ l \in mistaken'
      PROVE  Caring'
  <2>1. /\ Len(stream') = Len(stream) + 1 /\ stream'[Len(stream) + 1] = c
        /\ \A i \in 1..Len(stream) : stream'[i] = stream[i]
    BY <1>0, <1>4, Emitted
  <2>2. ASSUME NEW l \in Layouts \ mistaken', NEW i \in 1..Len(stream'), Gives(stream'[i], l)
        PROVE  Cared(l, i)'
    <3>1. CASE i = Len(stream) + 1
      BY <1>4, <2>1, <2>2, <3>1 DEF Cared
    <3>2. CASE i # Len(stream) + 1
      <4>1. i \in 1..Len(stream) /\ i \in 0..Len(stream) /\ stream'[i] = stream[i]
        BY <1>0, <2>1, <3>2
      <4>2. Cared(l, i)
        BY <1>1, <1>4, <2>2, <4>1
      <4> QED BY <1>0, <1>4, <4>1, <4>2, CaredEmitted
    <3> QED BY <3>1, <3>2
  <2>3. ASSUME NEW l \in Layouts \ mistaken', rlayouts'[l] # None PROVE Cared(l, 0)'
    <3>1. Cared(l, 0) /\ 0 \in 0..Len(stream)
      BY <1>0, <1>1, <1>4, <2>3
    <3> QED BY <1>0, <1>4, <3>1, CaredEmitted
  <2> QED BY <2>2, <2>3 DEF Caring
<1>5. CASE RemoveLayoutCommand
  <2> DEFINE x == Head(layout_remove_list)  c == [kind |-> "layout", id |-> x]
  <2>1. /\ Emit(c) /\ layout_remove_list # <<>> /\ layout_remove_list' = Tail(layout_remove_list)
        /\ UNCHANGED <<tracked, rlayouts, mistaken>>
    BY <1>5 DEF RemoveLayoutCommand, writer, reader
  <2>2. Range(layout_remove_list) = Range(layout_remove_list') \cup {x} /\ x \in Layouts
    <3>1. Range(layout_remove_list) = Range(Tail(layout_remove_list)) \cup {x}
      BY <1>0, <2>1, TailRange
    <3> QED BY <1>0, <2>1, <3>1
  <2>3. c \in Commands /\ Ends(c, x) /\ \A l : ~Gives(c, l)
    BY <2>2 DEF Commands, Ends, Gives
  <2> HIDE DEF c, x
  <2> QED BY <1>4, <2>1, <2>2, <2>3
<1>6. CASE RemoveMapCommand
  <2> DEFINE x == Head(map_remove_list)  c == [kind |-> "map", id |-> x]
  <2>1. /\ Emit(c) /\ map_remove_list # <<>> /\ map_remove_list \in Seq(Maps)
        /\ UNCHANGED <<tracked, rlayouts, mistaken, layout_remove_list>>
    BY <1>0, <1>6 DEF RemoveMapCommand, writer, reader, WriteTypes
  <2>2. x \in Maps
    BY <2>1
  <2>3. c \in Commands /\ \A l : ~Gives(c, l)
    BY <2>2 DEF Commands, Gives
  <2> HIDE DEF c, x
  <2> QED BY <1>4, <2>1, <2>3
<1>7. CASE Told
  <2> DEFINE c == [kind |-> "update", id |-> cur, layout |-> lay[cur],
                   has_layout |-> HasLayout(cur), state |-> Hash(cur)]
  <2>1. /\ RememberLayout(cur) /\ UNCHANGED <<removes, reader, lay>> /\ cur \in Live
        /\ wmaps' = [wmaps EXCEPT ![cur] = [desc |-> DescFor(cur), hash |-> Hash(cur)]]
        /\ Emit(c) /\ c \in Commands
        /\ mistaken \subseteq mistaken' /\ (Mistaken(cur) => lay[cur] \in mistaken')
    BY <1>7, TellingIs DEF Told
  <2>2. /\ \A l \in Layouts : wlayouts'[l] = IF l = lay[cur] /\ Known(cur) = None
                                             THEN DescFor(cur) ELSE wlayouts[l]
        /\ tracked \subseteq tracked' /\ lay[cur] \in Layouts
        /\ wlayouts'[lay[cur]] # None => lay[cur] \in tracked'
    BY <1>0, <2>1, Remembered
  <2>3. /\ DescFor(cur) # None
        /\ Known(cur) # None /\ Known(cur) # wlayouts[lay[cur]] => Mistaken(cur)
    BY <1>0, <2>1, KnownIs
  <2>4. \A l : Gives(c, l) => l = lay[cur]
    BY DEF Gives
  <2>5. lay[cur] \in tracked' \/ lay[cur] \in mistaken'
    BY <2>1, <2>2, <2>3
  <2> HIDE DEF c
  <2>6. UNCHANGED <<rlayouts, layout_remove_list>>
    BY <2>1 DEF reader, removes
  <2> QED BY <1>4, <2>1, <2>2, <2>4, <2>5, <2>6
<1>8. CASE NotTold
  <2>1. /\ UNCHANGED <<stream, rlayouts, layout_remove_list>> /\ mistaken \subseteq mistaken'
        /\ RememberLayout(cur) /\ UNCHANGED <<wmaps, lay>> /\ cur \in Live
    BY <1>8 DEF NotTold, reader, removes, source
  <2>2. tracked \subseteq tracked'
    BY <1>0, <2>1, Remembered
  <2>3. \A l, n : Cared(l, n) => Cared(l, n)'
    BY <2>1, <2>2 DEF Cared
  <2> QED BY <1>1, <2>1, <2>3 DEF Caring
<1>9. ASSUME NEW kind, Take(kind), UNCHANGED WriterSide,
             \A l \in Layouts : rlayouts'[l] # None =>
               \/ rlayouts[l] # None /\ ~Ends(stream[1], l)
               \/ Gives(stream[1], l)
      PROVE  Caring'
  <2>1. /\ Len(stream) \in Nat \ {0} /\ Len(stream') = Len(stream) - 1
        /\ \A i \in 1..Len(stream) - 1 : stream'[i] = stream[i + 1]
    BY <1>0, <1>9, Taking
  <2>2. UNCHANGED <<tracked, layout_remove_list, mistaken>>
    BY <1>9 DEF WriterSide, writer, removes
  <2>3. ASSUME NEW l \in Layouts \ mistaken, NEW i \in 1..Len(stream'), Gives(stream'[i], l)
        PROVE  Cared(l, i)'
    <3>1. i + 1 \in 1..Len(stream) /\ i + 1 \in Nat /\ i + 1 # 0 /\ (i + 1) - 1 = i
      BY <2>1
    <3>2. Gives(stream[i + 1], l)
      BY <2>1, <2>3
    <3>3. Cared(l, i + 1)
      BY <1>1, <3>1, <3>2
    <3>4. Cared(l, IF i + 1 = 0 THEN 0 ELSE (i + 1) - 1)'
      BY <1>0, <1>9, <2>2, <3>1, <3>3, CaredTaken
    <3> QED BY <3>1, <3>4
  <2>4. ASSUME NEW l \in Layouts \ mistaken, rlayouts'[l] # None PROVE Cared(l, 0)'
    <3>1. CASE rlayouts[l] # None /\ ~Ends(stream[1], l)
      <4>1. Cared(l, 0)
        BY <1>1, <3>1
      <4>2. Cared(l, IF 0 = 0 THEN 0 ELSE 0 - 1)'
        BY <1>0, <1>9, <2>2, <3>1, <4>1, CaredTaken
      <4> QED BY <4>2
    <3>2. CASE Gives(stream[1], l)
      <4>1. Cared(l, 1)
        BY <1>1, <2>1, <3>2
      <4>2. Cared(l, IF 1 = 0 THEN 0 ELSE 1 - 1)'
        BY <1>0, <1>9, <2>2, <4>1, CaredTaken
      <4> QED BY <4>2
    <3> QED BY <1>9, <2>4, <3>1, <3>2
  <2> QED BY <2>2, <2>3, <2>4 DEF Caring
<1>10. CASE RemoveLayout
  <2> DEFINE x == Head(stream).id
  <2>1. Take("layout") /\ UNCHANGED WriterSide
    BY <1>10 DEF RemoveLayout
  <2>2. rlayouts' = [rlayouts EXCEPT ![x] = None]
    BY <1>10 DEF RemoveLayout
  <2>3. Head(stream) = stream[1] /\ x \in Layouts
    BY <1>0, <2>1, HeadIs DEF Take
  <2>4. \A l : Ends(stream[1], l) => l = x
    BY <2>3 DEF Ends
  <2> HIDE DEF x
  <2>5. ASSUME NEW l \in Layouts, rlayouts'[l] # None
        PROVE  rlayouts[l] # None /\ ~Ends(stream[1], l)
    BY <1>0, <2>2, <2>3, <2>4, <2>5
  <2> QED BY <1>9, <2>1, <2>5
<1>11. CASE RemoveProperties
  <2>1. Take("map") /\ UNCHANGED <<WriterSide, rlayouts>>
    BY <1>11 DEF RemoveProperties
  <2>2. \A l : ~Ends(stream[1], l)
    BY <1>0, <2>1, Taking DEF Ends
  <2> QED BY <1>9, <2>1, <2>2
<1>12. CASE Read
  <2> DEFINE c == Head(stream)
  <2>1. Take("update") /\ UNCHANGED WriterSide
    BY <1>12 DEF Read
  <2>2. Kept(c) \/ Refused(c) \/ \E d : Laid(c, d)
    BY <1>0, <1>12, ReadIs DEF Relaid, Dropped
  <2>3. c = stream[1] /\ c.kind = "update" /\ c.layout \in Layouts
    BY <1>0, <2>1, Taking, HeadIs
  <2> HIDE DEF c
  <2>4. \A l : ~Ends(stream[1], l)
    BY <2>3 DEF Ends
  <2>5. ASSUME NEW l \in Layouts, rlayouts'[l] # None, rlayouts[l] = None
        PROVE  Gives(stream[1], l)
    <3>1. PICK d : Laid(c, d)
      BY <2>2, <2>5 DEF Kept, Refused, reader
    <3>2. l = c.layout /\ c.has_layout
      BY <1>0, <2>5, <3>1 DEF Laid
    <3> QED BY <2>3, <3>2 DEF Gives
  <2> QED BY <1>9, <2>1, <2>4, <2>5
<1> QED BY <1>2, <1>3, <1>5, <1>6, <1>7, <1>8, <1>10, <1>11, <1>12, StepIs

-----------------------------------------------------------------------------
(* What the last command about a map says. *)

\* The descriptors of maps, now.
LEMMA MapDescs ==
  /\ WriterTypes => \A m \in Maps : wmaps[m] # None => wmaps[m].desc \in WDescs
  /\ ReaderTypes => \A m \in Maps : rmaps[m] # None => rmaps[m].desc \in RDescs
BY WriterDescs, ReaderDescs

\* The descriptors of maps after a step.
LEMMA MapDescsNext ==
  /\ WriterTypes' => \A m \in Maps : wmaps'[m] # None => wmaps'[m].desc \in WDescs'
  /\ ReaderTypes' => \A m \in Maps : rmaps'[m] # None => rmaps'[m].desc \in RDescs'
<1>1. (/\ WriterTypes => \A m \in Maps : wmaps[m] # None => wmaps[m].desc \in WDescs
       /\ ReaderTypes => \A m \in Maps : rmaps[m] # None => rmaps[m].desc \in RDescs)'
  BY MapDescs, PTL
<1> QED BY <1>1

\* The descriptors in the tables, now.
LEMMA LayoutDescsAre ==
  /\ WriterTypes => \A l \in Layouts : wlayouts[l] # None => wlayouts[l] \in WDescs
  /\ ReaderTypes => \A l \in Layouts : rlayouts[l] # None => rlayouts[l] \in RDescs
BY WriterDescs, ReaderDescs

\* The descriptors in the tables after a step.
LEMMA LayoutDescsNext ==
  /\ WriterTypes' => \A l \in Layouts : wlayouts'[l] # None => wlayouts'[l] \in WDescs'
  /\ ReaderTypes' => \A l \in Layouts : rlayouts'[l] # None => rlayouts'[l] \in RDescs'
<1>1. (/\ WriterTypes => \A l \in Layouts : wlayouts[l] # None => wlayouts[l] \in WDescs
       /\ ReaderTypes => \A l \in Layouts : rlayouts[l] # None => rlayouts[l] \in RDescs)'
  BY LayoutDescsAre, PTL
<1> QED BY <1>1

\* What Copies says of the state after a step.
LEMMA CopiesNext ==
  ASSUME \A m \in Maps :
           /\ \A i \in 1..Len(stream') : About(stream'[i], m) =>
                \/ \E e : e = stream'[i] /\ Final(e, m)'
                \/ \E j \in i + 1..Len(stream') : About(stream'[j], m)
           /\ (\A i \in 1..Len(stream') : ~About(stream'[i], m)) => Settled(m)'
  PROVE  Copies'
<1>1. \A m, i, e : e = stream'[i] /\ Final(e, m)' => Final(stream[i], m)'
  BY DEF Final
<1> QED BY <1>1 DEF Copies, About

\* A command is written: about a map of which it says what the writer remembers, or
\* about another.
LEMMA CopiesEmitted ==
  ASSUME WriteTypes, Copies, NEW c \in Commands, Emit(c),
         \A m \in Maps :
           \/ About(c, m) /\ Final(c, m)'
           \/ /\ ~About(c, m) /\ (Settled(m) => Settled(m)')
              /\ \A e : Final(e, m) => Final(e, m)'
  PROVE  Copies'
<1>1. /\ Len(stream) \in Nat /\ Len(stream') = Len(stream) + 1
      /\ stream'[Len(stream) + 1] = c
      /\ \A i \in 1..Len(stream) : stream'[i] = stream[i]
  BY Emitted
<1>2. ASSUME NEW m \in Maps, NEW i \in 1..Len(stream'), About(stream'[i], m)
      PROVE  \/ \E e : e = stream'[i] /\ Final(e, m)'
             \/ \E j \in i + 1..Len(stream') : About(stream'[j], m)
  <2>1. CASE i = Len(stream) + 1
    <3>1. c = stream'[i]
      BY <1>1, <2>1
    <3> QED BY <1>2, <3>1
  <2>2. CASE i # Len(stream) + 1
    <3>1. i \in 1..Len(stream) /\ stream'[i] = stream[i] /\ About(stream[i], m)
      BY <1>1, <1>2, <2>2
    <3>2. Final(stream[i], m) \/ \E j \in i + 1..Len(stream) : About(stream[j], m)
      BY <3>1 DEF Copies
    <3>3. CASE About(c, m)
      <4>1. Len(stream) + 1 \in i + 1..Len(stream')
        BY <1>1, <3>1
      <4> QED BY <1>1, <3>3, <4>1
    <3>4. CASE ~About(c, m) /\ Final(stream[i], m)
      <4>1. PICK e : e = stream[i]
        OBVIOUS
      <4>2. Final(e, m)
        BY <3>4, <4>1
      <4> QED BY <3>1, <3>4, <4>1, <4>2
    <3>5. ASSUME NEW j \in i + 1..Len(stream), About(stream[j], m)
          PROVE  \E k \in i + 1..Len(stream') : About(stream'[k], m)
      <4>1. j \in 1..Len(stream) /\ j \in i + 1..Len(stream')
        BY <1>1, <3>1
      <4> QED BY <1>1, <3>5, <4>1
    <3> QED BY <3>2, <3>3, <3>4, <3>5
  <2> QED BY <2>1, <2>2
<1>3. ASSUME NEW m \in Maps, \A i \in 1..Len(stream') : ~About(stream'[i], m)
      PROVE  Settled(m)'
  <2>1. Len(stream) + 1 \in 1..Len(stream') /\ \A i \in 1..Len(stream) : i \in 1..Len(stream')
    BY <1>1
  <2>2. ~About(c, m) /\ \A i \in 1..Len(stream) : ~About(stream[i], m)
    BY <1>1, <1>3, <2>1
  <2> QED BY <2>2 DEF Copies
<1> QED BY <1>2, <1>3, CopiesNext

\* The reader obeys a command: what it says of the map is so if it was the last one
\* about the map.
LEMMA CopiesTaken ==
  ASSUME WriteTypes, Copies, NEW kind, Take(kind), UNCHANGED WriterSide,
         \A m \in Maps : IF About(stream[1], m) THEN Final(stream[1], m) => Settled(m)'
                                                ELSE Settled(m) => Settled(m)'
  PROVE  Copies'
<1>1. /\ Len(stream) \in Nat \ {0} /\ Len(stream') = Len(stream) - 1
      /\ \A i \in 1..Len(stream) - 1 : stream'[i] = stream[i + 1]
  BY Taking
<1>2. \A e, m : Final(e, m) => Final(e, m)'
  BY DEF WriterSide, writer, removes, Final
<1>3. ASSUME NEW m \in Maps, NEW i \in 1..Len(stream'), About(stream'[i], m)
      PROVE  \/ \E e : e = stream'[i] /\ Final(e, m)'
             \/ \E j \in i + 1..Len(stream') : About(stream'[j], m)
  <2>1. i + 1 \in 1..Len(stream) /\ stream'[i] = stream[i + 1]
    BY <1>1
  <2>2. \/ Final(stream[i + 1], m)
        \/ \E j \in (i + 1) + 1..Len(stream) : About(stream[j], m)
    BY <1>3, <2>1 DEF Copies
  <2>3. ASSUME NEW j \in (i + 1) + 1..Len(stream), About(stream[j], m)
        PROVE  \E k \in i + 1..Len(stream') : About(stream'[k], m)
    <3>1. /\ j - 1 \in i + 1..Len(stream') /\ j - 1 \in 1..Len(stream) - 1 /\ (j - 1) + 1 = j
      BY <1>1
    <3>2. stream'[j - 1] = stream[j]
      BY <1>1, <3>1
    <3> QED BY <2>3, <3>1, <3>2
  <2>4. ASSUME Final(stream[i + 1], m) PROVE \E e : e = stream'[i] /\ Final(e, m)'
    <3>1. PICK e : e = stream[i + 1]
      OBVIOUS
    <3>2. Final(e, m)
      BY <2>4, <3>1
    <3> QED BY <1>2, <2>1, <3>1, <3>2
  <2> QED BY <2>2, <2>3, <2>4
<1>4. ASSUME NEW m \in Maps, \A i \in 1..Len(stream') : ~About(stream'[i], m)
      PROVE  Settled(m)'
  <2>1. ASSUME NEW i \in 1..Len(stream), i # 1 PROVE ~About(stream[i], m)
    <3>1. /\ i - 1 \in 1..Len(stream') /\ i - 1 \in 1..Len(stream) - 1 /\ (i - 1) + 1 = i
      BY <1>1, <2>1
    <3>2. stream'[i - 1] = stream[i]
      BY <1>1, <3>1
    <3> QED BY <1>4, <3>1, <3>2
  <2>2. 1 \in 1..Len(stream) /\ \A j \in 1 + 1..Len(stream) : j \in 1..Len(stream) /\ j # 1
    BY <1>1
  <2>3. CASE About(stream[1], m)
    <3>1. Final(stream[1], m)
      BY <2>1, <2>2, <2>3 DEF Copies
    <3> QED BY <2>3, <3>1
  <2>4. CASE ~About(stream[1], m)
    <3>1. Settled(m)
      BY <2>1, <2>4 DEF Copies
    <3> QED BY <2>4, <3>1
  <2> QED BY <2>3, <2>4
<1> QED BY <1>3, <1>4, CopiesNext

\* What is remembered of a layout when it has been written is not said of the layouts
\* that the descriptors were of before.
LEMMA IdsKept ==
  ASSUME SourceTypes, WriterTypes, NEW m \in Live, RememberLayout(m),
         \/ UNCHANGED wmaps
         \/ wmaps' = [wmaps EXCEPT ![m] = [desc |-> DescFor(m), hash |-> Hash(m)]],
         UNCHANGED lay,
         NEW n \in Maps, wmaps[n] # None, wmaps'[n] = wmaps[n]
  PROVE  wdesc'[wmaps[n].desc].id = wdesc[wmaps[n].desc].id
<1>1. /\ WriterTypes' /\ wdesc'[DescFor(m)] = [id |-> lay[m], hash |-> shape[lay[m]]]
      /\ \A d \in WDescs' : d # DescFor(m) => d \in WDescs /\ wdesc'[d] = wdesc[d]
  BY Remembered
<1>2. wmaps[n].desc \in WDescs
  BY WriterDescs
<1>4. wmaps[n].desc \in WDescs'
  BY <1>1, MapDescsNext
<1>5. CASE wmaps[n].desc = DescFor(m)
  <2>1. Known(m) # None
    BY <1>2, <1>5, KnownIs
  <2>2. wdesc[DescFor(m)].id = lay[m]
    BY <2>1, KnownIs
  <2> QED BY <1>1, <1>5, <2>2
<1>6. CASE wmaps[n].desc # DescFor(m)
  BY <1>1, <1>4, <1>6
<1> QED BY <1>5, <1>6

\* The copy of a map when an update of it has been read.
LEMMA MapRead ==
  ASSUME ReaderTypes, WriteTypes, Read, NEW c, c = Head(stream)
  PROVE  /\ c.id \in Maps /\ c.layout \in Layouts /\ c.kind = "update" /\ c = stream[1]
         /\ Kept(c) => /\ rmaps'[c.id] # None /\ rmaps'[c.id].desc = rmaps[c.id].desc
                       /\ rmaps'[c.id].shape = rmaps[c.id].shape
                       /\ rmaps'[c.id].val = Decode(c, rmaps[c.id].shape)
         /\ \A d : Relaid(c, d) => /\ rmaps'[c.id] # None /\ rmaps'[c.id].desc = d
                                   /\ rmaps'[c.id].shape = rdesc'[d].shape
                                   /\ rmaps'[c.id].val = Decode(c, rdesc'[d].shape)
<1>1. /\ c.id \in Maps /\ c.layout \in Layouts /\ c.kind = "update" /\ c.state \in States
      /\ c = stream[1]
  BY HeadIs DEF Read, Take
<1>2. \A s : Decode(c, s) \in Values \cup {None}
  BY <1>1 DEF Decode, States
<1>3. rmaps \in [Maps -> ReaderMaps \cup {None}]
  BY DEF ReaderTypes
<1>4. ASSUME NEW w \in ReaderMaps, rmaps' = [rmaps EXCEPT ![c.id] = w]
      PROVE  rmaps'[c.id] = w /\ rmaps'[c.id] # None
  BY <1>1, <1>3, <1>4, SyncAssumption
<1>5. ASSUME Kept(c)
      PROVE  /\ rmaps'[c.id] # None /\ rmaps'[c.id].desc = rmaps[c.id].desc
             /\ rmaps'[c.id].shape = rmaps[c.id].shape
             /\ rmaps'[c.id].val = Decode(c, rmaps[c.id].shape)
  <2> DEFINE w == [desc |-> rmaps[c.id].desc, shape |-> rmaps[c.id].shape,
                   val |-> Decode(c, rmaps[c.id].shape)]
  <2>1. rmaps' = [rmaps EXCEPT ![c.id] = w] /\ rmaps[c.id] # None
    BY <1>5 DEF Kept
  <2>2. rmaps[c.id].desc \in Descs /\ rmaps[c.id].shape \in Shapes
    BY <1>1, <2>1, ReaderDescs
  <2>3. w \in ReaderMaps
    BY <1>2, <2>2 DEF ReaderMaps
  <2>4. /\ w.desc = rmaps[c.id].desc /\ w.shape = rmaps[c.id].shape
        /\ w.val = Decode(c, rmaps[c.id].shape)
    OBVIOUS
  <2> HIDE DEF w
  <2> QED BY <1>4, <2>1, <2>3, <2>4
<1>6. ASSUME NEW d, Relaid(c, d)
      PROVE  /\ rmaps'[c.id] # None /\ rmaps'[c.id].desc = d
             /\ rmaps'[c.id].shape = rdesc'[d].shape
             /\ rmaps'[c.id].val = Decode(c, rdesc'[d].shape)
  <2> DEFINE w == [desc |-> d, shape |-> rdesc'[d].shape, val |-> Decode(c, rdesc'[d].shape)]
  <2>1. /\ rmaps' = [rmaps EXCEPT ![c.id] = w] /\ d \in Descs /\ d \in RDescs'
    BY <1>6 DEF Relaid, Laid
  <2>2. rdesc'[d].shape \in Shapes
    BY <2>1, ReadIs DEF ReaderTypes, LayoutCopies
  <2>3. w \in ReaderMaps
    BY <1>2, <2>1, <2>2 DEF ReaderMaps
  <2>4. /\ w.desc = d /\ w.shape = rdesc'[d].shape /\ w.val = Decode(c, rdesc'[d].shape)
    OBVIOUS
  <2> HIDE DEF w
  <2> QED BY <1>4, <2>1, <2>3, <2>4
<1> QED BY <1>1, <1>5, <1>6

\* What a map contains.
LEMMA StateIs ==
  ASSUME NEW s \in States
  PROVE  /\ s.shape \in Shapes /\ s.val \in Values /\ s = [shape |-> s.shape, val |-> s.val]
         /\ [s EXCEPT !.val = None] = [shape |-> s.shape, val |-> None]
BY DEF States

\* The copy of a map when an update has been read with its layout: the state it is of,
\* or if the buffer is refused the layout of that state, on a copy there was.
LEMMA CopyTaken ==
  ASSUME ReaderTypes, WriteTypes, Read, NEW c, c = Head(stream), c.id \notin misread'
  PROVE  Replica(c.id)' = IF c.state.val \notin Sparse THEN c.state
                          ELSE IF rmaps[c.id] = None THEN None
                          ELSE [c.state EXCEPT !.val = None]
<1>1. /\ \/ Kept(c) /\ Judged(c, rmaps[c.id].shape)
         \/ Refused(c) /\ Judged(c, None)
         \/ \E d : (Relaid(c, d) \/ Dropped(c, d)) /\ Judged(c, rdesc'[d].shape)
      /\ c.state \in States
  BY ReadIs, HeadIs DEF Read, Take
<1>2. \A found : Judged(c, found) => found = c.state.shape
  BY DEF Judged
<1>3. /\ c.state.shape \in Shapes /\ c.state.val \in Values
      /\ c.state = [shape |-> c.state.shape, val |-> c.state.val]
      /\ [c.state EXCEPT !.val = None] = [shape |-> c.state.shape, val |-> None]
  BY <1>1, StateIs
<1>4. ASSUME rmaps'[c.id] # None, rmaps'[c.id].shape = c.state.shape,
             rmaps'[c.id].val = Decode(c, c.state.shape)
      PROVE  Replica(c.id)' = IF c.state.val \notin Sparse THEN c.state
                                                           ELSE [c.state EXCEPT !.val = None]
  BY <1>3, <1>4 DEF Replica, Decode
<1>5. CASE Kept(c) /\ Judged(c, rmaps[c.id].shape)
  <2>1. rmaps[c.id] # None
    BY <1>5 DEF Kept
  <2>2. /\ rmaps'[c.id] # None /\ rmaps'[c.id].shape = c.state.shape
        /\ rmaps'[c.id].val = Decode(c, c.state.shape)
    BY <1>2, <1>5, MapRead
  <2> QED BY <1>4, <2>1, <2>2
<1>6. CASE Refused(c) /\ Judged(c, None)
  BY <1>2, <1>3, <1>6, SyncAssumption
<1>7. ASSUME NEW d, Relaid(c, d), Judged(c, rdesc'[d].shape)
      PROVE  Replica(c.id)' = IF c.state.val \notin Sparse THEN c.state
                              ELSE IF rmaps[c.id] = None THEN None
                              ELSE [c.state EXCEPT !.val = None]
  <2>1. rdesc'[d].shape = c.state.shape
    BY <1>2, <1>7
  <2>2. /\ rmaps'[c.id] # None /\ rmaps'[c.id].shape = c.state.shape
        /\ rmaps'[c.id].val = Decode(c, c.state.shape)
    BY <1>7, <2>1, MapRead
  <2>3. rmaps[c.id] = None => c.state.val \notin Sparse
    BY <1>7, <2>1 DEF Relaid
  <2> QED BY <1>4, <2>2, <2>3
<1>8. ASSUME NEW d, Dropped(c, d), Judged(c, rdesc'[d].shape)
      PROVE  Replica(c.id)' = None /\ c.state.val \in Sparse /\ rmaps[c.id] = None
  <2>1. /\ rmaps' = rmaps /\ rmaps[c.id] = None
        /\ Decode(c, rdesc'[d].shape) = None
    BY <1>8 DEF Dropped
  <2>2. rdesc'[d].shape = c.state.shape
    BY <1>2, <1>8
  <2>3. c.state.val \in Sparse
    BY <1>3, <2>1, <2>2, SyncAssumption DEF Decode
  <2> QED BY <2>1, <2>3 DEF Replica
<1> QED BY <1>1, <1>5, <1>6, <1>7, <1>8

\* The copies of the other maps when an update is read.
LEMMA OthersKept ==
  ASSUME ReaderTypes, WriteTypes, Read, NEW c, c = Head(stream), NEW m \in Maps, m # c.id
  PROVE  /\ rmaps'[m] = rmaps[m] /\ (m \in misread' <=> m \in misread)
         /\ rmaps[m] # None => rdesc'[rmaps[m].desc].id = rdesc[rmaps[m].desc].id
<1>1. /\ Kept(c) \/ Refused(c) \/ \E d : Relaid(c, d) \/ Dropped(c, d)
      /\ \E found : Judged(c, found)
      /\ ReaderTypes'
  BY ReadIs
<1>2. /\ rmaps \in [Maps -> ReaderMaps \cup {None}] /\ c.layout \in Layouts
      /\ \A l \in Layouts : rlayouts[l] # None => rdesc[rlayouts[l]].id = l
  BY HeadIs DEF ReaderTypes, Read, Take
<1>3. ASSUME Kept(c) \/ Refused(c) PROVE rmaps'[m] = rmaps[m] /\ rdesc' = rdesc
  BY <1>2, <1>3 DEF Kept, Refused, reader
<1>4. ASSUME NEW d, Relaid(c, d) \/ Dropped(c, d)
      PROVE  /\ rmaps'[m] = rmaps[m]
             /\ rmaps[m] # None => rdesc'[rmaps[m].desc].id = rdesc[rmaps[m].desc].id
  <2> DEFINE w == [desc |-> d, shape |-> rdesc'[d].shape, val |-> Decode(c, rdesc'[d].shape)]
  <2>1. Laid(c, d) /\ (rmaps' = [rmaps EXCEPT ![c.id] = w] \/ rmaps' = rmaps)
    BY <1>4 DEF Relaid, Dropped
  <2> HIDE DEF w
  <2>2. rmaps'[m] = rmaps[m]
    BY <1>2, <2>1
  <2>3. ASSUME rmaps[m] # None PROVE rdesc'[rmaps[m].desc].id = rdesc[rmaps[m].desc].id
    <3>1. rmaps[m].desc \in RDescs
      BY <2>3, ReaderDescs
    <3>2. CASE rmaps[m].desc = d
      <4>1. rlayouts[c.layout] = d /\ rdesc'[d].id = c.layout /\ rlayouts[c.layout] # None
        BY <2>1, <3>1, <3>2 DEF Laid
      <4> QED BY <1>2, <3>2, <4>1
    <3>3. CASE rmaps[m].desc # d
      <4>1. rmaps[m].desc \in RDescs'
        <5> QED BY <1>1, <2>2, <2>3, MapDescsNext
      <4> QED BY <2>1, <3>3, <4>1 DEF Laid
    <3> QED BY <3>2, <3>3
  <2> QED BY <2>2, <2>3
<1>5. m \in misread' <=> m \in misread
  BY <1>1 DEF Judged
<1> QED BY <1>1, <1>3, <1>4, <1>5

\* Every step keeps the last command about a map, and what the reader has made of it,
\* true to what the writer remembers.
LEMMA CopiesStep ==
  Types /\ ListShape /\ Removals /\ Promises /\ Copies /\ [Next]_vars => Copies'
<1> SUFFICES ASSUME Types, ListShape, Removals, Promises, Copies, [Next]_vars PROVE Copies'
  OBVIOUS
<1>0. /\ SourceTypes /\ WriterTypes /\ WriteTypes /\ ReaderTypes
      /\ layout_remove_list \in Seq(Layouts) /\ map_remove_list \in Seq(Maps)
      /\ Len(stream) \in Nat /\ rlayouts \in [Layouts -> Descs \cup {None}]
      /\ rmaps \in [Maps -> ReaderMaps \cup {None}]
      /\ wmaps \in [Maps -> WriterMaps \cup {None}]
  BY DEF Types, WriteTypes, WriterTypes, ReaderTypes
<1>s. ASSUME stream' = stream,
             \A m \in Maps : (Settled(m) => Settled(m)') /\ \A e : Final(e, m) => Final(e, m)'
      PROVE  Copies'
  BY <1>s DEF Copies, About, Final
<1>2. CASE Same
  <2>1. UNCHANGED <<stream, wmaps, wdesc, map_remove_list, rmaps, rdesc, mistaken, misread>>
    BY <1>2 DEF Same, writer, removes, reader
  <2> QED BY <1>s, <2>1 DEF Settled, Final, Shows, Replica
<1>3. ASSUME NEW dead \in SUBSET Layouts, NEW gone \in SUBSET Maps, Forgetting(dead, gone)
      PROVE  Copies'
  <2>1. /\ WriterTypes' /\ \A m \in Maps : wmaps'[m] = IF m \in gone THEN None ELSE wmaps[m]
        /\ \A d \in WDescs' : d \in WDescs /\ wdesc'[d] = wdesc[d]
        /\ Range(map_remove_list')
             = Range(map_remove_list) \cup {m \in gone : wmaps[m] # None}
    BY <1>0, <1>3, Forgotten DEF Forgetting
  <2>2. UNCHANGED <<stream, rmaps, rdesc, mistaken, misread>>
    BY <1>3 DEF Forgetting, reader
  <2>4. ASSUME NEW m \in Maps, wmaps'[m] # None
        PROVE  wmaps'[m] = wmaps[m] /\ wdesc'[wmaps[m].desc] = wdesc[wmaps[m].desc]
    BY <2>1, MapDescsNext, <2>4
  <2>5. ASSUME NEW m \in Maps, wmaps'[m] = None, m \notin Range(map_remove_list')
        PROVE  wmaps[m] = None /\ m \notin Range(map_remove_list)
    BY <2>1, <2>5
  <2>6. ASSUME NEW m \in Maps
        PROVE  (Settled(m) => Settled(m)') /\ \A e : Final(e, m) => Final(e, m)'
    <3>1. CASE wmaps'[m] # None
      BY <2>2, <2>4, <3>1 DEF Settled, Final, Shows, Replica
    <3>2. CASE wmaps'[m] = None
      BY <2>2, <2>5, <3>2 DEF Settled, Final, Shows, Replica
    <3> QED BY <3>1, <3>2
  <2> QED BY <1>s, <2>2, <2>6
<1>4. CASE RemoveLayoutCommand
  <2>a. PICK x : x = Head(layout_remove_list)
    OBVIOUS
  <2>b. PICK c : c = [kind |-> "layout", id |-> x]
    OBVIOUS
  <2>1. /\ Emit(c) /\ layout_remove_list # <<>>
        /\ UNCHANGED <<wmaps, wdesc, map_remove_list, rmaps, rdesc, mistaken, misread>>
    BY <1>4, <2>a, <2>b DEF RemoveLayoutCommand, writer, reader
  <2>2. c \in Commands /\ \A m : ~About(c, m)
    <3>1. x \in Layouts
      BY <1>0, <2>1, <2>a
    <3> QED BY <2>b, <3>1 DEF Commands, About
  <2>3. \A m : (Settled(m) => Settled(m)') /\ \A e : Final(e, m) => Final(e, m)'
    BY <2>1 DEF Settled, Final, Shows, Replica
  <2> QED BY <1>0, <2>1, <2>2, <2>3, CopiesEmitted
<1>5. CASE RemoveMapCommand
  <2>a. PICK x : x = Head(map_remove_list)
    OBVIOUS
  <2>b. PICK c : c = [kind |-> "map", id |-> x]
    OBVIOUS
  <2>1. /\ Emit(c) /\ map_remove_list # <<>> /\ map_remove_list' = Tail(map_remove_list)
        /\ UNCHANGED <<wmaps, wdesc, rmaps, rdesc, mistaken, misread>>
    BY <1>5, <2>a, <2>b DEF RemoveMapCommand, writer, reader
  <2>2. Range(map_remove_list) = Range(map_remove_list') \cup {x}
    <3>1. Range(map_remove_list) = Range(Tail(map_remove_list)) \cup {Head(map_remove_list)}
      BY <1>0, <2>1, TailRange
    <3> QED BY <2>1, <2>a, <3>1
  <2>3. c \in Commands /\ c.kind = "map" /\ \A m : About(c, m) <=> m = x
    <3>1. x \in Maps
      BY <1>0, <2>1, <2>a
    <3> QED BY <2>b, <3>1 DEF Commands, About
  <2>4. wmaps[x] = None
    BY <2>2 DEF Removals
  <2>5. ASSUME NEW m \in Maps, m # x
        PROVE  (Settled(m) => Settled(m)') /\ \A e : Final(e, m) => Final(e, m)'
    BY <2>1, <2>2, <2>5 DEF Settled, Final, Shows, Replica
  <2>6. Final(c, x)'
    BY <2>1, <2>3, <2>4 DEF Final
  <2> QED BY <1>0, <2>1, <2>3, <2>5, <2>6, CopiesEmitted
<1>6. CASE Told
  <2>a. PICK x : x = cur
    OBVIOUS
  <2>b. PICK c : c = [kind |-> "update", id |-> cur, layout |-> lay[cur],
                      has_layout |-> HasLayout(cur), state |-> Hash(cur)]
    OBVIOUS
  <2> DEFINE w == [desc |-> DescFor(x), hash |-> Hash(x)]
  <2>1. /\ RememberLayout(x) /\ UNCHANGED <<removes, reader, misread, lay>> /\ x \in Live
        /\ wmaps' = [wmaps EXCEPT ![x] = w]
        /\ Emit(c) /\ c \in Commands /\ x \in Maps /\ mistaken \subseteq mistaken'
    BY <1>6, <2>a, <2>b, TellingIs DEF Told
  <2>2. /\ wdesc'[DescFor(x)] = [id |-> lay[x], hash |-> shape[lay[x]]]
        /\ WriterTypes'
    BY <1>0, <2>1, Remembered
  <2>3. w # None
    <3>1. w \in WriterMaps
      BY <1>0, <2>1, KnownIs, LiveIs DEF WriterMaps
    <3> QED BY <3>1, SyncAssumption
  <2>4. UNCHANGED <<map_remove_list, rmaps, rdesc>>
    BY <2>1 DEF removes, reader
  <2>5. wmaps'[x] = w /\ \A m \in Maps : m # x => wmaps'[m] = wmaps[m]
    <3> HIDE DEF w
    <3> QED BY <1>0, <2>1
  <2>6. Final(c, x)'
    <3>1. wmaps'[x].desc = DescFor(x) /\ wmaps'[x].hash = Hash(x)
      BY <2>5
    <3>2. wdesc'[wmaps'[x].desc].id = lay[x]
      BY <2>2, <3>1
    <3>3. c.kind = "update" /\ c.state = Hash(x) /\ c.layout = lay[x]
      BY <2>a, <2>b
    <3>4. wmaps'[x] # None
      BY <2>3, <2>5
    <3> QED BY <3>1, <3>2, <3>3, <3>4 DEF Final
  <2>7. \A m : About(c, m) <=> m = x
    BY <2>a, <2>b DEF About
  <2>8. ASSUME NEW m \in Maps, m # x
        PROVE  (Settled(m) => Settled(m)') /\ \A e : Final(e, m) => Final(e, m)'
    <3>1. wmaps[m] # None => wdesc'[wmaps[m].desc].id = wdesc[wmaps[m].desc].id
      BY <1>0, <2>1, <2>5, <2>8, IdsKept
    <3>2. wmaps'[m] = wmaps[m]
      BY <2>5, <2>8
    <3>3. UNCHANGED misread /\ (mistaken' = {} => mistaken = {})
      BY <2>1
    <3> HIDE DEF w
    <3> QED BY <2>4, <3>1, <3>2, <3>3 DEF Settled, Final, Shows, Replica
  <2> QED BY <1>0, <2>1, <2>6, <2>7, <2>8, CopiesEmitted
<1>7. CASE NotTold
  <2>1. /\ UNCHANGED <<stream, rmaps, rdesc, misread, map_remove_list, wmaps, lay>>
        /\ mistaken \subseteq mistaken' /\ RememberLayout(cur) /\ cur \in Live
    BY <1>7 DEF NotTold, reader, removes, source
  <2>2. \A m \in Maps : wmaps[m] # None =>
          wdesc'[wmaps[m].desc].id = wdesc[wmaps[m].desc].id
    BY <1>0, <2>1, IdsKept
  <2>3. mistaken' = {} => mistaken = {}
    BY <2>1
  <2>4. ASSUME NEW m \in Maps
        PROVE  (Settled(m) => Settled(m)') /\ \A e : Final(e, m) => Final(e, m)'
    BY <2>1, <2>2, <2>3 DEF Settled, Final, Shows, Replica
  <2> QED BY <1>s, <2>1, <2>4
<1>8. ASSUME UNCHANGED WriterSide PROVE UNCHANGED <<wmaps, wdesc, map_remove_list, mistaken>>
  BY <1>8 DEF WriterSide, writer, removes
<1>9. CASE RemoveLayout
  <2>1. /\ Take("layout") /\ UNCHANGED <<WriterSide, rmaps, misread>>
        /\ \A d \in RDescs' : d \in RDescs /\ rdesc'[d] = rdesc[d]
        /\ ReaderTypes'
    BY <1>0, <1>9, LayoutRemoved DEF RemoveLayout
  <2>2. \A m \in Maps : rmaps[m] # None => rdesc'[rmaps[m].desc] = rdesc[rmaps[m].desc]
    <3> QED BY <2>1, MapDescsNext
  <2>3. \A m : ~About(stream[1], m)
    BY <1>0, <2>1, Taking DEF About
  <2>4. ASSUME NEW m \in Maps PROVE Settled(m) => Settled(m)'
    BY <1>8, <2>1, <2>2 DEF Settled, Shows, Replica
  <2> QED BY <1>0, <2>1, <2>3, <2>4, CopiesTaken
<1>10. CASE RemoveProperties
  <2>a. PICK x : x = Head(stream).id
    OBVIOUS
  <2>1. /\ Take("map") /\ UNCHANGED WriterSide /\ misread' = misread \ {x}
        /\ rmaps' = [rmaps EXCEPT ![x] = None] /\ x \in Maps
        /\ \A d \in RDescs' : d \in RDescs /\ rdesc'[d] = rdesc[d]
        /\ ReaderTypes'
    BY <1>0, <1>10, <2>a, MapRemoved DEF RemoveProperties
  <2>2. stream[1].kind = "map" /\ x = stream[1].id
    BY <1>0, <2>1, <2>a, Taking
  <2>3. rmaps'[x] = None /\ \A m \in Maps : m # x => rmaps'[m] = rmaps[m]
    BY <1>0, <2>1
  <2>4. \A m \in Maps : rmaps'[m] # None => rdesc'[rmaps'[m].desc] = rdesc[rmaps'[m].desc]
    <3> QED BY <2>1, MapDescsNext
  <2>5. \A m : About(stream[1], m) <=> m = x
    BY <2>2 DEF About
  <2>6. ASSUME NEW m \in Maps, m # x PROVE Settled(m) => Settled(m)'
    <3>1. rmaps'[m] = rmaps[m] /\ (m \in misread' <=> m \in misread)
      BY <2>1, <2>3, <2>6
    <3>2. rmaps[m] # None => rdesc'[rmaps[m].desc] = rdesc[rmaps[m].desc]
      BY <2>4, <3>1
    <3> QED BY <1>8, <2>1, <3>1, <3>2 DEF Settled, Shows, Replica
  <2>7. ASSUME Final(stream[1], x) PROVE Settled(x)'
    <3>1. wmaps[x] = None
      BY <2>2, <2>7 DEF Final
    <3> QED BY <1>8, <2>1, <2>3, <3>1 DEF Settled
  <2> QED BY <1>0, <2>1, <2>5, <2>6, <2>7, CopiesTaken
<1>11. CASE Read
  <2>a. PICK c : c = Head(stream)
    OBVIOUS
  <2>1. Take("update") /\ UNCHANGED WriterSide
    BY <1>11 DEF Read
  <2>2. Kept(c) \/ Refused(c) \/ \E d : Relaid(c, d) \/ Dropped(c, d)
    BY <1>0, <1>11, <2>a, ReadIs
  <2>3. c = stream[1] /\ c.kind = "update" /\ c.layout \in Layouts /\ c.id \in Maps
    BY <1>0, <2>1, <2>a, Taking, HeadIs
  <2>4. \A m \in Maps : m # c.id =>
          /\ rmaps'[m] = rmaps[m] /\ (m \in misread' <=> m \in misread)
          /\ rmaps[m] # None => rdesc'[rmaps[m].desc].id = rdesc[rmaps[m].desc].id
    BY <1>0, <1>11, <2>a, OthersKept
  <2>5. \A m : About(stream[1], m) <=> m = c.id
    BY <2>3 DEF About
  <2>6. ASSUME NEW m \in Maps, m # c.id PROVE Settled(m) => Settled(m)'
    <3>1. /\ rmaps'[m] = rmaps[m] /\ (m \in misread' <=> m \in misread)
          /\ rmaps[m] # None => rdesc'[rmaps[m].desc].id = rdesc[rmaps[m].desc].id
      BY <2>4, <2>6
    <3> QED BY <1>8, <2>1, <3>1 DEF Settled, Shows, Replica
  <2>7. ASSUME mistaken = {}, rmaps'[c.id] # None
        PROVE  rdesc'[rmaps'[c.id].desc].id = c.layout
    <3>1. ~Refused(c)
      <4>1. SUFFICES ASSUME ~c.has_layout PROVE rlayouts[c.layout] # None
        BY DEF Refused
      <4>2. 1 \in 1..Len(stream)
        BY <1>0, <2>1, Taking
      <4>3. Understood
        BY <2>7 DEF Promises
      <4>4. Has(c.layout, c.state.shape, 1 - 1)
        BY <2>3, <4>1, <4>2, <4>3 DEF Understood
      <4> QED BY <4>4 DEF Has
    <3>2. CASE Kept(c)
      BY <1>0, <1>11, <2>a, <3>2, MapRead DEF Kept, KeepsLayout
    <3>3. ASSUME NEW d, Relaid(c, d) PROVE rdesc'[rmaps'[c.id].desc].id = c.layout
      <4>1. rmaps'[c.id].desc = d
        BY <1>0, <1>11, <2>a, <3>3, MapRead
      <4>2. rdesc'[d].id = c.layout
        BY <3>3 DEF Relaid, Laid
      <4> QED BY <4>1, <4>2
    <3>4. ~ \E d : Dropped(c, d)
      BY <2>7 DEF Dropped
    <3> QED BY <2>2, <3>1, <3>2, <3>3, <3>4
  <2>8. ASSUME Final(c, c.id) PROVE Settled(c.id)'
    <3>1. CASE wmaps[c.id] = None
      BY <1>8, <2>1, <2>3, <2>8, <3>1 DEF Final, Settled
    <3>2. CASE wmaps[c.id] # None
      <4>1. c.state = wmaps[c.id].hash /\ c.layout = wdesc[wmaps[c.id].desc].id
        BY <2>8, <3>2 DEF Final
      <4>2. c.id \notin misread' => Shows(c.id, c.state)'
        BY <1>0, <1>11, <2>a, CopyTaken DEF Shows
      <4>3. c.id \notin misread' => Shows(c.id, wmaps[c.id].hash)'
        BY <1>8, <2>1, <4>1, <4>2
      <4> QED BY <1>8, <2>1, <2>7, <3>2, <4>1, <4>3 DEF Settled
    <3> QED BY <3>1, <3>2
  <2> QED BY <1>0, <2>1, <2>3, <2>5, <2>6, <2>8, CopiesTaken
<1> QED BY <1>2, <1>3, <1>4, <1>5, <1>6, <1>7, <1>9, <1>10, <1>11, StepIs

-----------------------------------------------------------------------------
(* What the reader understands. *)

\* What Understood says of the state after a step.
LEMMA UnderstoodNext ==
  ASSUME misread' = {},
         \A i \in 1..Len(stream') : \A l, s, m :
           /\ stream'[i].kind = "update" /\ ~stream'[i].has_layout
           /\ l = stream'[i].layout /\ s = stream'[i].state.shape /\ m = stream'[i].id
           => Has(l, s, i - 1)' /\ Fresh(m, l, i - 1)',
         \A l \in Layouts : \A s, n :
           wlayouts'[l] # None /\ s = wdesc'[wlayouts'[l]].hash /\ n = Len(stream') =>
             /\ Has(l, s, n)'
             /\ \A m \in Maps : wmaps'[m] # None /\ wmaps'[m].desc = wlayouts'[l] =>
                  Fresh(m, l, n)'
  PROVE  Understood'
<1>1. \A i, l, s : l = stream'[i].layout /\ s = stream'[i].state.shape /\ Has(l, s, i - 1)'
        => Has(stream[i].layout, stream[i].state.shape, i - 1)'
  BY DEF Has
<1>2. \A i, l, m : l = stream'[i].layout /\ m = stream'[i].id /\ Fresh(m, l, i - 1)'
        => Fresh(stream[i].id, stream[i].layout, i - 1)'
  BY DEF Fresh
<1>3. \A l, s, n : s = wdesc'[wlayouts'[l]].hash /\ n = Len(stream') /\ Has(l, s, n)'
        => Has(l, wdesc[wlayouts[l]].hash, Len(stream))'
  BY DEF Has
<1>4. \A l, m, n : n = Len(stream') /\ Fresh(m, l, n)' => Fresh(m, l, Len(stream))'
  BY DEF Fresh
<1>5. \A i \in 1..Len(stream') : stream'[i].kind = "update" /\ ~stream'[i].has_layout =>
        /\ Has(stream[i].layout, stream[i].state.shape, i - 1)'
        /\ Fresh(stream[i].id, stream[i].layout, i - 1)'
  BY <1>1, <1>2
<1>6. ASSUME NEW l \in Layouts, wlayouts'[l] # None
      PROVE  /\ Has(l, wdesc[wlayouts[l]].hash, Len(stream))'
             /\ \A m \in Maps : wmaps'[m] # None /\ wmaps'[m].desc = wlayouts'[l] =>
                  Fresh(m, l, Len(stream))'
  BY <1>3, <1>4, <1>6
<1> QED BY <1>5, <1>6 DEF Understood

\* The reader will have a layout behind a command that is written.
LEMMA HasEmitted ==
  ASSUME WriteTypes, NEW c \in Commands, Emit(c), UNCHANGED reader, NEW l, NEW s
  PROVE  /\ \A n \in 0..Len(stream) : Has(l, s, n) => Has(l, s, n)'
         /\ Has(l, s, Len(stream)) /\ ~Gives(c, l) /\ ~Ends(c, l) =>
              \A n : n = Len(stream') => Has(l, s, n)'
         /\ Gives(c, l) /\ c.state.shape = s => \A n : n = Len(stream') => Has(l, s, n)'
<1>1. /\ Len(stream) \in Nat /\ Len(stream') = Len(stream) + 1
      /\ stream'[Len(stream) + 1] = c
      /\ \A i \in 1..Len(stream) : stream'[i] = stream[i]
      /\ UNCHANGED <<rlayouts, rdesc>>
  BY Emitted DEF reader
<1>2. ASSUME NEW n \in 0..Len(stream), Has(l, s, n) PROVE Has(l, s, n)'
  <2>1. \A i \in 1..n : i \in 1..Len(stream) /\ stream'[i] = stream[i]
    BY <1>1
  <2>2. \A i \in 1..n : \A j \in i + 1..n : j \in 1..n
    BY <1>1
  <2> QED BY <1>1, <1>2, <2>1, <2>2 DEF Has, Gives, Ends
<1>3. ASSUME NEW n, n = Len(stream'), Has(l, s, Len(stream)), ~Gives(c, l), ~Ends(c, l)
      PROVE  Has(l, s, n)'
  <2>1. ASSUME NEW i \in 1..n, \/ Gives(stream'[i], l) /\ stream'[i].state.shape # s
                               \/ Ends(stream'[i], l)
        PROVE  \E j \in i + 1..n : Gives(stream'[j], l) \/ Ends(stream'[j], l)
    <3>1. i \in 1..Len(stream) /\ stream'[i] = stream[i]
      BY <1>1, <1>3, <2>1
    <3>2. PICK j \in i + 1..Len(stream) : Gives(stream[j], l) \/ Ends(stream[j], l)
      BY <1>3, <2>1, <3>1 DEF Has
    <3>3. j \in i + 1..n /\ j \in 1..Len(stream)
      BY <1>1, <1>3, <3>1
    <3> QED BY <1>1, <3>2, <3>3
  <2>2. ASSUME \A i \in 1..n : ~Gives(stream'[i], l) /\ ~Ends(stream'[i], l)
        PROVE  rlayouts'[l] # None /\ rdesc'[rlayouts'[l]].shape = s
    <3>1. \A i \in 1..Len(stream) : i \in 1..n
      BY <1>1, <1>3
    <3>2. \A i \in 1..Len(stream) : ~Gives(stream[i], l) /\ ~Ends(stream[i], l)
      BY <1>1, <2>2, <3>1
    <3> QED BY <1>1, <1>3, <3>2 DEF Has
  <2> QED BY <2>1, <2>2 DEF Has, Gives, Ends
<1>4. ASSUME NEW n, n = Len(stream'), Gives(c, l), c.state.shape = s
      PROVE  Has(l, s, n)'
  <2>1. n \in 1..n /\ stream'[n] = c /\ ~Ends(c, l)
    BY <1>1, <1>4 DEF Gives, Ends
  <2>2. \A i \in 1..n : i = n \/ n \in i + 1..n
    BY <1>1, <1>4
  <2>3. \A i \in 1..n : (Gives(stream'[i], l) /\ stream'[i].state.shape # s) \/ Ends(stream'[i], l)
          => \E j \in i + 1..n : Gives(stream'[j], l) \/ Ends(stream'[j], l)
    BY <1>4, <2>1, <2>2
  <2>4. ~ \A i \in 1..n : ~Gives(stream'[i], l) /\ ~Ends(stream'[i], l)
    BY <1>4, <2>1
  <2> QED BY <2>3, <2>4 DEF Has, Gives, Ends
<1> QED BY <1>2, <1>3, <1>4

\* The copy of a map will not be of a dead layout behind a command that is written.
LEMMA FreshEmitted ==
  ASSUME WriteTypes, NEW c \in Commands, Emit(c), UNCHANGED reader, NEW m, NEW l
  PROVE  /\ \A n \in 0..Len(stream) : Fresh(m, l, n) => Fresh(m, l, n)'
         /\ ~Ends(c, l) /\ (About(c, m) \/ Fresh(m, l, Len(stream))) =>
              \A n : n = Len(stream') => Fresh(m, l, n)'
<1>1. /\ Len(stream) \in Nat /\ Len(stream') = Len(stream) + 1
      /\ stream'[Len(stream) + 1] = c
      /\ \A i \in 1..Len(stream) : stream'[i] = stream[i]
      /\ UNCHANGED <<rlayouts, rdesc, rmaps>>
  BY Emitted DEF reader
<1>2. ASSUME NEW n \in 0..Len(stream), Fresh(m, l, n) PROVE Fresh(m, l, n)'
  <2>1. \A i \in 1..n : i \in 1..Len(stream) /\ stream'[i] = stream[i]
    BY <1>1
  <2>2. \A i \in 1..n : \A j \in i + 1..n : j \in 1..n
    BY <1>1
  <2> QED BY <1>1, <1>2, <2>1, <2>2 DEF Fresh, About, Ends
<1>3. ASSUME NEW n, n = Len(stream'), ~Ends(c, l), About(c, m) \/ Fresh(m, l, Len(stream))
      PROVE  Fresh(m, l, n)'
  <2>1. ASSUME NEW i \in 1..n, NEW j \in i + 1..n, About(stream'[i], m),
               stream'[i].kind = "update", stream'[i].layout = l, Ends(stream'[j], l)
        PROVE  \E k \in i + 1..n : About(stream'[k], m)
    <3>1. /\ j \in 1..Len(stream) /\ j \in i + 1..Len(stream) /\ i \in 1..Len(stream)
      <4>1. j # n
        BY <1>1, <1>3, <2>1
      <4> QED BY <1>1, <1>3, <4>1
    <3>2. CASE About(c, m)
      <4>1. n \in i + 1..n /\ stream'[n] = c
        BY <1>1, <1>3, <3>1
      <4> QED BY <3>2, <4>1
    <3>3. CASE Fresh(m, l, Len(stream))
      <4>1. stream'[i] = stream[i] /\ stream'[j] = stream[j]
        BY <1>1, <3>1
      <4>2. PICK k \in i + 1..Len(stream) : About(stream[k], m)
        BY <2>1, <3>1, <3>3, <4>1 DEF Fresh
      <4>3. k \in i + 1..n /\ k \in 1..Len(stream)
        BY <1>1, <1>3, <3>1
      <4> QED BY <1>1, <4>2, <4>3
    <3> QED BY <1>3, <3>2, <3>3
  <2>2. ASSUME \A i \in 1..n : ~About(stream'[i], m), rmaps'[m] # None,
               rdesc'[rmaps'[m].desc].id = l
        PROVE  rmaps'[m].desc = rlayouts'[l] /\ \A j \in 1..n : ~Ends(stream'[j], l)
    <3>1. n \in 1..n /\ stream'[n] = c /\ \A i \in 1..Len(stream) : i \in 1..n
      BY <1>1, <1>3
    <3>2. ~About(c, m) /\ \A i \in 1..Len(stream) : ~About(stream[i], m)
      BY <1>1, <2>2, <3>1
    <3>3. /\ rmaps[m].desc = rlayouts[l] /\ \A j \in 1..Len(stream) : ~Ends(stream[j], l)
      BY <1>1, <1>3, <2>2, <3>2 DEF Fresh
    <3>4. \A j \in 1..n : j = n \/ j \in 1..Len(stream)
      BY <1>1, <1>3
    <3> QED BY <1>1, <1>3, <3>1, <3>3, <3>4
  <2> QED BY <2>1, <2>2 DEF Fresh, About, Ends
<1> QED BY <1>2, <1>3

\* What the reader does with a command when it obeys it.
Obeys ==
  /\ \A l \in Layouts : ~Ends(stream[1], l) /\ rlayouts[l] # None => rlayouts'[l] = rlayouts[l]
  /\ \A l \in Layouts : ~Ends(stream[1], l) /\ ~Gives(stream[1], l) /\ rlayouts[l] # None =>
       rdesc'[rlayouts[l]].shape = rdesc[rlayouts[l]].shape
  /\ \A l \in Layouts : Gives(stream[1], l) =>
       rlayouts'[l] # None /\ rdesc'[rlayouts'[l]].shape = stream[1].state.shape
  /\ \A m \in Maps : ~About(stream[1], m) =>
       /\ rmaps'[m] = rmaps[m]
       /\ rmaps[m] # None => rdesc'[rmaps[m].desc].id = rdesc[rmaps[m].desc].id
  /\ \A m \in Maps : About(stream[1], m) /\ rmaps'[m] # None =>
       /\ stream[1].kind = "update" /\ rdesc'[rmaps'[m].desc].id = stream[1].layout
       /\ rmaps'[m].desc = rlayouts'[stream[1].layout]
  /\ misread' = {}

\* What the reader will have, and the copies be of, stays so when a command is read.
LEMMA HasTaken ==
  ASSUME WriteTypes, NEW kind, Take(kind), Obeys,
         NEW l \in Layouts, NEW s, NEW n \in 1..Len(stream), Has(l, s, n)
  PROVE  Has(l, s, n - 1)'
<1>1. /\ Len(stream) \in Nat \ {0} /\ Len(stream') = Len(stream) - 1
      /\ \A i \in 1..Len(stream) - 1 : stream'[i] = stream[i + 1]
  BY Taking
<1>2. \A i \in 1..n - 1 : i + 1 \in 1..n /\ stream'[i] = stream[i + 1]
  BY <1>1
<1>3. \A i \in 1..n : i # 1 => i - 1 \in 1..n - 1 /\ stream'[i - 1] = stream[i]
  <2>1. ASSUME NEW i \in 1..n, i # 1 PROVE i - 1 \in 1..n - 1 /\ stream'[i - 1] = stream[i]
    <3>1. i - 1 \in 1..n - 1 /\ i - 1 \in 1..Len(stream) - 1 /\ (i - 1) + 1 = i
      BY <1>1, <2>1
    <3> QED BY <1>1, <3>1
  <2> QED BY <2>1
<1>4. ASSUME NEW i \in 1..n - 1, \/ Gives(stream'[i], l) /\ stream'[i].state.shape # s
                                 \/ Ends(stream'[i], l)
      PROVE  \E j \in i + 1..n - 1 : Gives(stream'[j], l) \/ Ends(stream'[j], l)
  <2>1. i + 1 \in 1..n /\ stream'[i] = stream[i + 1]
    BY <1>2
  <2>2. PICK j \in (i + 1) + 1..n : Gives(stream[j], l) \/ Ends(stream[j], l)
    BY <1>4, <2>1 DEF Has
  <2>3. j \in 1..n /\ j # 1 /\ j - 1 \in i + 1..n - 1
    BY <1>1, <2>1
  <2> QED BY <1>3, <2>2, <2>3
<1>5. ASSUME \A i \in 1..n - 1 : ~Gives(stream'[i], l) /\ ~Ends(stream'[i], l)
      PROVE  rlayouts'[l] # None /\ rdesc'[rlayouts'[l]].shape = s
  <2>1. \A i \in 1..n : i # 1 => ~Gives(stream[i], l) /\ ~Ends(stream[i], l)
    BY <1>3, <1>5
  <2>2. 1 \in 1..n /\ \A j \in 1 + 1..n : j \in 1..n /\ j # 1
    BY <1>1
  <2>3. ~(Gives(stream[1], l) /\ stream[1].state.shape # s) /\ ~Ends(stream[1], l)
    BY <2>1, <2>2 DEF Has
  <2>4. CASE Gives(stream[1], l)
    BY <2>3, <2>4 DEF Obeys
  <2>5. CASE ~Gives(stream[1], l)
    <3>1. rlayouts[l] # None /\ rdesc[rlayouts[l]].shape = s
      BY <2>1, <2>3, <2>5 DEF Has
    <3> QED BY <2>3, <2>5, <3>1 DEF Obeys
  <2> QED BY <2>4, <2>5
<1> QED BY <1>4, <1>5 DEF Has, Gives, Ends

\* The copy of a map will not be of a dead layout when a command has been read.
LEMMA FreshTaken ==
  ASSUME ReaderTypes, WriteTypes, NEW kind, Take(kind), Obeys,
         NEW m \in Maps, NEW l \in Layouts, NEW n \in 1..Len(stream), Fresh(m, l, n)
  PROVE  Fresh(m, l, n - 1)'
<1>1. /\ Len(stream) \in Nat \ {0} /\ Len(stream') = Len(stream) - 1
      /\ \A i \in 1..Len(stream) - 1 : stream'[i] = stream[i + 1]
  BY Taking
<1>2. \A i \in 1..n - 1 : i + 1 \in 1..n /\ stream'[i] = stream[i + 1]
  BY <1>1
<1>3. \A i \in 1..n : i # 1 => i - 1 \in 1..n - 1 /\ stream'[i - 1] = stream[i]
  <2>1. ASSUME NEW i \in 1..n, i # 1 PROVE i - 1 \in 1..n - 1 /\ stream'[i - 1] = stream[i]
    <3>1. i - 1 \in 1..n - 1 /\ i - 1 \in 1..Len(stream) - 1 /\ (i - 1) + 1 = i
      BY <1>1, <2>1
    <3> QED BY <1>1, <3>1
  <2> QED BY <2>1
<1>4. ASSUME NEW i \in 1..n - 1, NEW j \in i + 1..n - 1, About(stream'[i], m),
             stream'[i].kind = "update", stream'[i].layout = l, Ends(stream'[j], l)
      PROVE  \E k \in i + 1..n - 1 : About(stream'[k], m)
  <2>1. /\ i + 1 \in 1..n /\ j + 1 \in (i + 1) + 1..n /\ j \in 1..n - 1
    BY <1>1
  <2>2. stream'[i] = stream[i + 1] /\ stream'[j] = stream[j + 1]
    BY <1>2, <2>1
  <2>3. PICK k \in (i + 1) + 1..n : About(stream[k], m)
    BY <1>4, <2>1, <2>2 DEF Fresh
  <2>4. k \in 1..n /\ k # 1 /\ k - 1 \in i + 1..n - 1
    BY <1>1, <2>1
  <2> QED BY <1>3, <2>3, <2>4
<1>5. ASSUME \A i \in 1..n - 1 : ~About(stream'[i], m), rmaps'[m] # None,
             rdesc'[rmaps'[m].desc].id = l
      PROVE  rmaps'[m].desc = rlayouts'[l] /\ \A j \in 1..n - 1 : ~Ends(stream'[j], l)
  <2>1. \A i \in 1..n : i # 1 => ~About(stream[i], m)
    BY <1>3, <1>5
  <2>2. 1 \in 1..n /\ \A j \in 1 + 1..n : j \in 1..n /\ j # 1
    BY <1>1
  <2>3. CASE About(stream[1], m)
    <3>1. /\ stream[1].kind = "update" /\ stream[1].layout = l
          /\ rmaps'[m].desc = rlayouts'[l]
      BY <1>5, <2>3 DEF Obeys
    <3>2. \A j \in 1 + 1..n : ~Ends(stream[j], l)
      BY <2>1, <2>2, <2>3, <3>1 DEF Fresh
    <3>3. \A j \in 1..n - 1 : j + 1 \in 1 + 1..n
      BY <1>1
    <3> QED BY <1>2, <3>1, <3>2, <3>3
  <2>4. CASE ~About(stream[1], m)
    <3>1. /\ rmaps'[m] = rmaps[m] /\ rdesc[rmaps[m].desc].id = l /\ rmaps[m] # None
      BY <1>5, <2>4 DEF Obeys
    <3>2. /\ rmaps[m].desc = rlayouts[l] /\ \A j \in 1..n : ~Ends(stream[j], l)
      BY <2>1, <2>4, <3>1 DEF Fresh
    <3>3. rlayouts[l] # None
      BY <3>1, <3>2, ReaderDescs
    <3>4. rlayouts'[l] = rlayouts[l]
      BY <2>2, <3>2, <3>3 DEF Obeys
    <3> QED BY <1>2, <3>1, <3>2, <3>4
  <2> QED BY <2>3, <2>4
<1> QED BY <1>4, <1>5 DEF Fresh, About, Ends

\* A command that is obeyed leaves the rest of the stream understandable.
LEMMA UnderstoodTaken ==
  ASSUME Types, NEW kind, Take(kind), UNCHANGED WriterSide, Obeys, Understood
  PROVE  Understood'
<1>0. WriteTypes /\ ReaderTypes /\ WriterTypes /\ stream \in Seq(Commands)
  BY DEF Types, WriteTypes
<1>1. /\ Len(stream) \in Nat \ {0} /\ Len(stream') = Len(stream) - 1
      /\ \A i \in 1..Len(stream) - 1 : stream'[i] = stream[i + 1]
  BY <1>0, Taking
<1>2. UNCHANGED <<wlayouts, wdesc, wmaps>>
  BY DEF WriterSide, writer
<1>3. ASSUME NEW i \in 1..Len(stream'), NEW l, NEW s, NEW m,
             stream'[i].kind = "update", ~stream'[i].has_layout,
             l = stream'[i].layout, s = stream'[i].state.shape, m = stream'[i].id
      PROVE  Has(l, s, i - 1)' /\ Fresh(m, l, i - 1)'
  <2>1. /\ i \in 1..Len(stream) /\ i + 1 \in 1..Len(stream) /\ stream'[i] = stream[i + 1]
        /\ (i + 1) - 1 = i
    BY <1>1
  <2>2. stream[i + 1] \in Commands
    BY <1>0, <2>1
  <2>3. l \in Layouts /\ m \in Maps
    BY <1>3, <2>1, <2>2 DEF Commands
  <2>4. Has(stream[i + 1].layout, stream[i + 1].state.shape, (i + 1) - 1)
        /\ Fresh(stream[i + 1].id, stream[i + 1].layout, (i + 1) - 1)
    BY <1>3, <2>1 DEF Understood
  <2>5. Has(l, s, i) /\ Fresh(m, l, i)
    BY <1>3, <2>1, <2>4
  <2> QED BY <1>0, <2>1, <2>3, <2>5, HasTaken, FreshTaken
<1>4. ASSUME NEW l \in Layouts, NEW s, NEW n, wlayouts'[l] # None,
             s = wdesc'[wlayouts'[l]].hash, n = Len(stream')
      PROVE  /\ Has(l, s, n)'
             /\ \A m \in Maps : wmaps'[m] # None /\ wmaps'[m].desc = wlayouts'[l] =>
                  Fresh(m, l, n)'
  <2>1. /\ Has(l, s, n + 1) /\ \A m \in Maps : wmaps[m] # None /\ wmaps[m].desc = wlayouts[l] =>
                                 Fresh(m, l, n + 1)
    <3>1. n + 1 = Len(stream)
      BY <1>1, <1>4
    <3> QED BY <1>2, <1>4, <3>1 DEF Understood
  <2>2. n + 1 \in 1..Len(stream) /\ (n + 1) - 1 = n
    BY <1>1, <1>4
  <2>3. Has(l, s, (n + 1) - 1)'
    BY <1>0, <2>1, <2>2, HasTaken
  <2>4. ASSUME NEW m \in Maps, wmaps'[m] # None, wmaps'[m].desc = wlayouts'[l]
        PROVE  Fresh(m, l, (n + 1) - 1)'
    BY <1>0, <1>2, <2>1, <2>2, <2>4, FreshTaken
  <2> QED BY <2>2, <2>3, <2>4
<1>5. misread' = {}
  BY DEF Obeys
<1> QED BY <1>3, <1>4, <1>5, UnderstoodNext

\* The reader obeys when it is told that a layout is gone.
LEMMA LayoutObeyed == Types /\ Understood /\ RemoveLayout => Obeys
<1> SUFFICES ASSUME Types, Understood, RemoveLayout PROVE Obeys
  OBVIOUS
<1> DEFINE x == Head(stream).id
<1>1. /\ ReaderTypes /\ WriteTypes /\ Take("layout") /\ misread' = misread
      /\ rlayouts \in [Layouts -> Descs \cup {None}]
  BY DEF Types, ReaderTypes, RemoveLayout
<1>2. /\ ReaderTypes' /\ rmaps' = rmaps /\ rlayouts' = [rlayouts EXCEPT ![x] = None]
      /\ \A d \in RDescs' : d \in RDescs /\ rdesc'[d] = rdesc[d]
  BY <1>1, LayoutRemoved
<1>3. stream[1].kind = "layout" /\ stream[1].id = x
  BY <1>1, Taking
<1> HIDE DEF x
<1>4. \A l : Ends(stream[1], l) <=> l = x
  BY <1>3 DEF Ends
<1>5. \A l : ~Gives(stream[1], l)
  BY <1>3 DEF Gives
<1>6. \A m : ~About(stream[1], m)
  BY <1>3 DEF About
<1>7. \A l \in Layouts : l # x => rlayouts'[l] = rlayouts[l]
  BY <1>1, <1>2
<1>8. \A l \in Layouts : l # x /\ rlayouts[l] # None => rdesc'[rlayouts[l]] = rdesc[rlayouts[l]]
  BY <1>2, <1>7, LayoutDescsNext
<1>9. \A m \in Maps : rmaps[m] # None => rdesc'[rmaps[m].desc] = rdesc[rmaps[m].desc]
  BY <1>2, MapDescsNext
<1>10. misread' = {}
  BY <1>1 DEF Understood
<1> QED BY <1>2, <1>4, <1>5, <1>6, <1>7, <1>8, <1>9, <1>10 DEF Obeys

\* The reader obeys when it is told that a map is gone.
LEMMA MapObeyed == Types /\ Understood /\ RemoveProperties => Obeys
<1> SUFFICES ASSUME Types, Understood, RemoveProperties PROVE Obeys
  OBVIOUS
<1> DEFINE x == Head(stream).id
<1>1. /\ ReaderTypes /\ WriteTypes /\ Take("map") /\ misread' = misread \ {x}
      /\ rmaps \in [Maps -> ReaderMaps \cup {None}]
  BY DEF Types, ReaderTypes, RemoveProperties
<1>2. /\ ReaderTypes' /\ rlayouts' = rlayouts /\ rmaps' = [rmaps EXCEPT ![x] = None]
      /\ \A d \in RDescs' : d \in RDescs /\ rdesc'[d] = rdesc[d]
  BY <1>1, MapRemoved
<1>3. stream[1].kind = "map" /\ stream[1].id = x
  BY <1>1, Taking
<1> HIDE DEF x
<1>4. \A l : ~Ends(stream[1], l) /\ ~Gives(stream[1], l)
  BY <1>3 DEF Ends, Gives
<1>5. \A m : About(stream[1], m) <=> m = x
  BY <1>3 DEF About
<1>6. \A m \in Maps : rmaps'[m] = IF m = x THEN None ELSE rmaps[m]
  BY <1>1, <1>2
<1>7. \A l \in Layouts : rlayouts[l] # None => rdesc'[rlayouts[l]] = rdesc[rlayouts[l]]
  BY <1>2, LayoutDescsNext
<1>8. \A m \in Maps : m # x /\ rmaps[m] # None => rdesc'[rmaps[m].desc] = rdesc[rmaps[m].desc]
  BY <1>2, <1>6, MapDescsNext
<1>9. misread' = {}
  BY <1>1 DEF Understood
<1> QED BY <1>2, <1>4, <1>5, <1>6, <1>7, <1>8, <1>9 DEF Obeys

\* The reader obeys an update whose layout it has, with the shape the buffer needs.
LEMMA UpdateObeyed == Types /\ Understood /\ Read => Obeys
<1> SUFFICES ASSUME Types, Understood, Read PROVE Obeys
  OBVIOUS
<1>a. PICK c : c = Head(stream)
  OBVIOUS
<1>1. /\ ReaderTypes /\ WriteTypes /\ Take("update") /\ misread = {}
      /\ rlayouts \in [Layouts -> Descs \cup {None}]
      /\ \A l \in Layouts : rlayouts[l] # None => rdesc[rlayouts[l]].id = l
  BY DEF Types, ReaderTypes, Read, Understood
<1>2. /\ \/ Kept(c) /\ Judged(c, rmaps[c.id].shape)
         \/ Refused(c)
         \/ \E d : (Relaid(c, d) \/ Dropped(c, d)) /\ Judged(c, rdesc'[d].shape)
      /\ ReaderTypes'
  BY <1>1, <1>a, ReadIs
<1>3. /\ c.id \in Maps /\ c.layout \in Layouts /\ c.kind = "update" /\ c = stream[1]
      /\ Kept(c) => rmaps'[c.id] # None /\ rmaps'[c.id].desc = rmaps[c.id].desc
      /\ \A d : Relaid(c, d) => rmaps'[c.id] # None /\ rmaps'[c.id].desc = d
  BY <1>1, <1>a, MapRead
<1>4. /\ \A l : ~Ends(c, l)
      /\ \A l : Gives(c, l) <=> c.has_layout /\ l = c.layout
      /\ \A m : About(c, m) <=> m = c.id
  BY <1>3 DEF Ends, Gives, About
\* An update that travels alone finds the layout it means.
<1>5. ASSUME ~c.has_layout
      PROVE  /\ rlayouts[c.layout] # None /\ rdesc[rlayouts[c.layout]].shape = c.state.shape
             /\ rmaps[c.id] # None /\ rdesc[rmaps[c.id].desc].id = c.layout =>
                  rmaps[c.id].desc = rlayouts[c.layout]
  <2>1. 1 \in 1..Len(stream)
    BY <1>1, Taking
  <2>2. Has(c.layout, c.state.shape, 1 - 1) /\ Fresh(c.id, c.layout, 1 - 1)
    BY <1>3, <1>5, <2>1 DEF Understood
  <2> QED BY <2>2 DEF Has, Fresh
<1>6. ~Refused(c)
  BY <1>5 DEF Refused
<1>7. Judged(c, c.state.shape) => misread' = {}
  BY <1>1 DEF Judged
<1>8. CASE Kept(c) /\ Judged(c, rmaps[c.id].shape)
  <2>1. /\ ~c.has_layout /\ rmaps[c.id] # None /\ rdesc[rmaps[c.id].desc].id = c.layout
        /\ rmaps[c.id].shape = rdesc[rmaps[c.id].desc].shape
        /\ rdesc' = rdesc /\ rlayouts' = rlayouts
    BY <1>8 DEF Kept, KeepsLayout
  <2>2. rmaps[c.id].desc = rlayouts[c.layout] /\ rmaps[c.id].shape = c.state.shape
    BY <1>5, <2>1
  <2>4. misread' = {}
    BY <1>7, <1>8, <2>2
  <2>5. \A m \in Maps : m # c.id => rmaps'[m] = rmaps[m]
    BY <1>1, <1>a, OthersKept
  <2> QED BY <1>3, <1>4, <1>8, <2>1, <2>2, <2>4, <2>5 DEF Obeys
<1>9. ASSUME NEW d, Relaid(c, d) \/ Dropped(c, d), Judged(c, rdesc'[d].shape) PROVE Obeys
  <2>1. /\ d \in Descs /\ d \in RDescs' /\ rlayouts' = [rlayouts EXCEPT ![c.layout] = d]
        /\ rlayouts[c.layout] # None => d = rlayouts[c.layout]
        /\ rlayouts[c.layout] = None => c.has_layout /\ d \notin RDescs
        /\ rdesc'[d].id = c.layout
        /\ c.has_layout => rdesc'[d].shape = c.state.shape
        /\ ~c.has_layout => d \in RDescs /\ rdesc'[d] = rdesc[d]
        /\ \A e \in RDescs' : e # d => e \in RDescs /\ rdesc'[e] = rdesc[e]
    BY <1>9 DEF Relaid, Dropped, Laid
  <2>2. rdesc'[d].shape = c.state.shape
    BY <1>5, <2>1
  <2>4. misread' = {}
    BY <1>7, <1>9, <2>2
  <2>5. \A l \in Layouts : rlayouts'[l] = IF l = c.layout THEN d ELSE rlayouts[l]
    BY <1>1, <1>3, <2>1
  <2>6. ASSUME NEW l \in Layouts, rlayouts[l] # None, ~Gives(c, l)
        PROVE  rdesc'[rlayouts[l]].shape = rdesc[rlayouts[l]].shape
    <3>1. CASE l = c.layout
      BY <1>4, <2>1, <2>6, <3>1
    <3>2. CASE l # c.layout
      <4>1. rlayouts[l] \in RDescs /\ rlayouts[l] \in RDescs'
        BY <1>1, <1>2, <2>5, <2>6, <3>2, ReaderDescs, LayoutDescsNext
      <4>2. rlayouts[l] # d
        BY <1>1, <1>3, <2>1, <2>6, <3>2, <4>1
      <4> QED BY <2>1, <4>1, <4>2
    <3> QED BY <3>1, <3>2
  <2>7. \A m \in Maps : m # c.id =>
          /\ rmaps'[m] = rmaps[m]
          /\ rmaps[m] # None => rdesc'[rmaps[m].desc].id = rdesc[rmaps[m].desc].id
    BY <1>1, <1>a, OthersKept
  <2>8. rmaps'[c.id] # None => rmaps'[c.id].desc = d
    BY <1>3, <1>9 DEF Dropped
  <2>9. d # None
    BY <2>1, SyncAssumption
  <2> QED BY <1>3, <1>4, <2>1, <2>2, <2>4, <2>5, <2>6, <2>7, <2>8, <2>9 DEF Obeys
<1> QED BY <1>2, <1>6, <1>8, <1>9

\* A command is written that gives no layout and ends none the writer knows.
LEMMA UnderstoodEmitted ==
  ASSUME Types, NEW c \in Commands, Emit(c), UNCHANGED <<writer, reader, misread>>,
         c.kind # "update", \A l \in Layouts : Ends(c, l) => wlayouts[l] = None, Understood
  PROVE  Understood'
<1>0. WriteTypes /\ UNCHANGED <<wlayouts, wdesc, wmaps>>
  BY DEF Types, writer
<1>1. /\ Len(stream) \in Nat /\ Len(stream') = Len(stream) + 1
      /\ stream'[Len(stream) + 1] = c
      /\ \A i \in 1..Len(stream) : stream'[i] = stream[i]
  BY <1>0, Emitted
<1>2. ASSUME NEW i \in 1..Len(stream'), NEW l, NEW s, NEW m,
             stream'[i].kind = "update", ~stream'[i].has_layout,
             l = stream'[i].layout, s = stream'[i].state.shape, m = stream'[i].id
      PROVE  Has(l, s, i - 1)' /\ Fresh(m, l, i - 1)'
  <2>1. i \in 1..Len(stream) /\ i - 1 \in 0..Len(stream) /\ stream'[i] = stream[i]
    <3>1. i # Len(stream) + 1
      BY <1>1, <1>2
    <3> QED BY <1>1, <3>1
  <2>2. Has(l, s, i - 1) /\ Fresh(m, l, i - 1)
    BY <1>2, <2>1 DEF Understood
  <2> QED BY <1>0, <2>1, <2>2, HasEmitted, FreshEmitted
<1>3. ASSUME NEW l \in Layouts, NEW s, NEW n, wlayouts'[l] # None,
             s = wdesc'[wlayouts'[l]].hash, n = Len(stream')
      PROVE  /\ Has(l, s, n)'
             /\ \A m \in Maps : wmaps'[m] # None /\ wmaps'[m].desc = wlayouts'[l] =>
                  Fresh(m, l, n)'
  <2>1. ~Ends(c, l) /\ ~Gives(c, l)
    BY <1>0, <1>3 DEF Gives
  <2>2. /\ Has(l, s, Len(stream))
        /\ \A m \in Maps : wmaps[m] # None /\ wmaps[m].desc = wlayouts[l] =>
             Fresh(m, l, Len(stream))
    BY <1>0, <1>3 DEF Understood
  <2>3. Has(l, s, n)'
    BY <1>0, <1>3, <2>1, <2>2, HasEmitted
  <2>4. ASSUME NEW m \in Maps, wmaps'[m] # None, wmaps'[m].desc = wlayouts'[l]
        PROVE  Fresh(m, l, n)'
    BY <1>0, <1>3, <2>1, <2>2, <2>4, FreshEmitted
  <2> QED BY <2>3, <2>4
<1>4. misread' = {}
  BY DEF Understood
<1> QED BY <1>2, <1>3, <1>4, UnderstoodNext

\* What the writer knows of a map's layout when it writes the map and takes no
\* layout for another: the table's descriptor.
LEMMA TableKnows ==
  ASSUME SourceTypes, WriterTypes, NEW m \in Live, RememberLayout(m), UNCHANGED lay,
         wmaps' = [wmaps EXCEPT ![m] = [desc |-> DescFor(m), hash |-> Hash(m)]],
         ~Mistaken(m)
  PROVE  /\ lay[m] \in Layouts /\ wlayouts'[lay[m]] = DescFor(m) /\ DescFor(m) # None
         /\ Known(m) # None => Known(m) = wlayouts[lay[m]] /\ DescFor(m) = Known(m)
         /\ wdesc'[DescFor(m)].hash = shape[lay[m]]
         /\ wmaps'[m].desc = DescFor(m) /\ \A n \in Maps : n # m => wmaps'[n] = wmaps[n]
         /\ \A l \in Layouts : l # lay[m] /\ wlayouts'[l] # None =>
              /\ wlayouts'[l] = wlayouts[l] /\ wlayouts[l] # DescFor(m)
              /\ wdesc'[wlayouts[l]] = wdesc[wlayouts[l]]
         /\ \A n \in Maps : wmaps[n] # None /\ wmaps[n].desc = DescFor(m) => Known(m) # None
<1>1. /\ lay[m] \in Layouts /\ m \in Maps
      /\ WriterTypes' /\ wdesc'[DescFor(m)] = [id |-> lay[m], hash |-> shape[lay[m]]]
      /\ \A l \in Layouts : wlayouts'[l] = IF l = lay[m] /\ Known(m) = None
                                           THEN DescFor(m) ELSE wlayouts[l]
      /\ \A d \in WDescs' : d # DescFor(m) => d \in WDescs /\ wdesc'[d] = wdesc[d]
  BY Remembered DEF Live
<1>2. /\ Known(m) # None => /\ Known(m) \in WDescs /\ wdesc[Known(m)].id = lay[m]
                            /\ DescFor(m) = Known(m)
      /\ Known(m) = None => DescFor(m) \in Descs \ WDescs
      /\ DescFor(m) # None
      /\ Known(m) # None /\ Known(m) # wlayouts[lay[m]] => Mistaken(m)
  BY KnownIs
<1>3. Known(m) # None => Known(m) = wlayouts[lay[m]]
  BY <1>2
<1>4. wmaps'[m].desc = DescFor(m) /\ \A n \in Maps : n # m => wmaps'[n] = wmaps[n]
  <2> DEFINE w == [desc |-> DescFor(m), hash |-> Hash(m)]
  <2>1. wmaps \in [Maps -> WriterMaps \cup {None}] /\ wmaps' = [wmaps EXCEPT ![m] = w]
    BY DEF WriterTypes
  <2>2. w.desc = DescFor(m)
    OBVIOUS
  <2> HIDE DEF w
  <2> QED BY <1>1, <2>1, <2>2
<1>5. ASSUME NEW l \in Layouts, l # lay[m], wlayouts'[l] # None
      PROVE  /\ wlayouts'[l] = wlayouts[l] /\ wlayouts[l] # DescFor(m)
             /\ wdesc'[wlayouts[l]] = wdesc[wlayouts[l]]
  <2>1. wlayouts'[l] = wlayouts[l] /\ wlayouts[l] \in WDescs /\ wlayouts'[l] \in WDescs'
    BY <1>1, <1>5, LayoutDescsAre, LayoutDescsNext
  <2>2. wdesc[wlayouts[l]].id = l
    BY <1>5, <2>1 DEF WriterTypes
  <2>3. wlayouts[l] # DescFor(m)
    BY <1>2, <1>5, <2>1, <2>2
  <2> QED BY <1>1, <2>1, <2>3
<1>6. ASSUME NEW n \in Maps, wmaps[n] # None, wmaps[n].desc = DescFor(m)
      PROVE  Known(m) # None
  BY <1>2, <1>6, MapDescs
<1> QED BY <1>1, <1>2, <1>3, <1>4, <1>5, <1>6

\* The copy of a map is of no layout that had the address of the layout the writer
\* finds for the map, unless that is the layout its descriptor is of.
LEMMA CopyIsFresh ==
  ASSUME Types, Copies, Understood, mistaken = {}, NEW m \in Live, ~Mistaken(m),
         Known(m) # None, map_remove_list = <<>>, NEW l, l = lay[m]
  PROVE  Fresh(m, l, Len(stream))
<1>0. SourceTypes /\ WriterTypes /\ WriteTypes /\ m \in Maps /\ l \in Layouts
  BY LiveIs DEF Types
<1>1. /\ wdesc[Known(m)].id = l
      /\ Known(m) # wlayouts[l] => Mistaken(m)
  BY <1>0, KnownIs
<1>2. Known(m) = wlayouts[l] /\ wlayouts[l] # None
  BY <1>1
<1>3. CASE wmaps[m] # None /\ wmaps[m].desc = wlayouts[l]
  BY <1>0, <1>2, <1>3 DEF Understood
<1>4. CASE ~(wmaps[m] # None /\ wmaps[m].desc = wlayouts[l])
  <2>1. wmaps[m] # None => wdesc[wmaps[m].desc].id # l
    BY <1>2, <1>4 DEF Known
  <2>2. m \notin Range(map_remove_list)
    BY DEF Range
  <2>3. ASSUME NEW i \in 1..Len(stream), About(stream[i], m), stream[i].kind = "update",
               stream[i].layout = l
        PROVE  ~Final(stream[i], m)
    BY <2>1, <2>2, <2>3 DEF Final
  <2>4. ASSUME NEW i \in 1..Len(stream), About(stream[i], m), stream[i].kind = "update",
               stream[i].layout = l
        PROVE  \E k \in i + 1..Len(stream) : About(stream[k], m)
    BY <1>0, <2>3, <2>4 DEF Copies
  <2>5. ASSUME \A i \in 1..Len(stream) : ~About(stream[i], m)
        PROVE  ~(rmaps[m] # None /\ rdesc[rmaps[m].desc].id = l)
    <3>1. Settled(m)
      BY <1>0, <2>5 DEF Copies
    <3> QED BY <2>1, <2>2, <3>1 DEF Settled
  <2> QED BY <2>4, <2>5 DEF Fresh
<1> QED BY <1>3, <1>4

\* An update is written.
LEMMA UnderstoodTold ==
  ASSUME Types, Removals, Copies, Understood, Told, mistaken' = {}
  PROVE  Understood'
<1>a. PICK x : x = cur
  OBVIOUS
<1>b. PICK c : c = [kind |-> "update", id |-> cur, layout |-> lay[cur],
                    has_layout |-> HasLayout(cur), state |-> Hash(cur)]
  OBVIOUS
<1>c. PICK k : k = lay[cur]
  OBVIOUS
<1>0. SourceTypes /\ WriterTypes /\ WriteTypes /\ misread = {}
  BY DEF Types, Understood
<1>1. /\ RememberLayout(x) /\ UNCHANGED <<removes, reader, misread, lay>> /\ x \in Live
      /\ wmaps' = [wmaps EXCEPT ![x] = [desc |-> DescFor(x), hash |-> Hash(x)]]
      /\ Emit(c) /\ c \in Commands /\ x \in Maps /\ mistaken = {} /\ ~Mistaken(x)
  BY <1>a, <1>b, TellingIs DEF Told
<1>2. /\ c.kind = "update" /\ c.id = x /\ c.layout = k /\ k = lay[x]
      /\ c.has_layout = HasLayout(x) /\ c.state.shape = shape[k]
  BY <1>a, <1>b, <1>c DEF Hash
<1>3. /\ k \in Layouts /\ wlayouts'[k] = DescFor(x) /\ DescFor(x) # None
      /\ Known(x) # None => Known(x) = wlayouts[k] /\ DescFor(x) = Known(x)
      /\ wdesc'[DescFor(x)].hash = shape[k]
      /\ wmaps'[x].desc = DescFor(x) /\ \A n \in Maps : n # x => wmaps'[n] = wmaps[n]
      /\ \A l \in Layouts : l # k /\ wlayouts'[l] # None =>
           /\ wlayouts'[l] = wlayouts[l] /\ wlayouts[l] # DescFor(x)
           /\ wdesc'[wlayouts[l]] = wdesc[wlayouts[l]]
      /\ \A n \in Maps : wmaps[n] # None /\ wmaps[n].desc = DescFor(x) => Known(x) # None
  BY <1>0, <1>1, <1>2, TableKnows
<1>4. /\ \A l : ~Ends(c, l)
      /\ \A l : Gives(c, l) <=> HasLayout(x) /\ l = k
      /\ About(c, x)
  BY <1>2 DEF Ends, Gives, About
<1>5. /\ Len(stream) \in Nat /\ Len(stream') = Len(stream) + 1
      /\ stream'[Len(stream) + 1] = c
      /\ \A i \in 1..Len(stream) : stream'[i] = stream[i]
  BY <1>0, <1>1, Emitted
\* If the update travels alone, the reader will have the layout.
<1>6. ASSUME ~HasLayout(x)
      PROVE  Has(k, shape[k], Len(stream)) /\ Fresh(x, k, Len(stream))
  <2>1. Known(x) # None /\ wdesc[Known(x)].hash = shape[k]
    BY <1>0, <1>1, <1>2, <1>6, KnownIs
  <2>2. Has(k, wdesc[wlayouts[k]].hash, Len(stream))
    BY <1>3, <2>1 DEF Understood
  <2>3. wdesc[wlayouts[k]].hash = shape[k]
    BY <1>3, <2>1
  <2>4. map_remove_list = <<>>
    BY DEF Removals, Told
  <2>5. Fresh(x, k, Len(stream))
    BY <1>1, <1>2, <2>1, <2>4, CopyIsFresh
  <2> QED BY <2>2, <2>3, <2>5
<1>7. ASSUME NEW i \in 1..Len(stream'), NEW l, NEW s, NEW m,
             stream'[i].kind = "update", ~stream'[i].has_layout,
             l = stream'[i].layout, s = stream'[i].state.shape, m = stream'[i].id
      PROVE  Has(l, s, i - 1)' /\ Fresh(m, l, i - 1)'
  <2>1. i - 1 \in 0..Len(stream)
    BY <1>5
  <2>2. Has(l, s, i - 1) /\ Fresh(m, l, i - 1)
    <3>1. CASE i = Len(stream) + 1
      <4>1. l = k /\ m = x /\ s = shape[k] /\ ~HasLayout(x) /\ i - 1 = Len(stream)
        BY <1>2, <1>5, <1>7, <3>1
      <4> QED BY <1>6, <4>1
    <3>2. CASE i # Len(stream) + 1
      <4>1. i \in 1..Len(stream) /\ stream'[i] = stream[i]
        BY <1>5, <3>2
      <4> QED BY <1>7, <4>1 DEF Understood
    <3> QED BY <3>1, <3>2
  <2> QED BY <1>0, <1>1, <2>1, <2>2, HasEmitted, FreshEmitted
<1>8. ASSUME NEW l \in Layouts, NEW s, NEW n, wlayouts'[l] # None,
             s = wdesc'[wlayouts'[l]].hash, n = Len(stream')
      PROVE  /\ Has(l, s, n)'
             /\ \A m \in Maps : wmaps'[m] # None /\ wmaps'[m].desc = wlayouts'[l] =>
                  Fresh(m, l, n)'
  <2>1. CASE l = k
    <3>1. s = shape[k] /\ wlayouts'[l] = DescFor(x)
      BY <1>3, <1>8, <2>1
    <3>2. Has(l, s, n)'
      <4>1. CASE HasLayout(x)
        <5>1. Gives(c, l) /\ c.state.shape = s
          BY <1>2, <1>4, <2>1, <3>1, <4>1
        <5> QED BY <1>0, <1>1, <1>8, <5>1, HasEmitted
      <4>2. CASE ~HasLayout(x)
        <5>1. Has(l, s, Len(stream)) /\ ~Gives(c, l) /\ ~Ends(c, l)
          BY <1>4, <1>6, <2>1, <3>1, <4>2
        <5> QED BY <1>0, <1>1, <1>8, <5>1, HasEmitted
      <4> QED BY <4>1, <4>2
    <3>3. ASSUME NEW m \in Maps, wmaps'[m] # None, wmaps'[m].desc = wlayouts'[l]
          PROVE  Fresh(m, l, n)'
      <4>1. About(c, m) \/ Fresh(m, l, Len(stream))
        <5>1. CASE m = x
          BY <1>4, <5>1
        <5>2. CASE m # x
          <6>1. wmaps[m] # None /\ wmaps[m].desc = DescFor(x)
            BY <1>3, <3>1, <3>3, <5>2
          <6>2. wlayouts[l] = DescFor(x) /\ wlayouts[l] # None
            BY <1>3, <2>1, <6>1
          <6> QED BY <6>1, <6>2 DEF Understood
        <5> QED BY <5>1, <5>2
      <4> QED BY <1>0, <1>1, <1>4, <1>8, <4>1, FreshEmitted
    <3> QED BY <3>2, <3>3
  <2>2. CASE l # k
    <3>1. /\ wlayouts'[l] = wlayouts[l] /\ wlayouts[l] # DescFor(x)
          /\ s = wdesc[wlayouts[l]].hash
      BY <1>3, <1>8, <2>2
    <3>2. /\ Has(l, s, Len(stream))
          /\ \A m \in Maps : wmaps[m] # None /\ wmaps[m].desc = wlayouts[l] =>
               Fresh(m, l, Len(stream))
      BY <1>8, <3>1 DEF Understood
    <3>3. ~Gives(c, l) /\ ~Ends(c, l)
      BY <1>4, <2>2
    <3>4. Has(l, s, n)'
      BY <1>0, <1>1, <1>8, <3>2, <3>3, HasEmitted
    <3>5. ASSUME NEW m \in Maps, wmaps'[m] # None, wmaps'[m].desc = wlayouts'[l]
          PROVE  Fresh(m, l, n)'
      <4>1. m # x
        BY <1>3, <3>1, <3>5
      <4>2. Fresh(m, l, Len(stream))
        BY <1>3, <3>1, <3>2, <3>5, <4>1
      <4> QED BY <1>0, <1>1, <1>8, <3>3, <4>2, FreshEmitted
    <3> QED BY <3>4, <3>5
  <2> QED BY <2>1, <2>2
<1>9. misread' = {}
  BY <1>0, <1>1
<1> QED BY <1>7, <1>8, <1>9, UnderstoodNext

\* Every step keeps what the reader is sent understandable.
LEMMA PromisesStep ==
  Types /\ ListShape /\ Removals /\ Copies /\ Promises /\ [Next]_vars => Promises'
<1> SUFFICES ASSUME Types, ListShape, Removals, Copies, Promises, [Next]_vars, mistaken' = {}
             PROVE  Understood'
  BY DEF Promises
<1>0. /\ SourceTypes /\ WriterTypes /\ WriteTypes /\ ReaderTypes
      /\ layout_remove_list \in Seq(Layouts) /\ map_remove_list \in Seq(Maps)
  BY DEF Types, WriteTypes
<1>1. CASE Same
  <2>1. Understood
    BY <1>1 DEF Same, Promises
  <2>2. UNCHANGED <<stream, wlayouts, wdesc, wmaps, rlayouts, rdesc, rmaps, misread>>
    BY <1>1 DEF Same, writer, reader
  <2> QED BY <2>1, <2>2 DEF Understood, Has, Fresh, Gives, Ends, About
<1>2. ASSUME NEW dead \in SUBSET Layouts, NEW gone \in SUBSET Maps, Forgetting(dead, gone)
      PROVE  Understood'
  <2>1. Understood /\ UNCHANGED <<stream, rlayouts, rdesc, rmaps, misread>>
    BY <1>2 DEF Forgetting, Promises, reader
  <2>2. /\ WriterTypes'
        /\ \A l \in Layouts : wlayouts'[l] = IF l \in dead \cap tracked THEN None
                                                                         ELSE wlayouts[l]
        /\ \A m \in Maps : wmaps'[m] = IF m \in gone THEN None ELSE wmaps[m]
        /\ \A d \in WDescs' : d \in WDescs /\ wdesc'[d] = wdesc[d]
    BY <1>0, <1>2, Forgotten DEF Forgetting
  <2>3. \A l, s, n : Has(l, s, n) => Has(l, s, n)'
    BY <2>1 DEF Has, Gives, Ends
  <2>4. \A l, m, n : Fresh(m, l, n) => Fresh(m, l, n)'
    BY <2>1 DEF Fresh, About, Ends
  <2>5. ASSUME NEW i \in 1..Len(stream'), NEW l, NEW s, NEW m,
               stream'[i].kind = "update", ~stream'[i].has_layout,
               l = stream'[i].layout, s = stream'[i].state.shape, m = stream'[i].id
        PROVE  Has(l, s, i - 1)' /\ Fresh(m, l, i - 1)'
    <3>1. Has(l, s, i - 1) /\ Fresh(m, l, i - 1)
      BY <2>1, <2>5 DEF Understood
    <3> QED BY <2>3, <2>4, <3>1
  <2>6. ASSUME NEW l \in Layouts, NEW s, NEW n, wlayouts'[l] # None,
               s = wdesc'[wlayouts'[l]].hash, n = Len(stream')
        PROVE  /\ Has(l, s, n)'
               /\ \A m \in Maps : wmaps'[m] # None /\ wmaps'[m].desc = wlayouts'[l] =>
                    Fresh(m, l, n)'
    <3>1. wlayouts[l] = wlayouts'[l] /\ wdesc'[wlayouts[l]] = wdesc[wlayouts[l]]
      BY <2>2, <2>6, LayoutDescsNext
    <3>2. /\ Has(l, s, n)
          /\ \A m \in Maps : wmaps[m] # None /\ wmaps[m].desc = wlayouts[l] => Fresh(m, l, n)
      BY <2>1, <2>6, <3>1 DEF Understood
    <3>3. \A m \in Maps : wmaps'[m] # None => wmaps'[m] = wmaps[m]
      BY <2>2
    <3> QED BY <2>3, <2>4, <3>1, <3>2, <3>3
  <2>7. misread' = {}
    BY <2>1 DEF Understood
  <2> QED BY <2>5, <2>6, <2>7, UnderstoodNext
<1>3. CASE RemoveLayoutCommand
  <2>a. PICK c : c = [kind |-> "layout", id |-> Head(layout_remove_list)]
    OBVIOUS
  <2>1. /\ Emit(c) /\ UNCHANGED <<writer, reader, misread>> /\ Understood
        /\ layout_remove_list # <<>>
    BY <1>3, <2>a DEF RemoveLayoutCommand, Promises
  <2>2. /\ Head(layout_remove_list) \in Layouts
        /\ Head(layout_remove_list) \in Range(layout_remove_list)
    <3>1. Range(layout_remove_list)
            = Range(Tail(layout_remove_list)) \cup {Head(layout_remove_list)}
      BY <1>0, <2>1, TailRange
    <3> QED BY <1>0, <2>1, <3>1
  <2>3. c \in Commands /\ c.kind # "update"
    BY <2>a, <2>2 DEF Commands
  <2>4. \A l \in Layouts : Ends(c, l) => wlayouts[l] = None
    BY <2>a, <2>2 DEF Ends, Removals
  <2> QED BY <2>1, <2>3, <2>4, UnderstoodEmitted
<1>4. CASE RemoveMapCommand
  <2>a. PICK c : c = [kind |-> "map", id |-> Head(map_remove_list)]
    OBVIOUS
  <2>1. /\ Emit(c) /\ UNCHANGED <<writer, reader, misread>> /\ Understood
        /\ map_remove_list # <<>>
    BY <1>4, <2>a DEF RemoveMapCommand, Promises
  <2>2. Head(map_remove_list) \in Maps
    BY <1>0, <2>1
  <2>3. c \in Commands /\ c.kind # "update" /\ \A l : ~Ends(c, l)
    BY <2>a, <2>2 DEF Commands, Ends
  <2> QED BY <2>1, <2>3, UnderstoodEmitted
<1>5. CASE Told
  <2>1. mistaken = {}
    BY <1>5, TellingIs
  <2> QED BY <1>5, <2>1, UnderstoodTold DEF Promises
<1>6. CASE NotTold
  BY <1>6 DEF NotTold
<1>7. CASE RemoveLayout \/ RemoveProperties \/ Read
  <2>1. UNCHANGED WriterSide
    BY <1>7 DEF RemoveLayout, RemoveProperties, Read
  <2>2. mistaken = {}
    BY <2>1 DEF WriterSide
  <2>3. Understood
    BY <2>2 DEF Promises
  <2>4. Obeys
    BY <1>7, <2>3, LayoutObeyed, MapObeyed, UpdateObeyed
  <2>5. \E kind : Take(kind)
    BY <1>7 DEF RemoveLayout, RemoveProperties, Read
  <2> QED BY <2>1, <2>3, <2>4, <2>5, UnderstoodTaken
<1> QED BY <1>1, <1>2, <1>3, <1>4, <1>5, <1>6, <1>7, StepIs

-----------------------------------------------------------------------------
(* The theorems. *)

IInv == Types /\ ListShape /\ Removals /\ Current /\ Caring /\ Copies /\ Promises

\* At the start there is nothing: no map, no descriptor, no command.
LEMMA InitInv == Init => IInv
<1> SUFFICES ASSUME Init PROVE IInv
  OBVIOUS
<1>1. /\ lay = [m \in Maps |-> None] /\ data = [m \in Maps |-> None]
      /\ shape = [l \in Layouts |-> None]
      /\ wdesc = <<>> /\ rdesc = <<>>
      /\ wlayouts = [l \in Layouts |-> None] /\ rlayouts = [l \in Layouts |-> None]
      /\ wmaps = [m \in Maps |-> None] /\ rmaps = [m \in Maps |-> None]
      /\ tracked = {} /\ dirty = {}
      /\ first = None /\ last = None /\ next = [m \in Maps |-> None]
      /\ layout_remove_list = <<>> /\ map_remove_list = <<>>
      /\ pc = "idle" /\ cur = None /\ faults = 0 /\ stream = <<>>
      /\ unsent = {} /\ mistaken = {} /\ misread = {}
  BY DEF Init
<1>2. Live = {} /\ InUse = {}
  <2>1. Live = {}
    BY <1>1 DEF Live
  <2> QED BY <2>1 DEF InUse
<1>3. WDescs = {} /\ RDescs = {}
  <2>1. \A d : d \in Referred(wlayouts, wmaps) => d = None
    BY <1>1, ReferredIs
  <2>2. \A d : d \in Referred(rlayouts, rmaps) => d = None
    BY <1>1, ReferredIs
  <2> QED BY <2>1, <2>2 DEF WDescs, RDescs, DescsOf
<1>4. \A S : <<>> \in [{} -> S]
  OBVIOUS
<1>5. SourceTypes
  BY <1>1, <1>2 DEF SourceTypes
<1>6. WriterTypes
  BY <1>1, <1>2, <1>3, <1>4 DEF WriterTypes
<1>7. ReaderTypes
  BY <1>1, <1>3, <1>4 DEF ReaderTypes
<1>8. WriteTypes
  BY <1>1, <1>2 DEF WriteTypes
<1>9. ListShape
  <2>1. Listed = {}
    BY <1>1 DEF Listed
  <2> QED BY <1>1, <2>1 DEF ListShape
<1>10. Removals
  <2>1. Range(layout_remove_list) = {} /\ Range(map_remove_list) = {} /\ Len(map_remove_list) = 0
    BY <1>1 DEF Range
  <2> QED BY <1>1, <2>1 DEF Removals
<1>11. Current
  BY <1>2 DEF Current
<1>12. Len(stream) = 0
  BY <1>1
<1>13. Caring
  BY <1>1, <1>12 DEF Caring
<1>14. Copies
  BY <1>1, <1>12 DEF Copies, Settled
<1>15. Promises
  BY <1>1, <1>12 DEF Promises, Understood
<1> QED BY <1>5, <1>6, <1>7, <1>8, <1>9, <1>10, <1>11, <1>13, <1>14, <1>15 DEF IInv, Types

\* The parts together are kept by every step.
LEMMA NextInv == IInv /\ [Next]_vars => IInv'
BY TypesStep, ListStep, RemovalsStep, CurrentStep, CaringStep, CopiesStep, PromisesStep DEF IInv

\* The types, the update list, what the writer remembers, what is on its way and what
\* the reader makes of it: the whole of it is kept by every step.
THEOREM Inductive == Spec => []IInv
BY InitInv, NextInv, PTL DEF Spec

\* The state keeps its types; descriptors live as long as something refers to them;
\* and the update list has at most two maps.
THEOREM TypeCorrect == Spec => []TypeOK
<1>1. ASSUME IInv PROVE TypeOK
  <2>1. SourceTypes /\ WriterTypes /\ ReaderTypes /\ WriteTypes /\ ListShape
    BY <1>1 DEF IInv, Types
  <2>2. Live = {m \in Maps : data[m] # None}
    BY <2>1 DEF Live, SourceTypes
  <2>3. InUse = {l \in Layouts : shape[l] # None}
    <3>1. InUse \subseteq Layouts
      BY <2>1, LiveIs DEF InUse
    <3> QED BY <2>1, <3>1 DEF SourceTypes
  <2>4. DOMAIN wdesc = DescsOf(wlayouts, wmaps) /\ DOMAIN rdesc = DescsOf(rlayouts, rmaps)
    BY <2>1, WriterDescs, ReaderDescs DEF WDescs, RDescs
  <2>5. ASSUME NEW m \in Listed PROVE next[m] \in Listed \cup {None}
    <3>1. first # None /\ (m = first \/ m = next[first]) /\ m # None
      BY <2>5 DEF Listed
    <3>2. first # None /\ next[first] # None => next[first] # first /\ next[next[first]] = None
      BY <2>1 DEF ListShape
    <3> QED BY <3>1, <3>2 DEF Listed
  <2>6. (pc = "idle" => Listed \subseteq dirty) /\ (first # None => last # None)
    BY <2>1 DEF ListShape
  <2> QED BY <2>1, <2>2, <2>3, <2>4, <2>5, <2>6
          DEF TypeOK, SourceTypes, WriterTypes, ReaderTypes, WriteTypes
<1> QED BY <1>1, Inductive, PTL

\* The reader has every layout it is asked for, with the contents the buffers were
\* written with, as long as the writer has taken no layout for another.
THEOREM Understands == Spec => []NeverRefused
<1>1. IInv => NeverRefused
  BY DEF IInv, Promises, Understood, NeverRefused
<1> QED BY <1>1, Inductive, PTL

\* What is at rest is the same on both sides; of contents whose strings are numbered with
\* gaps the reader has the layout, or nothing.
THEOREM MirrorIsTrue == Spec => []Mirror
<1>1. ASSUME IInv PROVE Mirror
  <2>1. WriterTypes /\ Current /\ Copies /\ Promises
    BY <1>1 DEF IInv, Types
  <2>2. ASSUME NEW m \in Maps \ unsent, ~InFlight(m), m \in misread => mistaken = {}
        PROVE  IF m \in Live THEN Shows(m, Hash(m)) ELSE Replica(m) = None
    <3>1. /\ m \notin dirty /\ m \notin Range(map_remove_list)
          /\ \A i \in 1..Len(stream) : ~About(stream[i], m)
      BY <2>2 DEF InFlight, About
    <3>2. Settled(m)
      BY <2>1, <3>1 DEF Copies
    <3>3. m \notin misread
      BY <2>1, <2>2 DEF Promises, Understood
    <3>4. CASE m \in Live
      <4>1. wmaps[m] # None /\ wmaps[m].hash = Hash(m)
        BY <2>1, <2>2, <3>1, <3>4 DEF Current
      <4> QED BY <3>2, <3>3, <3>4, <4>1 DEF Settled
    <3>5. CASE m \notin Live
      <4>1. wmaps[m] = None
        BY <2>1, <3>5 DEF WriterTypes
      <4> QED BY <3>1, <3>2, <3>5, <4>1 DEF Settled, Shows, Replica
    <3> QED BY <3>4, <3>5
  <2> QED BY <2>2 DEF Mirror
<1> QED BY <1>1, Inductive, PTL

\* The reader will be told of the end of every layout it has, if the writer has not
\* taken it for another.
THEOREM LayoutsEnd == Spec => []NoLayoutLeaks
<1>1. ASSUME IInv PROVE NoLayoutLeaks
  <2>1. \A l \in Layouts \ mistaken : rlayouts[l] # None => Cared(l, 0)
    BY <1>1 DEF IInv, Caring
  <2> QED BY <2>1 DEF NoLayoutLeaks, Cared, Ends
<1> QED BY <1>1, Inductive, PTL

\* No map drops out of the update list unsent, but for a third one between two writes
\* and for a write that failed.
THEOREM NothingElseIsLost == Spec => LostOnlyByOverflow
<1>1. IInv /\ [Next]_vars => (Lost' \subseteq Lost \/ Cardinality(dirty') > 2 \/ faults > 0)
  BY ListStep DEF IInv, Losing
<1> QED BY <1>1, Inductive, PTL DEF Spec, LostOnlyByOverflow

-----------------------------------------------------------------------------
(* The abstract specification. *)

\* The channel of PropertyReplica when a command is written, and when one is read.
Notes == [map : Maps \cup {None}, state : States \cup {None}]
Channel == [i \in DOMAIN stream |-> Note(stream[i])]

\* The channel of PropertyReplica is a sequence of its messages.
LEMMA ChannelIs ==
  ASSUME NEW s \in Seq(Commands)
  PROVE  /\ [i \in DOMAIN s |-> Note(s[i])] \in Seq(Notes)
         /\ Len([i \in DOMAIN s |-> Note(s[i])]) = Len(s)
         /\ \A i \in 1..Len(s) : [j \in DOMAIN s |-> Note(s[j])][i] = Note(s[i])
<1>1. ASSUME NEW i \in 1..Len(s) PROVE Note(s[i]) \in Notes
  <2>1. s[i] \in Commands
    OBVIOUS
  <2> QED BY <2>1 DEF Commands, Note, Notes
<1>2. DOMAIN s = 1..Len(s) /\ Len(s) \in Nat
  OBVIOUS
<1> DEFINE f == [i \in 1..Len(s) |-> Note(s[i])]
<1>3. f \in [1..Len(s) -> Notes]
  BY <1>1
<1>4. f \in Seq(Notes) /\ Len(f) = Len(s)
  <2> HIDE DEF f
  <2> QED BY <1>2, <1>3
<1> QED BY <1>2, <1>4

\* The channel gets a message when a command is written.
LEMMA ChannelEmitted ==
  ASSUME WriteTypes, NEW c \in Commands, Emit(c)
  PROVE  Channel' = Append(Channel, Note(c))
<1>1. /\ stream' \in Seq(Commands) /\ Len(stream) \in Nat /\ Len(stream') = Len(stream) + 1
      /\ stream'[Len(stream) + 1] = c /\ \A i \in 1..Len(stream) : stream'[i] = stream[i]
      /\ stream \in Seq(Commands)
  BY Emitted DEF WriteTypes
<1>2. Channel \in Seq(Notes) /\ Len(Channel) = Len(stream)
      /\ \A i \in 1..Len(stream) : Channel[i] = Note(stream[i])
  BY <1>1, ChannelIs DEF Channel
<1>3. Channel' = [i \in DOMAIN stream' |-> Note(stream'[i])]
  BY DEF Channel
<1>4. Channel' \in Seq(Notes) /\ Len(Channel') = Len(stream')
      /\ \A i \in 1..Len(stream') : Channel'[i] = Note(stream'[i])
  BY <1>1, <1>3, ChannelIs
<1>5. Note(c) \in Notes
  BY DEF Commands, Note, Notes
<1> DEFINE t == Channel'  u == Append(Channel, Note(c))
<1>6. /\ u \in Seq(Notes) /\ Len(u) = Len(Channel) + 1 /\ u[Len(Channel) + 1] = Note(c)
      /\ \A i \in 1..Len(Channel) : u[i] = Channel[i]
  BY <1>2, <1>5, AppendIs
<1>7. \A i \in 1..Len(t) : t[i] = u[i]
  <2>1. ASSUME NEW i \in 1..Len(stream') PROVE t[i] = u[i]
    <3>1. CASE i = Len(stream) + 1
      BY <1>1, <1>2, <1>4, <1>6, <3>1
    <3>2. CASE i # Len(stream) + 1
      <4>1. i \in 1..Len(stream)
        BY <1>1, <3>2
      <4> QED BY <1>1, <1>2, <1>4, <1>6, <4>1
    <3> QED BY <3>1, <3>2
  <2> QED BY <1>4, <2>1
<1>8. t \in Seq(Notes) /\ Len(t) = Len(u)
  BY <1>1, <1>2, <1>4, <1>6
<1> HIDE DEF t, u
<1>9. t = u
  BY <1>6, <1>7, <1>8, SeqEqual
<1> QED BY <1>9 DEF t, u

\* The channel loses its head when a command is read.
LEMMA ChannelTaken ==
  ASSUME WriteTypes, NEW kind, Take(kind)
  PROVE  /\ Channel # <<>> /\ Channel' = Tail(Channel) /\ Head(Channel) = Note(stream[1])
<1>1. /\ stream' \in Seq(Commands) /\ Len(stream) \in Nat \ {0}
      /\ Len(stream') = Len(stream) - 1
      /\ \A i \in 1..Len(stream) - 1 : stream'[i] = stream[i + 1]
      /\ stream \in Seq(Commands)
  BY Taking DEF WriteTypes
<1>2. Channel \in Seq(Notes) /\ Len(Channel) = Len(stream)
      /\ \A i \in 1..Len(stream) : Channel[i] = Note(stream[i])
  BY <1>1, ChannelIs DEF Channel
<1>3. Channel' = [i \in DOMAIN stream' |-> Note(stream'[i])]
  BY DEF Channel
<1>4. Channel' \in Seq(Notes) /\ Len(Channel') = Len(stream')
      /\ \A i \in 1..Len(stream') : Channel'[i] = Note(stream'[i])
  BY <1>1, <1>3, ChannelIs
<1>5. Channel # <<>>
  BY <1>1, <1>2
<1> DEFINE t == Channel'  u == Tail(Channel)
<1>6. /\ u \in Seq(Notes) /\ Len(u) = Len(Channel) - 1 /\ Head(Channel) = Channel[1]
      /\ \A i \in 1..Len(Channel) - 1 : u[i] = Channel[i + 1]
  BY <1>2, <1>5, TailIs
<1>7. ASSUME NEW i \in 1..Len(stream') PROVE t[i] = u[i]
  <2>1. i \in 1..Len(stream) - 1 /\ i + 1 \in 1..Len(stream)
    BY <1>1
  <2> QED BY <1>1, <1>2, <1>4, <1>6, <2>1
<1>8. t \in Seq(Notes) /\ Len(t) = Len(u) /\ Len(t) = Len(stream')
  BY <1>1, <1>2, <1>4, <1>6
<1> HIDE DEF t, u
<1>9. t = u
  BY <1>6, <1>7, <1>8, SeqEqual
<1>10. Head(Channel) = Note(stream[1])
  BY <1>1, <1>2, <1>6
<1> QED BY <1>5, <1>9, <1>10 DEF t, u

\* The contents of maps, and the copies, as PropertyReplica sees them.
Source == [m \in Maps |-> IF m \in Live THEN Hash(m) ELSE None]
Copied == [m \in Maps |-> Replica(m)]
Gone   == Range(map_remove_list)

\* What PropertyReplica says of the states that a copy cannot take.
Blanks == [s \in {x \in States : x.val \in Sparse} |-> [s EXCEPT !.val = None]]
Taken(copy, s) == IF s \notin DOMAIN Blanks THEN s ELSE IF copy = None THEN None ELSE Blanks[s]

\* The steps of PropertyReplica, said of the state of the protocol.
AbstractNext ==
  \/ \E m \in Maps : \E s \in States :
       Source' = [Source EXCEPT ![m] = s] /\ UNCHANGED <<Gone, Channel, Copied>>
  \/ \E m \in Maps : /\ Source[m] # None /\ Source' = [Source EXCEPT ![m] = None]
                     /\ Gone' \in {Gone, Gone \cup {m}} /\ UNCHANGED <<Channel, Copied>>
  \/ \E m \in Maps : /\ Source[m] # None /\ m \notin Gone
                     /\ Channel' = Append(Channel, [map |-> m, state |-> Source[m]])
                     /\ UNCHANGED <<Source, Gone, Copied>>
  \/ \E m \in Maps : /\ m \in Gone /\ Gone' = Gone \ {m}
                     /\ Channel' = Append(Channel, [map |-> m, state |-> None])
                     /\ UNCHANGED <<Source, Copied>>
  \/ /\ Channel' = Append(Channel, [map |-> None, state |-> None])
     /\ UNCHANGED <<Source, Gone, Copied>>
  \/ /\ Channel # <<>> /\ Channel' = Tail(Channel)
     /\ Copied' = IF Head(Channel).map = None THEN Copied
                  ELSE [Copied EXCEPT ![Head(Channel).map] =
                          Taken(Copied[Head(Channel).map], Head(Channel).state)]
     /\ UNCHANGED <<Source, Gone>>

\* These are the steps and the stuttering steps of PropertyReplica.
LEMMA AbstractIs ==
  AbstractNext \/ UNCHANGED <<Source, Gone, Channel, Copied>>
    => [Abstract!Next]_(Abstract!vars)
BY DEF AbstractNext, Source, Gone, Channel, Copied, Abstract!Next, Abstract!vars,
       Abstract!Change, Abstract!Destroy, Abstract!Send, Abstract!SendRemoval,
       Abstract!SendOther, Abstract!Receive, Abstract!Taken, Abstract!Message, Blanks, Taken

\* The contents stay as they are when the maps do.
LEMMA SourceStays == UNCHANGED source => UNCHANGED Source
<1> SUFFICES ASSUME UNCHANGED source PROVE Source' = Source
  OBVIOUS
<1>1. Live' = Live /\ \A m : Hash(m)' = Hash(m)
  BY SourceSame
<1> QED BY <1>1 DEF Source

\* The copies stay as they are when the reader's maps do.
LEMMA CopiedStays == UNCHANGED rmaps => UNCHANGED Copied
BY DEF Copied, Replica

\* A map the reader has does have a copy.
LEMMA ReplicaIs ==
  ReaderTypes => \A m \in Maps : Replica(m) = None <=> rmaps[m] = None
<1> SUFFICES ASSUME ReaderTypes, NEW m \in Maps, rmaps[m] # None PROVE Replica(m) # None
  BY DEF Replica
<1>1. rmaps[m].shape \in Shapes /\ rmaps[m].val \in Values \cup {None}
  BY ReaderDescs
<1>2. Replica(m) \in States \cup [shape : Shapes, val : {None}]
  BY <1>1 DEF Replica, States
<1> QED BY <1>2, SyncAssumption

\* The contents of a map that lives are a state of PropertyReplica.
LEMMA LiveHash == SourceTypes => \A n \in Live : Hash(n) \in States
BY LiveIs

\* What changes for one map is a change of the source in PropertyReplica.
LEMMA MapChanged ==
  ASSUME SourceTypes', NEW m \in Maps, m \in Live', Live' = Live \cup {m},
         \A n \in Live : n # m => Hash(n)' = Hash(n)
  PROVE  \E s \in States : Source' = [Source EXCEPT ![m] = s]
<1>1. PICK s : s = Hash(m)'
  OBVIOUS
<1>2. s \in States
  <2>1. (SourceTypes => \A n \in Live : Hash(n) \in States)'
    BY LiveHash, PTL
  <2> QED BY <1>1, <2>1
<1>3. \A n \in Maps : Source'[n] = IF n = m THEN s ELSE Source[n]
  BY <1>1 DEF Source
<1>4. Source' = [Source EXCEPT ![m] = s]
  BY <1>3 DEF Source
<1> QED BY <1>2, <1>4

\* Every step of the protocol is one of PropertyReplica, until the writer takes a
\* layout for another.
LEMMA StepsImplement ==
  IInv /\ IInv' /\ [Next]_vars /\ mistaken' = {} => [Abstract!Next]_(Abstract!vars)
<1> SUFFICES ASSUME IInv, IInv', [Next]_vars, mistaken' = {}
             PROVE  AbstractNext \/ UNCHANGED <<Source, Gone, Channel, Copied>>
  BY AbstractIs
<1>0. /\ Types /\ SourceTypes /\ WriterTypes /\ ReaderTypes /\ WriteTypes /\ ListShape /\ Removals
      /\ SourceTypes' /\ map_remove_list \in Seq(Maps) /\ layout_remove_list \in Seq(Layouts)
      /\ rmaps \in [Maps -> ReaderMaps \cup {None}]
  BY DEF IInv, Types, WriteTypes, ReaderTypes
<1>1. ASSUME NEW m \in Maps, Changing, SourceTypes', m \in Live', Live' = Live \cup {m},
             \A n \in Live : n # m => Hash(n)' = Hash(n), Gone' = Gone
      PROVE  AbstractNext
  <2>1. UNCHANGED <<Channel, Copied>>
    BY <1>1, CopiedStays DEF Changing, Channel, reader
  <2> QED BY <1>1, <2>1, MapChanged DEF AbstractNext
<1>2. ASSUME NEW m \in Maps, NEW v \in Values, SetProperty(m, v) PROVE AbstractNext
  <2>1. Changing /\ m \in Live /\ Gone' = Gone
    BY <1>2 DEF SetProperty, removes, Gone
  <2>2. Live' = Live /\ \A n \in Live : n # m => Hash(n)' = Hash(n)
    BY <1>0, <1>2, SourceSet
  <2> QED BY <1>0, <1>1, <2>1, <2>2
<1>3. ASSUME NEW m \in Maps, NEW l \in Layouts, NEW s \in Shapes, NEW v \in Values,
             ChangeLayout(m, l, s, v)
      PROVE  AbstractNext
  <2>1. Changing /\ m \in Live /\ Gone' = Gone
    BY <1>3 DEF ChangeLayout, removes, Gone
  <2>2. Live' = Live /\ \A n \in Live : n # m => Hash(n)' = Hash(n)
    BY <1>0, <1>3, SourceRelaid
  <2> QED BY <1>0, <1>1, <2>1, <2>2
<1>4. ASSUME NEW m \in Maps, NEW l \in Layouts, NEW s \in Shapes, NEW v \in Values,
             CreateSynchronizer(m, l, s, v)
      PROVE  AbstractNext
  <2>1. Changing /\ Gone' = Gone
    BY <1>4 DEF CreateSynchronizer, removes, Gone
  <2>2. Live' = Live \cup {m} /\ \A n \in Live : n # m /\ Hash(n)' = Hash(n)
    BY <1>0, <1>4, SourceCreated
  <2> QED BY <1>0, <1>1, <2>1, <2>2
<1>5. ASSUME NEW dead \in SUBSET Layouts, NEW gone \in SUBSET Maps, Forget(dead, gone),
             InUse \ dead \subseteq InUse', Live \ gone \subseteq Live'
      PROVE  Gone' = Gone \cup {m \in gone : wmaps[m] # None}
  BY <1>0, <1>5, Forgotten DEF Gone
<1>6. ASSUME NEW m \in Maps, NEW l \in Layouts, NEW s \in Shapes, NEW v \in Values,
             Reset(m, l, s, v)
      PROVE  AbstractNext
  <2>1. Changing /\ m \in Live /\ Forget(Own(m), {}) /\ Own(m) \in SUBSET Layouts
    BY <1>6 DEF Reset, Own
  <2>2. /\ Live' = Live /\ InUse' = (InUse \ Own(m)) \cup {l}
        /\ \A n \in Live : n # m => Hash(n)' = Hash(n)
    BY <1>0, <1>6, SourceReset
  <2>3. Gone' = Gone
    <3>1. {} \in SUBSET Maps /\ InUse \ Own(m) \subseteq InUse' /\ Live \ {} \subseteq Live'
      BY <2>2
    <3>2. Gone' = Gone \cup {n \in {} : wmaps[n] # None}
      BY <1>5, <2>1, <3>1
    <3> QED BY <3>2
  <2> QED BY <1>0, <1>1, <2>1, <2>2, <2>3
<1>7. ASSUME NEW m \in Maps, DestroyMap(m) PROVE AbstractNext
  <2>1. Changing /\ Forget(Own(m), {m}) /\ Own(m) \in SUBSET Layouts
    BY <1>7 DEF DestroyMap, Own
  <2>2. /\ Live' = Live \ {m} /\ InUse' = InUse \ Own(m) /\ m \in Live
        /\ \A n \in Live : n # m => Hash(n)' = Hash(n)
    BY <1>0, <1>7, SourceDestroyed
  <2>3. Gone' \in {Gone, Gone \cup {m}}
    <3>1. {m} \in SUBSET Maps /\ InUse \ Own(m) \subseteq InUse' /\ Live \ {m} \subseteq Live'
      BY <2>2
    <3>2. Gone' = Gone \cup {n \in {m} : wmaps[n] # None}
      BY <1>5, <2>1, <3>1
    <3> QED BY <3>2
  <2>4. UNCHANGED <<Channel, Copied>>
    BY <2>1, CopiedStays DEF Changing, Channel, reader
  <2>5. Source[m] # None
    <3>1. Hash(m) \in States
      BY <1>0, <2>2, LiveIs
    <3> QED BY <2>2, <3>1, SyncAssumption DEF Source
  <2>6. \A n \in Maps : Source'[n] = IF n = m THEN None ELSE Source[n]
    BY <2>2 DEF Source
  <2>7. Source' = [Source EXCEPT ![m] = None]
    BY <2>6 DEF Source
  <2> QED BY <2>3, <2>4, <2>5, <2>7 DEF AbstractNext
<1>8. CASE \/ BeginWrite \/ BeginUpdates \/ SkipUpdate \/ EndWrite \/ WriteFails
           \/ UNCHANGED vars
  <2>1. UNCHANGED <<source, removes, stream, reader>>
    BY <1>8 DEF BeginWrite, BeginUpdates, SkipUpdate, EndWrite, WriteFails, vars
  <2> QED BY <2>1, SourceStays, CopiedStays DEF removes, reader, Gone, Channel
<1>9. CASE RemoveLayoutCommand
  <2>a. PICK c : c = [kind |-> "layout", id |-> Head(layout_remove_list)]
    OBVIOUS
  <2>1. /\ Emit(c) /\ UNCHANGED <<source, map_remove_list, reader>>
        /\ layout_remove_list # <<>>
    BY <1>9, <2>a DEF RemoveLayoutCommand
  <2>2. c \in Commands
    BY <1>0, <2>a, <2>1 DEF Commands
  <2>3. Note(c) = [map |-> None, state |-> None]
    BY <2>a DEF Note
  <2>4. Channel' = Append(Channel, [map |-> None, state |-> None])
    BY <1>0, <2>1, <2>2, <2>3, ChannelEmitted
  <2> QED BY <2>1, <2>4, SourceStays, CopiedStays DEF reader, Gone, AbstractNext
<1>10. CASE RemoveMapCommand
  <2>a. PICK m : m = Head(map_remove_list)
    OBVIOUS
  <2>b. PICK c : c = [kind |-> "map", id |-> m]
    OBVIOUS
  <2>1. /\ Emit(c) /\ UNCHANGED <<source, reader>>
        /\ map_remove_list # <<>> /\ map_remove_list' = Tail(map_remove_list)
    BY <1>10, <2>a, <2>b DEF RemoveMapCommand
  <2>2. c \in Commands /\ m \in Maps
    BY <1>0, <2>a, <2>b, <2>1 DEF Commands
  <2>3. Note(c) = [map |-> m, state |-> None]
    BY <2>b DEF Note
  <2>4. Channel' = Append(Channel, [map |-> m, state |-> None])
    BY <1>0, <2>1, <2>2, <2>3, ChannelEmitted
  <2>5. m \in Gone /\ Gone' = Gone \ {m}
    <3>1. /\ Range(map_remove_list) = Range(Tail(map_remove_list)) \cup {Head(map_remove_list)}
          /\ Head(map_remove_list) \notin Range(Tail(map_remove_list))
      BY <1>0, <2>1, TailRange DEF Removals
    <3> QED BY <2>a, <2>1, <3>1 DEF Gone
  <2> QED BY <2>1, <2>2, <2>4, <2>5, SourceStays, CopiedStays DEF reader, AbstractNext
<1>11. CASE WriteUpdate
  <2>a. PICK m : m = cur
    OBVIOUS
  <2>b. PICK c : c = [kind |-> "update", id |-> cur, layout |-> lay[cur],
                      has_layout |-> HasLayout(cur), state |-> Hash(cur)]
    OBVIOUS
  <2>1. /\ Emit(c) /\ UNCHANGED <<source, removes, reader>> /\ pc = "updates" /\ cur # None
    BY <1>11, <2>b DEF WriteUpdate
  <2>2. m \in Live /\ m \in Maps /\ c \in Commands
    BY <1>0, <2>a, <2>b, <2>1, CurLives, UpdateIsCommand DEF Live
  <2>3. Source[m] = Hash(m) /\ Source[m] # None
    <3>1. Hash(m) \in States
      BY <1>0, <2>2, LiveIs
    <3> QED BY <2>2, <3>1, SyncAssumption DEF Source
  <2>4. Note(c) = [map |-> m, state |-> Source[m]]
    BY <2>a, <2>b, <2>3 DEF Note
  <2>5. Channel' = Append(Channel, [map |-> m, state |-> Source[m]])
    BY <1>0, <2>1, <2>2, <2>4, ChannelEmitted
  <2>6. m \notin Gone
    BY <1>0, <2>1 DEF Removals, Gone, Range
  <2> QED BY <2>1, <2>2, <2>3, <2>5, <2>6, SourceStays, CopiedStays
          DEF reader, removes, Gone, AbstractNext
<1>12. ASSUME UNCHANGED WriterSide PROVE UNCHANGED <<Source, Gone>>
  BY <1>12, SourceStays DEF WriterSide, removes, Gone
<1>13. CASE RemoveLayout
  <2>1. Take("layout") /\ UNCHANGED <<WriterSide, rmaps>>
    BY <1>13 DEF RemoveLayout
  <2>2. /\ Channel # <<>> /\ Channel' = Tail(Channel) /\ Head(Channel) = Note(stream[1])
        /\ stream[1].kind = "layout"
    BY <1>0, <2>1, ChannelTaken, Taking
  <2>3. Head(Channel).map = None
    BY <2>2 DEF Note
  <2>4. Copied' = Copied
    BY <2>1, CopiedStays
  <2> QED BY <1>12, <2>1, <2>2, <2>3, <2>4 DEF AbstractNext
<1>14. CASE RemoveProperties
  <2>a. PICK m : m = Head(stream).id
    OBVIOUS
  <2>1. Take("map") /\ UNCHANGED WriterSide
    BY <1>14 DEF RemoveProperties
  <2>2. rmaps' = [rmaps EXCEPT ![m] = None] /\ m \in Maps
    BY <1>0, <1>14, <2>a, MapRemoved
  <2>3. /\ Channel # <<>> /\ Channel' = Tail(Channel) /\ Head(Channel) = Note(stream[1])
        /\ stream[1].kind = "map" /\ stream[1].id = m
    BY <1>0, <2>a, <2>1, ChannelTaken, Taking
  <2>4. Head(Channel).map = m /\ Head(Channel).state = None
    BY <2>3 DEF Note
  <2>5. \A n \in Maps : rmaps'[n] = IF n = m THEN None ELSE rmaps[n]
    BY <1>0, <2>2
  <2>6. \A n \in Maps : Copied'[n] = IF n = m THEN None ELSE Copied[n]
    BY <2>5 DEF Copied, Replica
  <2>7. Taken(Copied[m], None) = None
    BY SyncAssumption DEF Taken, Blanks
  <2>8. Copied' = [Copied EXCEPT ![m] = Taken(Copied[m], None)]
    BY <2>6, <2>7 DEF Copied
  <2>9. m # None
    BY <2>2, SyncAssumption
  <2> QED BY <1>12, <2>1, <2>3, <2>4, <2>8, <2>9 DEF AbstractNext
<1>15. CASE Read
  <2>a. PICK c : c = Head(stream)
    OBVIOUS
  <2>1. Take("update") /\ UNCHANGED WriterSide
    BY <1>15 DEF Read
  <2>2. c.id \in Maps /\ c.state \in States
    BY <1>0, <2>a, <2>1, HeadIs DEF Take
  <2>3. /\ Channel # <<>> /\ Channel' = Tail(Channel) /\ Head(Channel) = Note(stream[1])
        /\ stream[1].kind = "update" /\ stream[1] = c
    BY <1>0, <2>a, <2>1, ChannelTaken, Taking
  <2>4. Head(Channel).map = c.id /\ Head(Channel).state = c.state
    BY <2>3 DEF Note
  <2>5. misread' = {}
    BY DEF IInv, Promises, Understood
  <2>6. Replica(c.id)' = Taken(Copied[c.id], c.state)
    <3>1. Replica(c.id)' = IF c.state.val \notin Sparse THEN c.state
                           ELSE IF rmaps[c.id] = None THEN None ELSE [c.state EXCEPT !.val = None]
      BY <1>0, <1>15, <2>a, <2>5, CopyTaken
    <3>2. Copied[c.id] = None <=> rmaps[c.id] = None
      BY <1>0, <2>2, ReplicaIs DEF Copied
    <3> QED BY <2>2, <3>1, <3>2 DEF Taken, Blanks
  <2>7. \A n \in Maps : n # c.id => rmaps'[n] = rmaps[n]
    BY <1>0, <1>15, <2>a, OthersKept
  <2>8. \A n \in Maps : Copied'[n] = IF n = c.id THEN Taken(Copied[c.id], c.state)
                                                 ELSE Copied[n]
    BY <2>6, <2>7 DEF Copied, Replica
  <2>9. Copied' = [Copied EXCEPT ![c.id] = Taken(Copied[c.id], c.state)]
    BY <2>8 DEF Copied
  <2>10. c.id # None
    BY <2>2, SyncAssumption
  <2> QED BY <1>12, <2>1, <2>3, <2>4, <2>9, <2>10 DEF AbstractNext
<1> QED BY <1>2, <1>3, <1>4, <1>6, <1>7, <1>8, <1>9, <1>10, <1>11, <1>13, <1>14, <1>15 DEF Next

\* With its layouts, descriptors and hashes the protocol implements PropertyReplica,
\* what a copy cannot take included, until the writer takes a layout for another.
THEOREM Implements == Spec => ImplementsReplica
<1>1. Init => Abstract!Init
  <2> SUFFICES ASSUME Init PROVE Abstract!Init
    OBVIOUS
  <2>1. Live = {} /\ \A m \in Maps : rmaps[m] = None
    BY DEF Init, Live
  <2>2. Range(map_remove_list) = {}
    BY DEF Init, Range
  <2>3. [i \in DOMAIN stream |-> Note(stream[i])] = <<>>
    <3>1. stream \in Seq(Commands) /\ Len(stream) = 0
      BY DEF Init
    <3>2. Channel \in Seq(Notes) /\ Len(Channel) = 0
      BY <3>1, ChannelIs DEF Channel
    <3> QED BY <3>2 DEF Channel
  <2> QED BY <2>1, <2>2, <2>3 DEF Abstract!Init, Replica
<1>2. IInv /\ IInv' /\ [Next]_vars => (mistaken' = {} => [Abstract!Next]_(Abstract!vars))
  BY StepsImplement
<1> QED BY <1>1, <1>2, Inductive, PTL DEF Spec, ImplementsReplica
=============================================================================
