-------------------------- MODULE StrictJsonProofs --------------------------
(***************************************************************************)
(* The three tree readers (HeaderSax, ConfigSax and ObjectSax) accept      *)
(* exactly the documents within their bounds, return what was read, and    *)
(* report a bound only where one was passed, for documents of any names,   *)
(* strings and bounds.                                                     *)
(* The handler keeps, per open container, the names seen and the value     *)
(* built; the document is the entries and names read.  Tree says what the  *)
(* one holds of the other: the context at depth i has the names and the    *)
(* values that stand below the path of the i-th open container, but for    *)
(* those below the next one, which the contexts further in hold.           *)
(* The last part is about all five readers: their memory stays within      *)
(* their bounds, because each counter accounts for what was stored (Room). *)
(***************************************************************************)
EXTENDS StrictJson, SequenceTheorems, FiniteSetTheorems, TLAPS

Labels == (UNION {Names[h] : h \in Handlers}) \cup {ToString(i) : i \in Nat} \cup {NoText}
Strings == (UNION {Texts[h] : h \in Handlers}) \cup {NoText}
Kinds == {"object", "array", "string", "other"}
Paths == Seq(Labels)
Tails == Paths \ {<<>>}
Entry == [path : Paths, kind : Kinds, text : Strings]
Below == [path : Tails, kind : Kinds, text : Strings]
Opened == [kind : {"object", "array"}, ready : BOOLEAN, count : Nat, at : Labels]
Contexts == [kind : {"object", "array"}, members : SUBSET Labels, pending : Paths,
             items : Nat, value : SUBSET Below]

-----------------------------------------------------------------------------
(* Paths.                                                                  *)

(* The path of the i-th of the open containers f, and of the next value in *)
(* the innermost when i is Len(f) + 1.                                     *)
Prefix(f, i) == [j \in 1..i - 1 |-> f[j].at]
In(f, i, v) == [v EXCEPT !.path = Prefix(f, i) \o @]

LEMMA SequenceOfFunction ==
    ASSUME NEW S, NEW n \in Nat, NEW s \in [1..n -> S]
    PROVE  s \in Seq(S) /\ Len(s) = n
  <1>1. s \in Seq(S)
    BY SeqDef
  <1> QED
    BY <1>1, LenProperties

LEMMA PrefixPath ==
    ASSUME NEW f \in Seq(Opened), NEW i \in 1..Len(f) + 1
    PROVE  /\ Prefix(f, i) \in Paths
           /\ Len(Prefix(f, i)) = i - 1
  <1>1. \A j \in 1..i - 1 : f[j].at \in Labels
    <2> TAKE j \in 1..i - 1
    <2>1. f[j] \in Opened
      BY ElementOfSeq
    <2> QED
      BY <2>1 DEF Opened
  <1>2. i - 1 \in Nat /\ Prefix(f, i) \in [1..i - 1 -> Labels]
    BY <1>1 DEF Prefix
  <1> QED
    BY <1>2, SequenceOfFunction DEF Paths

LEMMA PrefixGrows ==
    ASSUME NEW f \in Seq(Opened), NEW i \in 1..Len(f)
    PROVE  /\ f[i].at \in Labels
           /\ Prefix(f, i + 1) = Prefix(f, i) \o <<f[i].at>>
  <1>1. f[i].at \in Labels
    <2>1. f[i] \in Opened
      BY ElementOfSeq
    <2> QED
      BY <2>1 DEF Opened
  <1>2. /\ Prefix(f, i) \in Paths /\ Len(Prefix(f, i)) = i - 1
        /\ Prefix(f, i + 1) \in Paths /\ Len(Prefix(f, i + 1)) = i
    BY PrefixPath
  <1>3. \A j \in 1..i : Prefix(f, i + 1)[j] = (Prefix(f, i) \o <<f[i].at>>)[j]
    BY <1>1, <1>2 DEF Prefix, Paths
  <1> QED
    BY <1>1, <1>2, <1>3, SeqEqual DEF Paths

LEMMA PrefixAgrees ==
    ASSUME NEW f, NEW g, NEW i \in Nat, \A j \in 1..i - 1 : f[j].at = g[j].at
    PROVE  Prefix(f, i) = Prefix(g, i)
  BY DEF Prefix

LEMMA HeadOfConcat ==
    ASSUME NEW q \in Tails, NEW r \in Paths
    PROVE  /\ q \o r \in Tails
           /\ Head(q \o r) = Head(q)
           /\ Head(q) \in Labels
  BY DEF Tails, Paths

LEMMA Singletons ==
    ASSUME NEW x \in Labels, NEW r \in Paths
    PROVE  /\ <<x>> \in Tails
           /\ <<x>> \o r \in Tails
           /\ Head(<<x>> \o r) = x
  BY DEF Tails, Paths

LEMMA Cancel ==
    ASSUME NEW p \in Paths, NEW q \in Paths, NEW r \in Paths, p \o q = p \o r
    PROVE  q = r
  BY ConcatSimplifications DEF Paths

LEMMA NothingAfter ==
    ASSUME NEW p \in Paths, NEW q \in Paths, p \o q = p
    PROVE  q = <<>>
  BY ConcatEqualIffEmpty DEF Paths

LEMMA OneAfter ==
    ASSUME NEW p \in Paths, NEW q \in Paths, NEW x \in Labels, p \o q = p \o <<x>>
    PROVE  q = <<x>>
  <1> DEFINE one == <<x>>
  <1>1. one \in Paths
    BY DEF Paths
  <1>2. p \o q = p \o one
    OBVIOUS
  <1> HIDE DEF one
  <1>3. q = one
    BY <1>1, <1>2, Cancel
  <1> QED
    BY <1>3 DEF one

LEMMA Associates ==
    ASSUME NEW p \in Paths, NEW q \in Paths, NEW r \in Paths
    PROVE  (p \o q) \o r = p \o (q \o r)
  BY ConcatAssociative DEF Paths

LEMMA ThroughName ==
    ASSUME NEW p \in Paths, NEW x \in Labels, NEW r \in Paths
    PROVE  /\ p \o <<x>> \in Tails
           /\ (p \o <<x>>) \o r = p \o (<<x>> \o r)
  <1> DEFINE one == <<x>>
  <1>1. one \in Paths /\ Len(one) = 1
    BY DEF Paths
  <1> HIDE DEF one
  <1>2. p \o one \in Paths
    BY <1>1, ConcatProperties DEF Paths
  <1>3. one # <<>>
    BY DEF one
  <1>4. p \o one # <<>>
    BY <1>1, <1>3, ConcatEqualIffEmpty DEF Paths
  <1>5. (p \o one) \o r = p \o (one \o r)
    BY <1>1, Associates
  <1> QED
    BY <1>2, <1>5, <1>4 DEF one, Tails

(* The path of the next value runs through every open container.           *)
LEMMA PlaceSplits ==
    ASSUME NEW f \in Seq(Opened), NEW i \in 1..Len(f)
    PROVE  \E q \in Tails : Prefix(f, Len(f) + 1) = Prefix(f, i) \o q /\ Head(q) = f[i].at
  <1> DEFINE q == [j \in 1..Len(f) - i + 1 |-> f[i + j - 1].at]
  <1>1. q \in Tails /\ Len(q) = Len(f) - i + 1 /\ Head(q) = f[i].at
    <2>1. \A j \in 1..Len(f) - i + 1 : f[i + j - 1].at \in Labels
      <3> TAKE j \in 1..Len(f) - i + 1
      <3>1. i + j - 1 \in 1..Len(f)
        OBVIOUS
      <3>2. f[i + j - 1] \in Opened
        BY <3>1, ElementOfSeq
      <3> QED
        BY <3>2 DEF Opened
    <2>2. Len(f) - i + 1 \in Nat
      OBVIOUS
    <2>3. q \in [1..Len(f) - i + 1 -> Labels]
      BY <2>1
    <2>4. q[1] = f[i].at
      BY <2>2
    <2>5. q \in Seq(Labels) /\ Len(q) = Len(f) - i + 1
      <3> HIDE DEF q
      <3> QED
        BY <2>2, <2>3, SequenceOfFunction
    <2> HIDE DEF q
    <2> QED
      BY <2>2, <2>4, <2>5 DEF Tails, Paths
  <1>2. /\ Prefix(f, i) \in Paths /\ Len(Prefix(f, i)) = i - 1
        /\ Prefix(f, Len(f) + 1) \in Paths /\ Len(Prefix(f, Len(f) + 1)) = Len(f)
    BY PrefixPath
  <1>3. \A j \in 1..Len(f) : Prefix(f, Len(f) + 1)[j] = (Prefix(f, i) \o q)[j]
    BY <1>1, <1>2 DEF Prefix, Paths, Tails
  <1>4. Prefix(f, Len(f) + 1) = Prefix(f, i) \o q
    <2> HIDE DEF q
    <2> QED
      <3>1. Prefix(f, i) \o q \in Paths /\ Len(Prefix(f, i) \o q) = Len(f)
        BY <1>1, <1>2, ConcatProperties DEF Paths, Tails
      <3> QED
        BY <1>2, <1>3, <3>1, SeqEqual DEF Paths
  <1> QED
    BY <1>1, <1>4

LEMMA SamePath ==
    ASSUME NEW f \in Seq(Opened), NEW i \in 1..Len(f) + 1, NEW v \in Entry
    PROVE  /\ In(f, i, v) \in Entry
           /\ In(f, i, v).path = Prefix(f, i) \o v.path
           /\ In(f, i, v).kind = v.kind
           /\ In(f, i, v).text = v.text
  <1>1. Prefix(f, i) \o v.path \in Paths
    BY PrefixPath, ConcatProperties DEF Entry, Paths
  <1> QED
    BY <1>1 DEF In, Entry

LEMMA BelowIsEntry == Below \subseteq Entry
  BY DEF Below, Entry, Tails

LEMMA SameEntry ==
    ASSUME NEW d \in Entry, NEW e \in Entry, d.path = e.path, d.kind = e.kind, d.text = e.text
    PROVE  d = e
  BY DEF Entry

-----------------------------------------------------------------------------
(* What a handler's contexts st hold when the parser is inside f and has   *)
(* read the entries E and the names K.  At depth i the context             *)
(*   - awaits the name, or the index, that the parser is at (Linked);      *)
(*   - is that of an entry that was read once (Own);                       *)
(*   - has a name for every entry below it (Named), and as members the     *)
(*     names that were read in it, so that a duplicate is seen (Keyed);    *)
(*   - has built what stands below it, but for the value that is being     *)
(*     read (Valued).                                                      *)
(* Nothing was read yet at the place of the next value (Fresh), and names  *)
(* are read in containers (KeyParents).                                    *)

Linked(f, st, i) ==
  /\ st[i].kind = f[i].kind
  /\ i < Len(f) => f[i].ready
  /\ st[i].pending = IF f[i].kind = "object" /\ f[i].ready THEN <<f[i].at>> ELSE <<>>
  /\ f[i].kind = "object" /\ f[i].ready => f[i].at \in st[i].members
  /\ f[i].kind = "array" =>
       f[i].ready /\ st[i].items = f[i].count /\ f[i].at = ToString(f[i].count)
Own(f, E, i) ==
  /\ [path |-> Prefix(f, i), kind |-> f[i].kind, text |-> NoText] \in E
  /\ \A e \in E : e.path = Prefix(f, i) => e.kind = f[i].kind /\ e.text = NoText
Named(f, E, st, i) ==
  \A q \in Tails : \A e \in E : e.path = Prefix(f, i) \o q =>
    IF f[i].kind = "object" THEN Head(q) \in st[i].members
    ELSE \E k \in 0..f[i].count : Head(q) = ToString(k)
Keyed(f, K, st, i) ==
  f[i].kind = "object" =>
    \A x \in Labels : (Prefix(f, i) \o <<x>> \in K) <=> (x \in st[i].members)
Valued(f, E, st, i) ==
  \A v \in Below : (v \in st[i].value) <=>
    (In(f, i, v) \in E /\ (i < Len(f) => Head(v.path) # f[i].at))
Fresh(f, E) ==
  f # <<>> /\ f[Len(f)].ready =>
    \A q \in Paths : \A e \in E : e.path # Prefix(f, Len(f) + 1) \o q
KeyParents(E, K) ==
  \A p \in Paths, x \in Labels : p \o <<x>> \in K => \E e \in E : e.path = p

Level(f, E, K, st, i) ==
  /\ Linked(f, st, i) /\ Own(f, E, i) /\ Named(f, E, st, i)
  /\ Keyed(f, K, st, i) /\ Valued(f, E, st, i)
Tree(f, E, K, st) ==
  /\ Len(st) = Len(f)
  /\ \A i \in 1..Len(f) : Level(f, E, K, st, i)
  /\ Fresh(f, E)
  /\ KeyParents(E, K)

(* A level that nothing happened to.                                       *)
LEMMA LevelKept ==
    ASSUME NEW f, NEW g, NEW E, NEW K, NEW st, NEW su, NEW i \in Nat,
           Level(f, E, K, st, i),
           g[i] = f[i], su[i] = st[i], Prefix(g, i) = Prefix(f, i),
           (i < Len(g)) <=> (i < Len(f))
    PROVE  Level(g, E, K, su, i)
  BY DEF Level, Linked, Own, Named, Keyed, Valued, In

(* A level below which an entry was read, one level or more further down.  *)
LEMMA LevelPassed ==
    ASSUME NEW f \in Seq(Opened), NEW g, NEW E \in SUBSET Entry, NEW K, NEW st, NEW su,
           NEW i \in 1..Len(f), NEW e \in Entry,
           e.path = Prefix(f, Len(f) + 1), f[i].ready,
           Level(f, E, K, st, i), Fresh(f, E),
           g[i] = f[i], su[i] = st[i], Prefix(g, i) = Prefix(f, i), i < Len(g)
    PROVE  Level(g, E \cup {e}, K, su, i)
  <1>1. PICK q \in Tails : e.path = Prefix(f, i) \o q /\ Head(q) = f[i].at
    BY PlaceSplits
  <1>2. Prefix(f, i) \in Paths
    BY PrefixPath
  <1>3. \A r \in Paths : e.path = Prefix(f, i) \o r => r = q
    BY <1>1, <1>2, Cancel DEF Tails
  <1>4. f[i] \in Opened
    BY ElementOfSeq
  <1>5. Linked(g, su, i)
    BY DEF Level, Linked
  <1>6. Own(g, E \cup {e}, i)
    <2>1. e.path # Prefix(f, i)
      BY <1>2, <1>3, ConcatEmptySeq, EmptySeq DEF Tails, Paths
    <2> QED
      BY <2>1 DEF Level, Own
  <1>7. Named(g, E \cup {e}, su, i)
    <2> SUFFICES ASSUME NEW r \in Tails, NEW d \in E \cup {e}, d.path = Prefix(f, i) \o r
                 PROVE  IF f[i].kind = "object" THEN Head(r) \in st[i].members
                        ELSE \E k \in 0..f[i].count : Head(r) = ToString(k)
      BY DEF Named
    <2>1. CASE d \in E
      BY <2>1 DEF Level, Named
    <2>2. CASE d = e
      <3>1. Head(r) = f[i].at
        BY <1>1, <1>3, <2>2 DEF Tails
      <3>2. f[i].kind = "array" => f[i].count \in 0..f[i].count
        BY <1>4 DEF Opened
      <3> QED
        BY <1>4, <3>1, <3>2 DEF Level, Linked, Opened
    <2> QED
      BY <2>1, <2>2
  <1>8. Keyed(g, K, su, i)
    BY DEF Level, Keyed
  <1>9. Valued(g, E \cup {e}, su, i)
    <2> SUFFICES ASSUME NEW v \in Below
                 PROVE  (v \in st[i].value) <=>
                          (In(f, i, v) \in E \cup {e} /\ Head(v.path) # f[i].at)
      BY DEF Valued, In
    <2>1. v.path \in Tails /\ In(f, i, v).path = Prefix(f, i) \o v.path
      BY SamePath, BelowIsEntry DEF Below
    <2>2. In(f, i, v) = e => Head(v.path) = f[i].at
      BY <1>1, <1>3, <2>1 DEF Tails
    <2>3. CASE i < Len(f)
      BY <2>2, <2>3 DEF Level, Valued
    <2>4. CASE i = Len(f)
      <3>1. In(f, i, v) \in E => Head(v.path) # f[i].at
        <4> SUFFICES ASSUME In(f, i, v) \in E, Head(v.path) = f[i].at PROVE FALSE
          OBVIOUS
        <4>1. Tail(v.path) \in Paths /\ v.path = <<f[i].at>> \o Tail(v.path)
          BY <2>1 DEF Tails, Paths
        <4>2. f[i].at \in Labels /\ <<f[i].at>> \in Paths
              /\ Prefix(f, i + 1) = Prefix(f, i) \o <<f[i].at>>
          BY PrefixGrows, Singletons DEF Tails
        <4>3. In(f, i, v).path = Prefix(f, i + 1) \o Tail(v.path)
          <5>1. Prefix(f, i + 1) \o Tail(v.path) = Prefix(f, i) \o (<<f[i].at>> \o Tail(v.path))
            <6>1. Prefix(f, i) \in Paths /\ f[i].at \in Labels /\ Tail(v.path) \in Paths
              BY <1>2, <4>1, <4>2
            <6>2. (Prefix(f, i) \o <<f[i].at>>) \o Tail(v.path) = Prefix(f, i) \o (<<f[i].at>> \o Tail(v.path))
              BY ONLY <6>1, ThroughName
            <6> QED
              BY ONLY <4>2, <6>2
          <5> QED
            BY <2>1, <4>1, <5>1
        <4>4. f # <<>>
          BY <2>4
        <4> QED
          BY <2>4, <4>1, <4>3, <4>4 DEF Fresh
      <3> QED
        BY <2>2, <2>4, <3>1 DEF Level, Valued
    <2> QED
      BY <2>3, <2>4
  <1> QED
    BY <1>5, <1>6, <1>7, <1>8, <1>9 DEF Level

(* The level that a container opens.                                       *)
LEMMA LevelOpened ==
    ASSUME NEW f \in Seq(Opened), NEW g \in Seq(Opened), NEW E \in SUBSET Entry,
           NEW K, NEW su, NEW n \in Nat, NEW e \in Entry,
           n = Len(f) + 1, Len(g) = n, Prefix(g, n) = Prefix(f, n),
           e.path = Prefix(f, n), e.kind = g[n].kind, e.text = NoText,
           f # <<>> => f[Len(f)].ready, f = <<>> => E = {},
           Fresh(f, E), KeyParents(E, K),
           g[n].ready <=> g[n].kind = "array", g[n].count = 0,
           g[n].kind = "array" => g[n].at = ToString(0),
           su[n] = Context(g[n].kind)
    PROVE  Level(g, E \cup {e}, K, su, n) /\ Fresh(g, E \cup {e})
  <1> DEFINE p == Prefix(f, n)
             kind == g[n].kind
  <1>1. n \in 1..Len(g) /\ n \in 1..Len(f) + 1 /\ p \in Paths /\ kind \in {"object", "array"}
    <2>1. n \in 1..Len(g) /\ n \in 1..Len(f) + 1
      OBVIOUS
    <2>2. g[n] \in Opened /\ p \in Paths
      BY <2>1, ElementOfSeq, PrefixPath
    <2>3. kind \in {"object", "array"}
      BY <2>2 DEF Opened
    <2> QED
      BY <2>1, <2>2, <2>3
  <1>2. e = [path |-> p, kind |-> kind, text |-> NoText]
    BY DEF Entry
  <1>3. \A q \in Paths : \A d \in E : d.path # p \o q
    BY DEF Fresh
  <1>4. p \o <<>> = p
    BY <1>1, ConcatEmptySeq DEF Paths
  <1>5. \A d \in E : d.path # p
    BY <1>3, <1>4, EmptySeq DEF Paths
  <1>6. \A q \in Tails : e.path # p \o q
    BY <1>1, ConcatEqualIffEmpty DEF Tails, Paths
  <1>7. Linked(g, su, n)
    BY DEF Linked, Context
  <1>8. Own(g, E \cup {e}, n)
    BY <1>2, <1>5 DEF Own
  <1>9. Named(g, E \cup {e}, su, n)
    BY <1>3, <1>6 DEF Named, Tails
  <1>10. Keyed(g, K, su, n)
    <2>1. su[n].members = {}
      BY DEF Context
    <2>2. \A x \in Labels : p \o <<x>> \notin K
      BY <1>1, <1>5 DEF KeyParents
    <2> QED
      BY <2>1, <2>2 DEF Keyed
  <1>11. Valued(g, E \cup {e}, su, n)
    <2> SUFFICES ASSUME NEW v \in Below PROVE In(g, n, v) \notin E \cup {e}
      BY DEF Valued, Context
    <2>1. v.path \in Tails /\ In(g, n, v).path = p \o v.path
      <3>1. v \in Entry /\ v.path \in Tails
        BY BelowIsEntry DEF Below
      <3>2. In(g, n, v).path = Prefix(g, n) \o v.path
        <4>1. n \in 1..Len(g) + 1
          BY <1>1
        <4> QED
          BY <3>1, <4>1, SamePath
      <3> QED
        BY <3>1, <3>2
    <2> QED
      BY <1>3, <1>6, <2>1 DEF Tails
  <1>12. Fresh(g, E \cup {e})
    <2> SUFFICES ASSUME NEW q \in Paths, NEW d \in E \cup {e}
                 PROVE  d.path # Prefix(g, n + 1) \o q
      BY DEF Fresh
    <2>1. PICK x \in Labels : Prefix(g, n + 1) = p \o <<x>>
      BY <1>1, PrefixGrows
    <2>2. <<x>> \o q \in Tails /\ Prefix(g, n + 1) \o q = p \o (<<x>> \o q)
      BY ONLY <1>1, <2>1, Singletons, ThroughName, q \in Paths
    <2> QED
      BY <1>3, <1>6, <2>2 DEF Tails
  <1> QED
    BY <1>7, <1>8, <1>9, <1>10, <1>11, <1>12 DEF Level

(* The level that a value is attached to, once the parser has gone on to   *)
(* what follows the value.                                                 *)
LEMMA LevelFilled ==
    ASSUME NEW f \in Seq(Opened), NEW g \in Seq(Opened), NEW E \in SUBSET Entry,
           NEW K, NEW st, NEW su, f # <<>>, NEW V, NEW n \in Nat, n = Len(f),
           Linked(f, st, n), Own(f, E, n), Named(f, E, st, n),
           Keyed(f, K, st, n), f[n].ready,
           \A k \in 0..f[n].count : ToString(k) # ToString(f[n].count + 1),
           Len(g) = n, Prefix(g, n) = Prefix(f, n),
           g[n] = IF f[n].kind = "object" THEN [f[n] EXCEPT !.ready = FALSE]
                       ELSE [f[n] EXCEPT !.count = @ + 1, !.at = ToString(f[n].count + 1)],
           st[n] \in Contexts,
           su[n] = [st[n] EXCEPT !.value = V, !.pending = <<>>,
                            !.items = IF f[n].kind = "object" THEN @ ELSE @ + 1],
           \A v \in Below : (v \in V) <=> (In(f, n, v) \in E)
    PROVE  Level(g, E, K, su, n) /\ Fresh(g, E)
  <1> DEFINE p == Prefix(f, n)
  <1>1. n \in 1..Len(f) /\ f[n] \in Opened /\ p \in Paths
    BY PrefixPath, ElementOfSeq
  <1>2. g[n].kind = f[n].kind /\ g[n].kind \in {"object", "array"}
    BY <1>1 DEF Opened
  <1> HIDE DEF p
  <1>3. Linked(g, su, n)
    BY <1>1 DEF Linked, Opened, Contexts
  <1>4. Own(g, E, n)
    BY <1>2 DEF Own
  <1>5. Named(g, E, su, n)
    <2> SUFFICES ASSUME NEW q \in Tails, NEW e \in E, e.path = Prefix(f, n) \o q
                 PROVE  IF g[n].kind = "object" THEN Head(q) \in su[n].members
                        ELSE \E k \in 0..g[n].count : Head(q) = ToString(k)
      BY DEF Named
    <2>1. IF f[n].kind = "object" THEN Head(q) \in st[n].members
          ELSE \E k \in 0..f[n].count : Head(q) = ToString(k)
      BY DEF Named
    <2>2. CASE f[n].kind = "object"
      BY <1>1, <2>1, <2>2 DEF Opened, Contexts
    <2>3. CASE f[n].kind = "array"
      <3>1. PICK k \in 0..f[n].count : Head(q) = ToString(k)
        BY <2>1, <2>3
      <3>2. g[n].count = f[n].count + 1 /\ f[n].count \in Nat
        BY <1>1, <2>3 DEF Opened
      <3>3. k \in 0..g[n].count
        BY <3>2
      <3> QED
        BY <1>2, <2>3, <3>1, <3>3
    <2> QED
      BY <1>2, <2>2, <2>3
  <1>6. Keyed(g, K, su, n)
    BY <1>1, <1>2 DEF Keyed, Contexts
  <1>7. Valued(g, E, su, n)
    <2>1. su[n].value = V
      BY DEF Contexts
    <2>2. \A v : In(g, n, v) = In(f, n, v)
      BY DEF In
    <2> QED
      BY <2>1, <2>2 DEF Valued
  <1>8. Fresh(g, E)
    <2> SUFFICES ASSUME g[n].ready, NEW q \in Paths, NEW e \in E,
                        e.path = Prefix(g, n + 1) \o q
                 PROVE  FALSE
      BY DEF Fresh
    <2>1. f[n].kind = "array" /\ g[n].at = ToString(f[n].count + 1)
      BY <1>1 DEF Opened
    <2>2. g[n].at \in Labels /\ Prefix(g, n + 1) = p \o <<g[n].at>>
      BY <1>1, PrefixGrows DEF p
    <2>3. /\ <<g[n].at>> \o q \in Tails
          /\ Head(<<g[n].at>> \o q) = g[n].at
          /\ Prefix(g, n + 1) \o q = p \o (<<g[n].at>> \o q)
      BY ONLY <1>1, <2>2, Singletons, ThroughName, q \in Paths
    <2>4. \E k \in 0..f[n].count : g[n].at = ToString(k)
      <3> DEFINE r == <<g[n].at>> \o q
      <3>1. r \in Tails /\ Head(r) = g[n].at /\ e.path = p \o r
        BY <2>3
      <3> HIDE DEF r
      <3>2. Head(r) = g[n].at /\ \E k \in 0..f[n].count : Head(r) = ToString(k)
        BY <2>1, <3>1 DEF Named, p
      <3> QED
        BY <3>2
    <2> QED
      BY <2>1, <2>4
  <1> QED
    BY <1>3, <1>4, <1>5, <1>6, <1>7, <1>8 DEF Level

-----------------------------------------------------------------------------
(* Values under a name.                                                    *)

Rest(v) == [v EXCEPT !.path = Tail(@)]

LEMMA RestOfEntry ==
    ASSUME NEW v \in Below
    PROVE  /\ v.path \in Tails /\ Tail(v.path) \in Paths /\ Head(v.path) \in Labels
           /\ v.path = <<Head(v.path)>> \o Tail(v.path)
           /\ Rest(v) \in Entry
           /\ Rest(v).path = Tail(v.path) /\ Rest(v).kind = v.kind /\ Rest(v).text = v.text
  <1>1. v.path \in Tails /\ v.kind \in Kinds /\ v.text \in Strings
    BY DEF Below
  <1>2. /\ Tail(v.path) \in Paths /\ Head(v.path) \in Labels
        /\ v.path = <<Head(v.path)>> \o Tail(v.path)
    BY <1>1 DEF Tails, Paths
  <1> QED
    BY <1>1, <1>2 DEF Rest, Below, Entry

LEMMA UnderName ==
    ASSUME NEW a \in Labels, NEW V \in SUBSET Entry
    PROVE  /\ Under(a, V) \subseteq Below
           /\ \A v \in Below : (v \in Under(a, V)) <=> (Head(v.path) = a /\ Rest(v) \in V)
  <1>1. ASSUME NEW w \in Entry
        PROVE  LET u == [w EXCEPT !.path = <<a>> \o @] IN
               u \in Below /\ Head(u.path) = a /\ Rest(u) = w
    <2> DEFINE u == [w EXCEPT !.path = <<a>> \o @]
    <2>1. w.path \in Paths /\ w.kind \in Kinds /\ w.text \in Strings
      BY DEF Entry
    <2>2. <<a>> \o w.path \in Tails /\ Head(<<a>> \o w.path) = a
      BY <2>1, Singletons
    <2>3. Tail(<<a>> \o w.path) = w.path
      <3>1. w.path \in Seq(Labels)
        BY <2>1 DEF Paths
      <3> QED
        BY ONLY <3>1, a \in Labels
    <2>4. u.path = <<a>> \o w.path /\ u.kind = w.kind /\ u.text = w.text /\ u \in Below
      BY <2>1, <2>2 DEF Entry, Below
    <2> HIDE DEF u
    <2>5. Rest(u) \in Entry /\ Rest(u).path = w.path /\ Rest(u).kind = w.kind /\ Rest(u).text = w.text
      BY <2>3, <2>4, RestOfEntry
    <2>6. Rest(u) = w
      BY <2>5, SameEntry
    <2> QED
      BY <2>2, <2>4, <2>6 DEF u
  <1>2. Under(a, V) \subseteq Below
    BY <1>1 DEF Under
  <1>3. ASSUME NEW v \in Below, v \in Under(a, V)
        PROVE  Head(v.path) = a /\ Rest(v) \in V
    BY <1>1, <1>3 DEF Under
  <1>4. ASSUME NEW v \in Below, Head(v.path) = a, Rest(v) \in V
        PROVE  v \in Under(a, V)
    <2>1. v = [Rest(v) EXCEPT !.path = <<a>> \o @]
      BY <1>4, RestOfEntry DEF Below, Rest
    <2> QED
      BY <1>4, <2>1 DEF Under
  <1> QED
    BY <1>2, <1>3, <1>4

LEMMA WithoutName ==
    ASSUME NEW a, NEW V \in SUBSET Below
    PROVE  /\ Without(V, a) \subseteq Below
           /\ \A v \in Below : (v \in Without(V, a)) <=> (v \in V /\ Head(v.path) # a)
  <1>1. \A v \in Below : v.path # <<>>
    BY DEF Below, Tails
  <1> QED
    BY <1>1 DEF Without

LEMMA InsideRest ==
    ASSUME NEW f \in Seq(Opened), NEW i \in 1..Len(f), NEW v \in Below, Head(v.path) = f[i].at
    PROVE  In(f, i, v) = In(f, i + 1, Rest(v))
  <1>1. v.path \in Tails /\ Tail(v.path) \in Paths
        /\ v.path = <<f[i].at>> \o Tail(v.path) /\ Rest(v) \in Entry
        /\ Rest(v).path = Tail(v.path) /\ Rest(v).kind = v.kind /\ Rest(v).text = v.text
    BY RestOfEntry
  <1>2. Prefix(f, i) \in Paths /\ f[i].at \in Labels
        /\ Prefix(f, i + 1) = Prefix(f, i) \o <<f[i].at>>
    BY PrefixPath, PrefixGrows
  <1>3. Prefix(f, i + 1) \o Tail(v.path) = Prefix(f, i) \o v.path
    BY ONLY <1>1, <1>2, ThroughName
  <1>4. v \in Entry /\ i \in 1..Len(f) + 1 /\ i + 1 \in 1..Len(f) + 1
    BY BelowIsEntry
  <1>5. /\ In(f, i, v) \in Entry /\ In(f, i + 1, Rest(v)) \in Entry
        /\ In(f, i, v).path = In(f, i + 1, Rest(v)).path
        /\ In(f, i, v).kind = In(f, i + 1, Rest(v)).kind
        /\ In(f, i, v).text = In(f, i + 1, Rest(v)).text
    <2>1. /\ In(f, i, v) \in Entry /\ In(f, i, v).path = Prefix(f, i) \o v.path
          /\ In(f, i, v).kind = v.kind /\ In(f, i, v).text = v.text
      BY <1>4, SamePath
    <2>2. /\ In(f, i + 1, Rest(v)) \in Entry
          /\ In(f, i + 1, Rest(v)).path = Prefix(f, i + 1) \o Rest(v).path
          /\ In(f, i + 1, Rest(v)).kind = Rest(v).kind
          /\ In(f, i + 1, Rest(v)).text = Rest(v).text
      BY ONLY <1>1, <1>4, SamePath, f \in Seq(Opened)
    <2> QED
      BY <1>1, <1>3, <2>1, <2>2
  <1> QED
    BY <1>5, SameEntry

-----------------------------------------------------------------------------
(* The four things that can happen to a tree.                              *)

LEMMA FrontOfSeq ==
    ASSUME NEW S, NEW s \in Seq(S), s # <<>>
    PROVE  LET front == SubSeq(s, 1, Len(s) - 1) IN
           /\ front \in Seq(S) /\ Len(front) = Len(s) - 1
           /\ \A i \in 1..Len(s) - 1 : front[i] = s[i]
  <1> DEFINE front == SubSeq(s, 1, Len(s) - 1)
  <1>1. Len(s) \in Nat \ {0} /\ Len(s) - 1 \in Int /\ \A i \in 1..Len(s) - 1 : s[i] \in S
    BY ElementOfSeq
  <1>2. /\ front \in Seq(S)
        /\ Len(front) = IF 1 <= Len(s) - 1 THEN Len(s) - 1 - 1 + 1 ELSE 0
        /\ \A i \in 1..Len(s) - 1 - 1 + 1 : front[i] = s[1 + i - 1]
    BY <1>1, SubSeqProperties
  <1> HIDE DEF front
  <1>3. Len(front) = Len(s) - 1
    <2>1. PICK k \in Nat \ {0} : k = Len(s)
      BY <1>1
    <2>2. Len(front) = IF 1 <= k - 1 THEN k - 1 - 1 + 1 ELSE 0
      BY <1>2, <2>1
    <2> QED
      BY ONLY <2>1, <2>2
  <1>4. ASSUME NEW i \in 1..Len(s) - 1 PROVE front[i] = s[i]
    <2>1. i \in 1..Len(s) - 1 - 1 + 1 /\ 1 + i - 1 = i
      BY <1>1
    <2> QED
      BY <1>2, <2>1
  <1> QED
    BY <1>2, <1>3, <1>4 DEF front

LEMMA IndexIsLabel ==
    ASSUME NEW i \in Nat
    PROVE  ToString(i) \in Labels
  <1>1. ToString(i) \in {ToString(k) : k \in Nat}
    OBVIOUS
  <1> QED
    BY <1>1 DEF Labels

LEMMA Advances ==
    ASSUME NEW f \in Seq(Opened), f # <<>>,
           f[Len(f)].kind = "array" => f[Len(f)].ready
    PROVE  LET g == Advance(f) IN
           /\ g \in Seq(Opened) /\ Len(g) = Len(f)
           /\ \A i \in 1..Len(f) - 1 : g[i] = f[i]
           /\ \A i \in 1..Len(f) : Prefix(g, i) = Prefix(f, i)
           /\ g[Len(f)] = IF f[Len(f)].kind = "object" THEN [f[Len(f)] EXCEPT !.ready = FALSE]
                          ELSE [f[Len(f)] EXCEPT !.count = @ + 1, !.at = ToString(f[Len(f)].count + 1)]
  <1> DEFINE n == Len(f)
             g == Advance(f)
             x == IF f[n].kind = "object" THEN [f[n] EXCEPT !.ready = FALSE]
                  ELSE [f[n] EXCEPT !.count = @ + 1, !.at = ToString(f[n].count + 1)]
  <1>1. n \in 1..Len(f) /\ n \in Nat /\ f[n] \in Opened
    BY ElementOfSeq
  <1>2. x \in Opened
    <2>1. f[n].count + 1 \in Nat
      BY <1>1 DEF Opened
    <2>2. ToString(f[n].count + 1) \in Labels
      BY <2>1, IndexIsLabel
    <2>3. f[n].kind = "object" => x \in Opened
      BY <1>1 DEF Opened
    <2>4. f[n].kind = "array" => x \in Opened
      BY <1>1, <2>1, <2>2 DEF Opened
    <2> HIDE DEF x
    <2> QED
      BY <1>1, <2>3, <2>4 DEF Opened
  <1>3. g = Append(SubSeq(f, 1, n - 1), x)
    BY DEF Advance, Front, Last
  <1> HIDE DEF x, g
  <1> DEFINE front == SubSeq(f, 1, n - 1)
  <1>4. front \in Seq(Opened) /\ Len(front) = n - 1 /\ \A i \in 1..n - 1 : front[i] = f[i]
    BY FrontOfSeq
  <1> HIDE DEF front
  <1>5. g \in Seq(Opened) /\ Len(g) = n /\ g[n] = x /\ \A i \in 1..n - 1 : g[i] = f[i]
    BY <1>1, <1>2, <1>3, <1>4, AppendProperties DEF front
  <1>6. ASSUME NEW i \in 1..n PROVE Prefix(g, i) = Prefix(f, i)
    BY <1>1, <1>5, PrefixAgrees
  <1> QED
    BY <1>5, <1>6 DEF x, g

(* The stack with the value V in the n-th context, which awaits no name    *)
(* then, and what that context holds once the values V have been put under *)
(* the name that it awaited.                                               *)
Filled(f, st, n, V) ==
  [st EXCEPT ![n] = [st[n] EXCEPT !.value = V, !.pending = <<>>,
                        !.items = IF f[n].kind = "object" THEN @ ELSE @ + 1]]
Gathered(f, st, n, V) == Without(st[n].value, f[n].at) \cup Under(f[n].at, V)

(* A value V has been put under the name of the innermost container.       *)
LEMMA TreeFilled ==
    ASSUME NEW f \in Seq(Opened), NEW E \in SUBSET Entry, NEW K,
           NEW st \in Seq(Contexts), NEW V \in SUBSET Below, NEW n \in Nat,
           f # <<>>, n = Len(f), Len(st) = n, f[n].ready,
           \A k \in 0..f[n].count : ToString(k) # ToString(f[n].count + 1),
           \A i \in 1..n - 1 : Level(f, E, K, st, i),
           Linked(f, st, n), Own(f, E, n), Named(f, E, st, n), Keyed(f, K, st, n),
           KeyParents(E, K),
           \A v \in Below : (v \in V) <=> (In(f, n, v) \in E)
    PROVE  /\ Filled(f, st, n, V) \in Seq(Contexts)
           /\ Tree(Advance(f), E, K, Filled(f, st, n, V))
  <1> DEFINE c == [st[n] EXCEPT !.value = V, !.pending = <<>>,
                      !.items = IF f[n].kind = "object" THEN @ ELSE @ + 1]
             su == [st EXCEPT ![n] = c]
             g == Advance(f)
  <1>1. n \in 1..Len(f) /\ n \in 1..Len(st) /\ st[n] \in Contexts /\ f[n] \in Opened
    BY ElementOfSeq
  <1>2. c \in Contexts
    <2>1. <<>> \in Paths
      BY EmptySeq DEF Paths
    <2>2. st[n].items \in Nat
      BY <1>1 DEF Contexts
    <2>3. (IF f[n].kind = "object" THEN st[n].items ELSE st[n].items + 1) \in Nat
      BY <2>2
    <2> QED
      BY <1>1, <2>1, <2>3 DEF Contexts
  <1>3. /\ g \in Seq(Opened) /\ Len(g) = n
        /\ \A i \in 1..n - 1 : g[i] = f[i]
        /\ \A i \in 1..n : Prefix(g, i) = Prefix(f, i)
        /\ g[n] = IF f[n].kind = "object" THEN [f[n] EXCEPT !.ready = FALSE]
                  ELSE [f[n] EXCEPT !.count = @ + 1, !.at = ToString(f[n].count + 1)]
    BY Advances
  <1>4. c = [st[n] EXCEPT !.value = V, !.pending = <<>>,
                      !.items = IF f[n].kind = "object" THEN @ ELSE @ + 1]
    OBVIOUS
  <1> HIDE DEF c, g
  <1>5. /\ su \in Seq(Contexts) /\ Len(su) = n /\ su[n] = c
        /\ \A i \in 1..n - 1 : su[i] = st[i]
    BY <1>1, <1>2, ExceptSeq
  <1> HIDE DEF su
  <1>6. Level(g, E, K, su, n) /\ Fresh(g, E)
    <2>1. su[n] = [st[n] EXCEPT !.value = V, !.pending = <<>>,
                      !.items = IF f[n].kind = "object" THEN @ ELSE @ + 1]
      BY <1>4, <1>5
    <2>2. Prefix(g, n) = Prefix(f, n)
      BY <1>1, <1>3
    <2> QED
      BY <1>1, <1>3, <2>1, <2>2, LevelFilled
  <1>7. ASSUME NEW i \in 1..n - 1 PROVE Level(g, E, K, su, i)
    <2>1. i \in Nat /\ i \in 1..n /\ i < Len(g) /\ i < Len(f)
      BY <1>3
    <2> QED
      BY <1>3, <1>5, <2>1, LevelKept
  <1>8. Tree(g, E, K, su)
    BY <1>1, <1>3, <1>5, <1>6, <1>7 DEF Tree
  <1> QED
    BY <1>5, <1>8 DEF su, c, g, Filled

LEMMA FrameFields ==
    ASSUME NEW kind \in {"object", "array"}
    PROVE  LET frame == Frame(kind) IN
           /\ frame.kind = kind /\ (frame.ready <=> kind = "array") /\ frame.count = 0
           /\ kind = "array" => frame.at = ToString(0)
  <1>1. CASE kind = "object"
    BY <1>1 DEF Frame
  <1>2. CASE kind = "array"
    BY <1>2 DEF Frame
  <1> QED
    BY <1>1, <1>2

(* A container begins.                                                     *)
LEMMA TreeOpened ==
    ASSUME NEW f \in Seq(Opened), NEW E \in SUBSET Entry, NEW K,
           NEW st \in Seq(Contexts), NEW kind \in {"object", "array"}, NEW e \in Entry,
           NEW n \in Nat, n = Len(f) + 1,
           Tree(f, E, K, st), f # <<>> => f[Len(f)].ready, f = <<>> => E = {},
           e.path = Prefix(f, n), e.kind = kind, e.text = NoText
    PROVE  /\ Append(f, Frame(kind)) \in Seq(Opened)
           /\ Append(st, Context(kind)) \in Seq(Contexts)
           /\ Tree(Append(f, Frame(kind)), E \cup {e}, K, Append(st, Context(kind)))
  <1> DEFINE g == Append(f, Frame(kind))
             su == Append(st, Context(kind))
  <1>1. Frame(kind) \in Opened
    <2>1. ToString(0) \in Labels /\ NoText \in Labels
      BY IndexIsLabel DEF Labels
    <2>2. [kind |-> kind, ready |-> kind = "array", count |-> 0, at |-> ToString(0)] \in Opened
          /\ [kind |-> kind, ready |-> kind = "array", count |-> 0, at |-> NoText] \in Opened
      BY <2>1 DEF Opened
    <2> QED
      BY <2>2 DEF Frame
  <1>2. Context(kind) \in Contexts
    <2>1. <<>> \in Paths
      BY EmptySeq DEF Paths
    <2> QED
      BY <2>1 DEF Context, Contexts
  <1>3. /\ g \in Seq(Opened) /\ Len(g) = n /\ g[n] = Frame(kind)
        /\ \A i \in 1..n - 1 : g[i] = f[i]
    BY <1>1, AppendProperties
  <1>4. /\ su \in Seq(Contexts) /\ Len(su) = n /\ su[n] = Context(kind)
        /\ \A i \in 1..n - 1 : su[i] = st[i]
    BY <1>2, AppendProperties DEF Tree
  <1> HIDE DEF g, su
  <1>5. \A i \in 1..n : Prefix(g, i) = Prefix(f, i)
    BY <1>3, PrefixAgrees
  <1>6. ASSUME NEW i \in 1..n - 1 PROVE Level(g, E \cup {e}, K, su, i)
    <2>1. i \in 1..Len(f) /\ i < Len(g) /\ i \in 1..n
      BY <1>3
    <2>2. Level(f, E, K, st, i) /\ Fresh(f, E)
      BY <2>1 DEF Tree
    <2>3. f[i].ready
      BY <2>1, <2>2 DEF Level, Linked
    <2> QED
      BY <1>3, <1>4, <1>5, <2>1, <2>2, <2>3, LevelPassed
  <1>7. Level(g, E \cup {e}, K, su, n) /\ Fresh(g, E \cup {e})
    <2>1. /\ g[n].kind = kind /\ (g[n].ready <=> kind = "array") /\ g[n].count = 0
          /\ kind = "array" => g[n].at = ToString(0)
      BY <1>3, FrameFields
    <2>2. Prefix(g, n) = Prefix(f, n) /\ Len(g) = n /\ su[n] = Context(kind)
      BY <1>3, <1>4, <1>5
    <2>3. Fresh(f, E) /\ KeyParents(E, K)
      BY DEF Tree
    <2>4. su[n] = Context(g[n].kind) /\ e.kind = g[n].kind
      BY <2>1, <2>2
    <2>5. /\ g[n].ready <=> g[n].kind = "array"
          /\ g[n].count = 0
          /\ g[n].kind = "array" => g[n].at = ToString(0)
      BY <2>1
    <2> QED
      BY <1>3, <2>2, <2>3, <2>4, <2>5, LevelOpened
  <1>8. KeyParents(E \cup {e}, K)
    BY DEF Tree, KeyParents
  <1>9. Tree(g, E \cup {e}, K, su)
    <2>1. \A i \in 1..Len(g) : i \in 1..n - 1 \/ i = n
      BY <1>3
    <2>2. \A i \in 1..Len(g) : Level(g, E \cup {e}, K, su, i)
      BY <1>6, <1>7, <2>1
    <2> QED
      BY <1>3, <1>4, <1>7, <1>8, <2>2 DEF Tree
  <1> QED
    BY <1>3, <1>4, <1>9 DEF g, su

(* A string, a number or another scalar is read.                           *)
LEMMA TreeScalarRead ==
    ASSUME NEW f \in Seq(Opened), NEW E \in SUBSET Entry, NEW K,
           NEW st \in Seq(Contexts), NEW e \in Entry, NEW d \in Entry, NEW n \in Nat,
           NEW D, NEW V, f # <<>>, n = Len(f), f[n].ready, Tree(f, E, K, st),
           \A k \in 0..f[n].count : ToString(k) # ToString(f[n].count + 1),
           e.path = Prefix(f, n + 1), d.path = <<>>, d.kind = e.kind, d.text = e.text,
           D = {d}, V = Gathered(f, st, n, D)
    PROVE  /\ Filled(f, st, n, V) \in Seq(Contexts)
           /\ Tree(Advance(f), E \cup {e}, K, Filled(f, st, n, V))
  <1>1. V = Without(st[n].value, f[n].at) \cup Under(f[n].at, {d})
    BY DEF Gathered
  <1>2. /\ n \in 1..Len(f) /\ n + 1 \in 1..Len(f) + 1 /\ n \in 1..Len(st) /\ Len(st) = n
        /\ st[n] \in Contexts /\ f[n] \in Opened
    BY ElementOfSeq DEF Tree
  <1>3. /\ f[n].at \in Labels /\ st[n].value \in SUBSET Below
        /\ Prefix(f, n + 1) \in Paths /\ Prefix(f, n) \in Paths
    <2>1. f[n].at \in Labels /\ st[n].value \in SUBSET Below
      BY <1>2 DEF Opened, Contexts
    <2>2. Prefix(f, n + 1) \in Paths /\ Prefix(f, n) \in Paths
      BY <1>2, PrefixPath
    <2> QED
      BY <2>1, <2>2
  <1>4. Under(f[n].at, {d}) \subseteq Below
        /\ \A v \in Below : (v \in Under(f[n].at, {d})) <=> (Head(v.path) = f[n].at /\ Rest(v) = d)
    BY <1>3, UnderName
  <1>5. V \in SUBSET Below
    <2>1. Without(st[n].value, f[n].at) \subseteq Below
      BY <1>3, WithoutName
    <2> QED
      BY <1>1, <1>4, <2>1
  <1>6. \A v \in Below : (v \in V) <=> (In(f, n, v) \in E \cup {e})
    <2> TAKE v \in Below
    <2>1. v \in V <=> \/ v \in st[n].value /\ Head(v.path) # f[n].at
                      \/ Head(v.path) = f[n].at /\ Rest(v) = d
      <3>1. v \in Without(st[n].value, f[n].at) <=> (v \in st[n].value /\ Head(v.path) # f[n].at)
        BY <1>3, WithoutName
      <3>2. v \in Under(f[n].at, {d}) <=> (Head(v.path) = f[n].at /\ Rest(v) = d)
        BY <1>4
      <3> QED
        BY <1>1, <3>1, <3>2
    <2>2. v \in st[n].value <=> In(f, n, v) \in E
      BY <1>2 DEF Tree, Level, Valued
    <2>3. v \in Entry /\ Rest(v) \in Entry /\ In(f, n, v).path = Prefix(f, n) \o v.path
      <3>1. v \in Entry /\ Rest(v) \in Entry
        BY BelowIsEntry, RestOfEntry
      <3>2. n \in 1..Len(f) + 1
        BY <1>2
      <3> QED
        BY <3>1, <3>2, SamePath
    <2>4. CASE Head(v.path) = f[n].at
      <3>1. In(f, n, v) = In(f, n + 1, Rest(v))
        BY <1>2, <2>4, InsideRest
      <3>2. /\ In(f, n, v) \in Entry
            /\ In(f, n, v).path = Prefix(f, n + 1) \o Rest(v).path
            /\ In(f, n, v).kind = Rest(v).kind /\ In(f, n, v).text = Rest(v).text
        <4>1. /\ In(f, n + 1, Rest(v)) \in Entry
              /\ In(f, n + 1, Rest(v)).path = Prefix(f, n + 1) \o Rest(v).path
              /\ In(f, n + 1, Rest(v)).kind = Rest(v).kind
              /\ In(f, n + 1, Rest(v)).text = Rest(v).text
          BY ONLY <1>2, <2>3, SamePath, f \in Seq(Opened)
        <4> QED
          BY <3>1, <4>1
      <3>3. Rest(v).path \in Paths
        BY <2>3 DEF Entry
      <3>4. In(f, n, v) \notin E
        BY <3>2, <3>3 DEF Tree, Fresh
      <3>5. ASSUME In(f, n, v) = e PROVE Rest(v) = d
        <4>1. Rest(v).path = <<>>
          <5>1. Prefix(f, n + 1) \o Rest(v).path = Prefix(f, n + 1)
            BY <3>2, <3>5
          <5> QED
            BY <1>3, <3>3, <5>1, NothingAfter
        <4> QED
          BY <2>3, <3>2, <3>5, <4>1, SameEntry
      <3>6. ASSUME Rest(v) = d PROVE In(f, n, v) = e
        <4>1. In(f, n, v).path = Prefix(f, n + 1)
          BY <1>3, <3>2, <3>6, ConcatEmptySeq DEF Paths
        <4> QED
          BY <3>2, <3>6, <4>1, SameEntry
      <3> QED
        BY <2>1, <2>4, <3>4, <3>5, <3>6
    <2>5. CASE Head(v.path) # f[n].at
      <3>1. In(f, n, v) # e
        <4> SUFFICES ASSUME In(f, n, v) = e PROVE FALSE
          OBVIOUS
        <4>1. Prefix(f, n + 1) = Prefix(f, n) \o <<f[n].at>>
          BY <1>2, PrefixGrows
        <4>2. v.path \in Paths /\ <<f[n].at>> \in Paths /\ Head(<<f[n].at>>) = f[n].at
          BY <1>3, <2>3 DEF Entry, Paths
        <4>3. v.path = <<f[n].at>>
          <5>1. Prefix(f, n) \o v.path = Prefix(f, n) \o <<f[n].at>>
            BY <2>3, <4>1
          <5> QED
            BY ONLY <1>3, <4>2, <5>1, OneAfter
        <4> QED
          BY <2>5, <4>2, <4>3
      <3> QED
        BY <2>1, <2>2, <2>5, <3>1
    <2> QED
      BY <2>4, <2>5
  <1>7. ASSUME NEW i \in 1..n
        PROVE  /\ i < n => Level(f, E \cup {e}, K, st, i)
               /\ Own(f, E \cup {e}, i) /\ Named(f, E \cup {e}, st, i) /\ Keyed(f, K, st, i)
    <2> DEFINE g == Append(f, f[n])
    <2>1. /\ g \in Seq(Opened) /\ Len(g) = n + 1 /\ \A j \in 1..n : g[j] = f[j]
      BY <1>2, AppendProperties
    <2> HIDE DEF g
    <2>2. Prefix(g, i) = Prefix(f, i)
      BY <2>1, PrefixAgrees
    <2>3. i \in 1..Len(f) /\ i < Len(g) /\ Level(f, E, K, st, i) /\ Fresh(f, E) /\ g[i] = f[i]
      BY <2>1 DEF Tree
    <2>4. f[i].ready
      BY <2>3 DEF Level, Linked
    <2>5. Level(g, E \cup {e}, K, st, i)
      BY <2>2, <2>3, <2>4, LevelPassed
    <2>6. Own(f, E \cup {e}, i) /\ Named(f, E \cup {e}, st, i) /\ Keyed(f, K, st, i)
      BY <2>2, <2>3, <2>5 DEF Level, Own, Named, Keyed
    <2>7. ASSUME i < n PROVE Level(f, E \cup {e}, K, st, i)
      BY <2>3, <2>4, <2>7, LevelPassed
    <2> QED
      BY <2>6, <2>7
  <1>8. E \cup {e} \in SUBSET Entry /\ KeyParents(E \cup {e}, K) /\ Linked(f, st, n)
    <2>1. KeyParents(E, K) /\ Level(f, E, K, st, n)
      BY <1>2 DEF Tree
    <2>2. KeyParents(E \cup {e}, K)
      BY <2>1 DEF KeyParents
    <2>3. Linked(f, st, n)
      BY <2>1 DEF Level
    <2> QED
      BY <2>2, <2>3
  <1>9. ASSUME NEW i \in 1..n - 1 PROVE Level(f, E \cup {e}, K, st, i)
    <2>1. i \in 1..n /\ i < n
      OBVIOUS
    <2> QED
      BY <1>7, <2>1
  <1>10. Own(f, E \cup {e}, n) /\ Named(f, E \cup {e}, st, n) /\ Keyed(f, K, st, n)
    BY <1>2, <1>7
  <1> QED
    BY <1>2, <1>5, <1>6, <1>8, <1>9, <1>10, TreeFilled

(* The stack once the n-th context awaits the value of x.                  *)
AwaitingName(st, n, x) ==
  [st EXCEPT ![n] = [st[n] EXCEPT !.members = @ \cup {x}, !.pending = <<x>>]]

(* The name of a member is read.                                           *)
LEMMA TreeNamed ==
    ASSUME NEW f \in Seq(Opened), NEW g \in Seq(Opened), NEW E \in SUBSET Entry,
           NEW K \in SUBSET Paths, NEW st \in Seq(Contexts), NEW n \in Nat, NEW x \in Labels,
           f # <<>>, n = Len(f), f[n].kind = "object", ~f[n].ready, Tree(f, E, K, st),
           x \notin st[n].members,
           Len(g) = n, \A i \in 1..n - 1 : g[i] = f[i],
           g[n] = [f[n] EXCEPT !.ready = TRUE, !.at = x]
    PROVE  /\ AwaitingName(st, n, x) \in Seq(Contexts)
           /\ Tree(g, E, K \cup {Prefix(f, n) \o <<x>>}, AwaitingName(st, n, x))
  <1> DEFINE c == [st[n] EXCEPT !.members = @ \cup {x}, !.pending = <<x>>]
             su == [st EXCEPT ![n] = c]
             k == Prefix(f, n) \o <<x>>
  <1>1. /\ n \in 1..Len(f) /\ n \in 1..Len(f) + 1 /\ n \in 1..Len(st) /\ Len(st) = n
        /\ st[n] \in Contexts /\ f[n] \in Opened /\ Level(f, E, K, st, n)
    BY ElementOfSeq DEF Tree
  <1>2. /\ c \in Contexts /\ c.kind = st[n].kind /\ c.items = st[n].items
        /\ c.value = st[n].value /\ c.members = st[n].members \cup {x} /\ c.pending = <<x>>
    <2>1. <<x>> \in Paths
      BY DEF Paths
    <2> QED
      BY <1>1, <2>1 DEF Contexts
  <1> HIDE DEF c
  <1>3. /\ su \in Seq(Contexts) /\ Len(su) = n /\ su[n] = c
        /\ \A i \in 1..n - 1 : su[i] = st[i]
    BY <1>1, <1>2, ExceptSeq
  <1> HIDE DEF su
  <1>4. ASSUME NEW i \in 1..n PROVE Prefix(g, i) = Prefix(f, i) /\ Prefix(f, i) \in Paths
                                    /\ Len(Prefix(f, i)) = i - 1
    <2>1. i \in 1..Len(f) + 1 /\ i \in Nat /\ \A j \in 1..i - 1 : f[j].at = g[j].at
      OBVIOUS
    <2> QED
      BY <2>1, PrefixPath, PrefixAgrees
  <1>5. g[n].kind = "object" /\ g[n].ready /\ g[n].at = x /\ g[n].count = f[n].count
    BY <1>1 DEF Opened
  <1>6. k \in Paths /\ Len(k) = n
    <2> DEFINE p == Prefix(f, n)
    <2>1. p \in Seq(Labels) /\ Len(p) = n - 1
      BY <1>1, <1>4 DEF Paths
    <2> HIDE DEF p
    <2>2. p \o <<x>> \in Seq(Labels) /\ Len(p \o <<x>>) = Len(p) + 1
      BY <2>1
    <2> QED
      BY <2>1, <2>2 DEF p, Paths
  <1>7. ASSUME NEW i \in 1..n - 1 PROVE Level(g, E, K \cup {k}, su, i)
    <2>1. i \in 1..n /\ i \in 1..Len(f) /\ i \in Nat /\ i < n /\ i < Len(g) /\ i < Len(f)
      OBVIOUS
    <2>2. Level(f, E, K, st, i) /\ g[i] = f[i] /\ su[i] = st[i] /\ Prefix(g, i) = Prefix(f, i)
      BY <1>3, <1>4, <2>1 DEF Tree
    <2>3. Level(g, E, K, su, i)
      BY <2>1, <2>2, LevelKept
    <2>4. \A y \in Labels : Prefix(g, i) \o <<y>> # k
      <3> SUFFICES ASSUME NEW y \in Labels, Prefix(g, i) \o <<y>> = k PROVE FALSE
        OBVIOUS
      <3> DEFINE p == Prefix(f, i)
      <3>1. p \in Seq(Labels) /\ Len(p) = i - 1 /\ p \o <<y>> = k
        BY <1>4, <2>1, <2>2 DEF Paths
      <3> HIDE DEF p, k
      <3>2. Len(p \o <<y>>) = Len(p) + 1
        BY <3>1
      <3> QED
        BY <1>6, <2>1, <3>1, <3>2
    <2>5. Keyed(g, K \cup {k}, su, i)
      <3> HIDE DEF k
      <3> QED
        BY <2>3, <2>4 DEF Level, Keyed
    <2> QED
      BY <2>3, <2>5 DEF Level
  <1>8. Level(g, E, K \cup {k}, su, n)
    <2>1. Linked(g, su, n)
      BY <1>1, <1>2, <1>3, <1>5 DEF Level, Linked
    <2>2. Own(g, E, n)
      BY <1>1, <1>4, <1>5 DEF Level, Own
    <2>3. Named(g, E, su, n)
      <3> SUFFICES ASSUME NEW q \in Tails, NEW e \in E, e.path = Prefix(g, n) \o q
                   PROVE  Head(q) \in su[n].members
        BY <1>5 DEF Named
      <3>1. e.path = Prefix(f, n) \o q
        BY <1>1, <1>4
      <3>2. Head(q) \in st[n].members
        BY <1>1, <3>1 DEF Level, Named
      <3> QED
        BY <1>2, <1>3, <3>2
    <2>4. Keyed(g, K \cup {k}, su, n)
      <3> SUFFICES ASSUME NEW y \in Labels
                   PROVE  (Prefix(g, n) \o <<y>> \in K \cup {k}) <=> (y \in su[n].members)
        BY DEF Keyed
      <3>1. (Prefix(g, n) \o <<y>> \in K) <=> (y \in st[n].members)
        BY <1>1, <1>4 DEF Level, Keyed
      <3>2. (Prefix(g, n) \o <<y>> = k) <=> (y = x)
        <4>1. CASE y = x
          BY <1>1, <1>4, <4>1
        <4>2. ASSUME Prefix(g, n) \o <<y>> = k PROVE y = x
          <5>1. Prefix(f, n) \in Paths /\ <<y>> \in Paths /\ Prefix(f, n) \o <<y>> = Prefix(f, n) \o <<x>>
            BY <1>1, <1>4, <4>2 DEF Paths
          <5>2. <<y>> = <<x>>
            BY ONLY <5>1, OneAfter, x \in Labels
          <5> QED
            BY <5>2
        <4> QED
          BY <4>1, <4>2
      <3> HIDE DEF k
      <3> QED
        BY <1>2, <1>3, <3>1, <3>2
    <2>5. Valued(g, E, su, n)
      <3>1. \A v : In(g, n, v) = In(f, n, v)
        BY <1>1, <1>4 DEF In
      <3> QED
        BY <1>1, <1>2, <1>3, <3>1 DEF Level, Valued
    <2> QED
      BY <2>1, <2>2, <2>3, <2>4, <2>5 DEF Level
  <1>9. Fresh(g, E)
    <2> SUFFICES ASSUME NEW q \in Paths, NEW e \in E, e.path = Prefix(g, n + 1) \o q PROVE FALSE
      BY DEF Fresh
    <2>1. Prefix(f, n) \in Paths /\ Prefix(g, n + 1) = Prefix(f, n) \o <<x>>
      <3>1. n \in 1..Len(g) /\ n \in 1..n
        BY <1>1
      <3>2. Prefix(g, n + 1) = Prefix(g, n) \o <<g[n].at>>
        BY <3>1, PrefixGrows
      <3> QED
        BY <1>4, <1>5, <3>1, <3>2
    <2>2. <<x>> \o q \in Tails /\ Head(<<x>> \o q) = x
          /\ Prefix(g, n + 1) \o q = Prefix(f, n) \o (<<x>> \o q)
      BY ONLY <2>1, Singletons, ThroughName, q \in Paths, x \in Labels
    <2> QED
      BY <1>1, <2>2 DEF Level, Named
  <1>10. KeyParents(E, K \cup {k})
    <2> SUFFICES ASSUME NEW p \in Paths, NEW y \in Labels, p \o <<y>> = k
                 PROVE  \E e \in E : e.path = p
      BY DEF Tree, KeyParents
    <2>1. Prefix(f, n) \in Paths /\ p \o <<y>> = Prefix(f, n) \o <<x>>
      BY <1>1, <1>4
    <2>2. Append(p, y) = Append(Prefix(f, n), x)
      BY ONLY <2>1, AppendIsConcat, p \in Paths, y \in Labels, x \in Labels DEF Paths
    <2>3. p = Prefix(f, n)
      BY ONLY <2>1, <2>2, AppendInjective, p \in Paths, y \in Labels, x \in Labels DEF Paths
    <2> QED
      BY <1>1, <2>3 DEF Level, Own
  <1>11. Tree(g, E, K \cup {k}, su)
    <2> HIDE DEF k
    <2>1. \A i \in 1..Len(g) : i \in 1..n - 1 \/ i = n
      OBVIOUS
    <2>2. \A i \in 1..Len(g) : Level(g, E, K \cup {k}, su, i)
      BY <1>7, <1>8, <2>1
    <2> QED
      BY <1>3, <1>9, <1>10, <2>2 DEF Tree
  <1> QED
    BY <1>3, <1>11 DEF su, c, AwaitingName

(* What the container of the context c is when it ends.                    *)
Whole(c) == c.value \cup {[path |-> <<>>, kind |-> c.kind, text |-> NoText]}

(* An inner container ends: the value built for it goes to its name.       *)
LEMMA TreeEnded ==
    ASSUME NEW f \in Seq(Opened), NEW E \in SUBSET Entry, NEW K,
           NEW st \in Seq(Contexts), NEW m \in Nat \ {0},
           Len(f) = m + 1, Tree(f, E, K, st),
           f[m + 1].kind = "object" => ~f[m + 1].ready,
           \A k \in 0..f[m].count : ToString(k) # ToString(f[m].count + 1)
    PROVE  LET g == SubSeq(f, 1, m)
               su == SubSeq(st, 1, m)
               V == Gathered(g, su, m, Whole(st[m + 1])) IN
           /\ Filled(g, su, m, V) \in Seq(Contexts)
           /\ Tree(Advance(g), E, K, Filled(g, su, m, V))
  <1> DEFINE g == SubSeq(f, 1, m)
             su == SubSeq(st, 1, m)
             V == Gathered(g, su, m, Whole(st[m + 1]))
  <1>1. /\ g \in Seq(Opened) /\ Len(g) = m /\ \A i \in 1..m : g[i] = f[i]
        /\ su \in Seq(Contexts) /\ Len(su) = m /\ \A i \in 1..m : su[i] = st[i]
    <2>1. Len(st) = m + 1 /\ st # <<>> /\ f # <<>> /\ m + 1 - 1 = m
      BY DEF Tree
    <2> QED
      BY <2>1, FrontOfSeq
  <1>2. V = Gathered(g, su, m, Whole(st[m + 1]))
    OBVIOUS
  <1> HIDE DEF g, su, V
  <1>3. /\ m \in Nat /\ m + 1 \in Nat /\ m \in 1..Len(f) /\ m + 1 \in 1..Len(f)
        /\ m \in 1..Len(g) /\ m < Len(f) /\ g # <<>>
    BY <1>1
  <1>4. /\ Len(st) = m + 1 /\ st[m] \in Contexts /\ st[m + 1] \in Contexts
        /\ f[m] \in Opened /\ f[m + 1] \in Opened
        /\ Level(f, E, K, st, m) /\ Level(f, E, K, st, m + 1)
    <2>1. Len(st) = m + 1 /\ Level(f, E, K, st, m) /\ Level(f, E, K, st, m + 1)
      BY <1>3 DEF Tree
    <2> QED
      BY <1>3, <2>1, ElementOfSeq
  <1> DEFINE d == [path |-> <<>>, kind |-> f[m + 1].kind, text |-> NoText]
  <1>5. /\ d \in Entry /\ d.path = <<>> /\ d.kind = f[m + 1].kind /\ d.text = NoText
        /\ Whole(st[m + 1]) = st[m + 1].value \cup {d}
    BY <1>4 DEF Opened, Entry, Kinds, Strings, Paths, Whole, Level, Linked
  <1> HIDE DEF d
  <1>6. /\ f[m].at \in Labels /\ st[m].value \in SUBSET Below
        /\ st[m + 1].value \in SUBSET Below /\ st[m + 1].value \cup {d} \in SUBSET Entry
    BY <1>4, <1>5, BelowIsEntry DEF Opened, Contexts
  <1>7. ASSUME NEW i \in 1..m PROVE Prefix(g, i) = Prefix(f, i)
    <2>1. i \in Nat /\ \A j \in 1..i - 1 : f[j].at = g[j].at
      BY <1>1
    <2> QED
      BY <2>1, PrefixAgrees
  <1>8. ASSUME NEW i \in 1..m - 1 PROVE Level(g, E, K, su, i)
    <2>1. i \in Nat /\ i \in 1..m /\ i \in 1..Len(f) /\ i < Len(f) /\ i < Len(g)
      BY <1>1
    <2>2. Level(f, E, K, st, i) /\ g[i] = f[i] /\ su[i] = st[i] /\ Prefix(g, i) = Prefix(f, i)
      BY <1>7, <1>1, <2>1 DEF Tree
    <2> QED
      BY <2>1, <2>2, LevelKept
  <1>9. /\ g[m] = f[m] /\ su[m] = st[m] /\ Prefix(g, m) = Prefix(f, m)
    BY <1>3, <1>7, <1>1
  <1>10. /\ Linked(g, su, m) /\ Own(g, E, m) /\ Named(g, E, su, m) /\ Keyed(g, K, su, m)
        /\ g[m].ready
    <2>1. Linked(g, su, m) /\ g[m].ready
      BY <1>3, <1>4, <1>9 DEF Level, Linked
    <2>2. Own(g, E, m)
      BY <1>4, <1>9 DEF Level, Own
    <2>3. Named(g, E, su, m)
      BY <1>4, <1>9 DEF Level, Named
    <2>4. Keyed(g, K, su, m)
      BY <1>4, <1>9 DEF Level, Keyed
    <2> QED
      BY <2>1, <2>2, <2>3, <2>4
  <1>11. /\ V \in SUBSET Below
        /\ \A v \in Below : (v \in V) <=>
             \/ v \in st[m].value /\ Head(v.path) # f[m].at
             \/ Head(v.path) = f[m].at /\ Rest(v) \in st[m + 1].value \cup {d}
    <2>1. /\ Without(st[m].value, f[m].at) \subseteq Below
          /\ \A v \in Below : (v \in Without(st[m].value, f[m].at))
                                <=> (v \in st[m].value /\ Head(v.path) # f[m].at)
      BY <1>6, WithoutName
    <2>2. /\ Under(f[m].at, st[m + 1].value \cup {d}) \subseteq Below
          /\ \A v \in Below : (v \in Under(f[m].at, st[m + 1].value \cup {d}))
                                <=> (Head(v.path) = f[m].at /\ Rest(v) \in st[m + 1].value \cup {d})
      BY <1>6, UnderName
    <2>3. V = Without(st[m].value, f[m].at) \cup Under(f[m].at, st[m + 1].value \cup {d})
      BY <1>9, <1>5, <1>2 DEF Gathered
    <2> QED
      BY <2>1, <2>2, <2>3
  <1>12. ASSUME NEW v \in Below PROVE (v \in V) <=> (In(g, m, v) \in E)
    <2>1. In(g, m, v) = In(f, m, v)
      BY <1>9 DEF In
    <2>2. v \in st[m].value <=> (In(f, m, v) \in E /\ Head(v.path) # f[m].at)
      BY <1>3, <1>4 DEF Level, Valued
    <2>3. ASSUME Head(v.path) = f[m].at
          PROVE  (Rest(v) \in st[m + 1].value \cup {d}) <=> (In(f, m, v) \in E)
      <3>1. In(f, m, v) = In(f, m + 1, Rest(v))
        BY <1>3, <2>3, InsideRest
      <3>2. /\ Rest(v) \in Entry /\ Rest(v).path = Tail(v.path) /\ Tail(v.path) \in Paths
            /\ m + 1 \in 1..Len(f) + 1
        <4>1. m + 1 \in 1..Len(f) + 1
          BY <1>3
        <4> QED
          BY <4>1, RestOfEntry
      <3>3. CASE Rest(v).path = <<>>
        <4>1. Rest(v) \notin st[m + 1].value
          BY <1>6, <3>3 DEF Below, Tails
        <4>2. /\ In(f, m, v) \in Entry /\ In(f, m, v).path = Prefix(f, m + 1) \o Rest(v).path
              /\ In(f, m, v).kind = Rest(v).kind /\ In(f, m, v).text = Rest(v).text
          <5>1. /\ In(f, m + 1, Rest(v)) \in Entry
                /\ In(f, m + 1, Rest(v)).path = Prefix(f, m + 1) \o Rest(v).path
                /\ In(f, m + 1, Rest(v)).kind = Rest(v).kind
                /\ In(f, m + 1, Rest(v)).text = Rest(v).text
            BY ONLY <3>2, SamePath, f \in Seq(Opened)
          <5> QED
            BY <3>1, <5>1
        <4>3. In(f, m, v).path = Prefix(f, m + 1)
          BY <3>2, <3>3, <4>2, PrefixPath, ConcatEmptySeq DEF Paths
        <4>4. In(f, m, v) \in E => Rest(v) = d
          BY <1>4, <1>5, <3>2, <3>3, <4>2, <4>3, SameEntry DEF Level, Own
        <4>5. ASSUME Rest(v) = d PROVE In(f, m, v) \in E
          <5>1. PICK own \in E : own = [path |-> Prefix(f, m + 1), kind |-> f[m + 1].kind, text |-> NoText]
            BY <1>4 DEF Level, Own
          <5>2. In(f, m, v) = own
            BY <1>5, <4>2, <4>3, <4>5, <5>1, SameEntry
          <5> QED
            BY <5>2
        <4> QED
          BY <4>1, <4>4, <4>5
      <3>4. CASE Rest(v).path # <<>>
        <4>1. Rest(v) \in Below /\ Rest(v) # d
          BY <1>5, <3>2, <3>4 DEF Entry, Below, Tails
        <4>2. Rest(v) \in st[m + 1].value <=> In(f, m + 1, Rest(v)) \in E
          BY <1>3, <1>4, <4>1 DEF Level, Valued
        <4> QED
          BY <3>1, <4>1, <4>2
      <3> QED
        BY <3>3, <3>4
    <2> QED
      BY <1>11, <2>1, <2>2, <2>3
  <1>13. KeyParents(E, K)
    BY DEF Tree
  <1>14. \A k \in 0..g[m].count : ToString(k) # ToString(g[m].count + 1)
    BY <1>9
  <1> QED
    BY <1>3, <1>8, <1>10, <1>11, <1>12, <1>13, <1>14, <1>1, TreeFilled DEF g, su, V

-----------------------------------------------------------------------------
(* The handler's callbacks.                                                *)

Handlings == [stack : Seq(Contexts), members : Nat, values : Nat, keys : Nat,
              have : {{}}, current : {[m \in JwkMembers |-> NoText]}, parsed : {<<>>},
              failure : {"none"}, live : {TRUE}, complete : BOOLEAN, root : SUBSET Entry]

LEMMA BoundsAreNumbers ==
    ASSUME handler \in Trees
    PROVE  /\ MaxDepth[handler] \in Nat \ {0} /\ MaxMembers[handler] \in Nat \ {0}
           /\ MaxValues[handler] \in Nat \ {0}
  BY BoundsArePositive DEF Trees, Handlers

LEMMA Refuses ==
    ASSUME NEW s \in Handlings, handler \in Trees
    PROVE  /\ ~Fail(s, Malformed).live /\ Kind(Fail(s, Malformed)) = Malformed
           /\ ~Fail(s, Limit).live /\ Kind(Fail(s, Limit)) = Limit
           /\ ~Silent(s).live /\ Kind(Silent(s)) = Malformed
  BY DEF Handlings, Fail, Silent, Kind, Default, Malformed, Limit, Trees

LEMMA Counted ==
    ASSUME handler \in Trees, NEW s \in Handlings
    PROVE  LET t == [s EXCEPT !.values = @ + 1] IN
           /\ t \in Handlings
           /\ s.values + 1 <= MaxValues[handler] => CountValue(s) = t
           /\ ~(s.values + 1 <= MaxValues[handler]) =>
                ~CountValue(s).live /\ Kind(CountValue(s)) = Limit
  <1> DEFINE t == [s EXCEPT !.values = @ + 1]
  <1>1. t \in Handlings /\ t.values = s.values + 1
    <2>1. s.values + 1 \in Nat
      BY DEF Handlings
    <2> QED
      BY <2>1 DEF Handlings
  <1>2. CountValue(s) = Require(t.values <= MaxValues[handler], t, Limit)
    BY DEF CountValue
  <1> HIDE DEF t
  <1>3. CASE s.values + 1 <= MaxValues[handler]
    BY <1>1, <1>2, <1>3 DEF Require, t
  <1>4. CASE ~(s.values + 1 <= MaxValues[handler])
    <2>1. CountValue(s) = Fail(t, Limit)
      BY <1>1, <1>2, <1>4 DEF Require
    <2> QED
      BY <1>1, <1>4, <2>1, Refuses DEF t
  <1> QED
    BY <1>3, <1>4

(* Attach, in a context that awaits a value.                               *)
LEMMA Attaches ==
    ASSUME NEW s \in Handlings, NEW f \in Seq(Opened), NEW n \in Nat, NEW V,
           f # <<>>, n = Len(f), Len(s.stack) = n, f[n].ready, Linked(f, s.stack, n)
    PROVE  Attach(s, V) = [s EXCEPT !.stack = Filled(f, s.stack, n, Gathered(f, s.stack, n, V))]
  <1> DEFINE top == s.stack[n]
             W == Without(s.stack[n].value, f[n].at) \cup Under(f[n].at, V)
             su == [s.stack EXCEPT ![n] = [s.stack[n] EXCEPT !.value = W, !.pending = <<>>,
                       !.items = IF f[n].kind = "object" THEN @ ELSE @ + 1]]
  <1>1. /\ n \in 1..Len(f) /\ n \in 1..Len(s.stack) /\ f[n] \in Opened
        /\ s.stack \in Seq(Contexts) /\ s.stack[n] \in Contexts
    BY ElementOfSeq DEF Handlings
  <1>2. f[n].kind \in {"object", "array"} /\ top.kind = f[n].kind
    BY <1>1 DEF Opened, Linked
  <1>3. ASSUME f[n].kind = "array" PROVE Attach(s, V) = [s EXCEPT !.stack = su]
    <2>1. top.pending = <<>> /\ ToString(top.items) = f[n].at
      BY <1>2, <1>3 DEF Linked
    <2>2. Attach(s, V) = SetTop(s, [top EXCEPT !.value = W, !.items = @ + 1])
      BY <1>2, <1>3, <2>1 DEF Attach, Top, Last
    <2>3. [top EXCEPT !.value = W, !.items = @ + 1]
            = [top EXCEPT !.value = W, !.pending = <<>>, !.items = @ + 1]
      BY <1>1, <2>1 DEF Contexts
    <2> HIDE DEF W
    <2> QED
      BY <1>3, <2>2, <2>3 DEF SetTop, Handlings, W
  <1>4. ASSUME f[n].kind = "object" PROVE Attach(s, V) = [s EXCEPT !.stack = su]
    <2>1. top.pending = <<f[n].at>> /\ top.pending # <<>> /\ Head(top.pending) = f[n].at
      BY <1>1, <1>2, <1>4 DEF Linked
    <2>2. Attach(s, V) = SetTop(s, [top EXCEPT !.value = W, !.pending = <<>>])
      BY <1>2, <1>4, <2>1 DEF Attach, Top, Last
    <2>3. [top EXCEPT !.value = W, !.pending = <<>>]
            = [top EXCEPT !.value = W, !.pending = <<>>, !.items = @]
      BY <1>1 DEF Contexts
    <2> HIDE DEF W
    <2> QED
      BY <1>4, <2>2, <2>3 DEF SetTop, Handlings, W
  <1>5. Attach(s, V) = [s EXCEPT !.stack = su]
    BY <1>2, <1>3, <1>4
  <1>6. su = Filled(f, s.stack, n, Gathered(f, s.stack, n, V))
    BY DEF Filled, Gathered
  <1> HIDE DEF su
  <1> QED
    BY <1>5, <1>6

(* start_object and start_array.                                           *)
LEMMA StartCalled ==
    ASSUME handler \in Trees, NEW s \in Handlings, NEW kind \in {"object", "array"},
           s.stack # <<>> => ParentReady(s),
           s.stack = <<>> => s.values + 1 <= MaxValues[handler]
    PROVE  LET t == TreeStart(s, kind) IN
           /\ s.stack = <<>> /\ kind = "array" => ~t.live /\ Kind(t) = Malformed
           /\ s.stack # <<>> /\ ~(s.values + 1 <= MaxValues[handler]) => ~t.live /\ Kind(t) = Limit
           /\ s.stack # <<>> /\ s.values + 1 <= MaxValues[handler] /\ TooDeep(s) =>
                ~t.live /\ Kind(t) = IF handler = "object" THEN Malformed ELSE Limit
           /\ s.values + 1 <= MaxValues[handler] /\ (s.stack # <<>> => ~TooDeep(s))
              /\ (s.stack = <<>> => kind = "object") =>
                /\ t = [s EXCEPT !.values = @ + 1, !.stack = Append(@, Context(kind))]
                /\ t.live
  <1> DEFINE u == [s EXCEPT !.values = @ + 1]
  <1>1. /\ u \in Handlings /\ u.live /\ u.stack = s.stack
        /\ s.values + 1 <= MaxValues[handler] => CountValue(s) = u
        /\ ~(s.values + 1 <= MaxValues[handler]) =>
             ~CountValue(s).live /\ Kind(CountValue(s)) = Limit
    BY Counted DEF Handlings
  <1>2. Push(u, kind) = [s EXCEPT !.values = @ + 1, !.stack = Append(@, Context(kind))]
        /\ Push(u, kind).live
    BY DEF Push, Handlings
  <1>3. /\ TooDeep(u) <=> TooDeep(s)
        /\ ParentReady(u) <=> ParentReady(s)
    BY <1>1 DEF TooDeep, ParentReady, Top
  <1> HIDE DEF u
  <1>4. CASE s.stack = <<>>
    BY <1>1, <1>2, <1>4, Refuses DEF TreeStart, Then
  <1>5. CASE s.stack # <<>> /\ ~(s.values + 1 <= MaxValues[handler])
    BY <1>1, <1>5 DEF TreeStart, Then
  <1>6. CASE s.stack # <<>> /\ s.values + 1 <= MaxValues[handler] /\ TooDeep(s)
    BY <1>1, <1>3, <1>6, Refuses DEF TreeStart, Then, DepthFailure
  <1>7. CASE s.stack # <<>> /\ s.values + 1 <= MaxValues[handler] /\ ~TooDeep(s)
    BY <1>1, <1>2, <1>3, <1>7 DEF TreeStart, Then
  <1> QED
    BY <1>4, <1>5, <1>6, <1>7

(* string and the other scalars.                                           *)
LEMMA ScalarCalled ==
    ASSUME handler \in Trees, NEW s \in Handlings, NEW kind, NEW text
    PROVE  LET t == TreeScalar(s, kind, text)
               u == [s EXCEPT !.values = @ + 1] IN
           /\ ~(s.values + 1 <= MaxValues[handler]) => ~t.live /\ Kind(t) = Limit
           /\ s.values + 1 <= MaxValues[handler] /\ s.stack = <<>> => ~t.live /\ Kind(t) = Malformed
           /\ s.values + 1 <= MaxValues[handler] /\ s.stack # <<>> =>
                u \in Handlings /\ t = Attach(u, {[path |-> <<>>, kind |-> kind, text |-> text]})
  <1> DEFINE u == [s EXCEPT !.values = @ + 1]
  <1>1. /\ u \in Handlings /\ u.live /\ u.stack = s.stack
        /\ s.values + 1 <= MaxValues[handler] => CountValue(s) = u
        /\ ~(s.values + 1 <= MaxValues[handler]) =>
             ~CountValue(s).live /\ Kind(CountValue(s)) = Limit
    BY Counted DEF Handlings
  <1> HIDE DEF u
  <1>2. CASE ~(s.values + 1 <= MaxValues[handler])
    BY <1>1, <1>2 DEF TreeScalar, Then
  <1>3. CASE s.values + 1 <= MaxValues[handler] /\ s.stack = <<>>
    BY <1>1, <1>3, Refuses DEF TreeScalar, Then
  <1>4. CASE s.values + 1 <= MaxValues[handler] /\ s.stack # <<>>
    BY <1>1, <1>4 DEF TreeScalar, Then, u
  <1> QED
    BY <1>2, <1>3, <1>4

(* key.                                                                    *)
LEMMA KeyCalled ==
    ASSUME handler \in Trees, NEW s \in Handlings, NEW name,
           InKind(s, "object")
    PROVE  LET t == TreeKey(s, name)
               fits == s.members + 1 <= MaxMembers[handler] /\ name \notin LongNames IN
           /\ ~fits => ~t.live /\ Kind(t) = Limit
           /\ fits /\ name \in Top(s).members => ~t.live /\ Kind(t) = Malformed
           /\ fits /\ name \notin Top(s).members =>
                /\ t = [s EXCEPT !.members = @ + 1,
                                 !.stack = AwaitingName(s.stack, Len(s.stack), name)]
                /\ t.live
  <1> DEFINE u == [s EXCEPT !.members = @ + 1]
             fits == s.members + 1 <= MaxMembers[handler] /\ name \notin LongNames
  <1>1. u \in Handlings /\ u.live /\ Top(u) = Top(s) /\ u.members = s.members + 1
    <2>1. s.members + 1 \in Nat
      BY DEF Handlings
    <2> QED
      BY <2>1 DEF Handlings, Top
  <1>2. CountMember(s, name, TRUE) = Require(fits, u, Limit)
    BY <1>1 DEF CountMember
  <1> HIDE DEF u, fits
  <1>3. CASE ~fits
    <2>1. CountMember(s, name, TRUE) = Fail(u, Limit)
      BY <1>2, <1>3 DEF Require
    <2> QED
      BY <1>1, <1>3, <2>1, Refuses DEF TreeKey, Then, fits
  <1>4. CASE fits
    <2>1. CountMember(s, name, TRUE) = u
      BY <1>2, <1>4 DEF Require
    <2>2. TreeKey(s, name) = InsertMember(u, name, Malformed)
      BY <1>1, <2>1 DEF TreeKey, Then
    <2>3. CASE name \in Top(s).members
      BY <1>1, <1>4, <2>2, <2>3, Refuses DEF InsertMember, fits
    <2>4. CASE name \notin Top(s).members
      <3>1. TreeKey(s, name) = SetTop(u, [Top(s) EXCEPT !.members = @ \cup {name},
                                                        !.pending = <<name>>])
        BY <1>1, <2>2, <2>4 DEF InsertMember
      <3>2. SetTop(u, [Top(s) EXCEPT !.members = @ \cup {name}, !.pending = <<name>>])
              = [u EXCEPT !.stack = AwaitingName(s.stack, Len(s.stack), name)]
        BY <1>1 DEF SetTop, Handlings, AwaitingName, Top, Last, u
      <3>3. [u EXCEPT !.stack = AwaitingName(s.stack, Len(s.stack), name)].live
        BY <1>1 DEF Handlings
      <3> QED
        BY <1>4, <2>4, <3>1, <3>2, <3>3 DEF u, fits
    <2> QED
      BY <2>3, <2>4
  <1> QED
    BY <1>3, <1>4

-----------------------------------------------------------------------------
(* A tree reader while it reads: its counters are those of the document,   *)
(* nothing that was read is against its rules, and its result is whole     *)
(* exactly once the root has ended.  An array's next index never exceeds   *)
(* the number of values read, so that indexes differ.                      *)

Documents == [keys : Seq(Paths), seen : Seq(Entry), closed : SUBSET Paths,
              garbage : {FALSE}, large : {FALSE}]
Counting ==
  /\ sax.members = Len(doc.keys) /\ sax.members <= MaxMembers[handler]
  /\ sax.values = Len(doc.seen) /\ sax.values <= MaxValues[handler]
  /\ Len(open) <= MaxDepth[handler]
  /\ \A i \in 1..Len(open) : open[i].count + (Len(open) - i) + 1 <= Len(doc.seen)
Clean ==
  /\ IsInjective(doc.keys)
  /\ \A i \in 1..Len(doc.keys) : Last(doc.keys[i]) \notin LongNames
  /\ \A i \in Containers : Len(doc.seen[i].path) < MaxDepth[handler]
  /\ \A e \in Range(doc.seen) : e.path = <<>> => e.kind = "object"
Rooting ==
  /\ Inside => Rooted /\ ~sax.complete
  /\ Rooted /\ ~Inside => sax.complete /\ sax.root = Range(doc.seen) /\ <<>> \in doc.closed
  /\ ~Rooted => ~sax.complete /\ doc.keys = <<>>
Reading ==
  /\ open \in Seq(Opened) /\ sax \in Handlings /\ doc \in Documents
  /\ Tree(open, Range(doc.seen), Range(doc.keys), sax.stack)
  /\ Counting /\ Clean /\ Rooting

(* What holds of a verdict, and the ways in which a refusal comes by it.   *)
Decided == AcceptsExactly /\ ResultIsDocument /\ LimitsAreReported
TooDeepRead == \E i \in Containers : Len(doc.seen[i].path) >= MaxDepth[handler]
Refusal ==
  /\ handler \in Trees
  /\ \/ verdict = Limit /\ ~WithinBounds
     \/ verdict = Malformed /\ WithinBounds /\ ~May
     \/ verdict = Malformed /\ handler = "object" /\ TooDeepRead
     \/ verdict \in {Limit, Malformed} /\ doc.garbage

LEMMA RefusalDecides == Refusal => Decided
  <1> SUFFICES ASSUME Refusal PROVE Decided
    OBVIOUS
  <1>1. verdict \in {Limit, Malformed} /\ verdict \notin {"parsing", "accepted"}
    BY DEF Refusal, Limit, Malformed
  <1>2. handler = "object" /\ TooDeepRead => ~WithinBounds
    <2> SUFFICES ASSUME handler = "object", WithinBounds, NEW i \in Containers,
                        Len(doc.seen[i].path) >= MaxDepth[handler]
                 PROVE  FALSE
      BY DEF TooDeepRead
    <2>1. Len(doc.seen[i].path) < MaxDepth[handler]
      BY DEF WithinBounds
    <2>2. handler \in Trees
      BY DEF Refusal
    <2> QED
      BY <2>1, <2>2, BoundsAreNumbers
  <1>3. ~May
    BY <1>2 DEF Refusal, May
  <1>4. LimitsAreReported
    BY <1>1, <1>2 DEF Refusal, LimitsAreReported, Limit, Malformed, TooDeepRead
  <1> QED
    BY <1>1, <1>3, <1>4 DEF Decided, AcceptsExactly, ResultIsDocument

LEMMA RangeOfAppend ==
    ASSUME NEW S, NEW s \in Seq(S), NEW x \in S
    PROVE  Range(Append(s, x)) = Range(s) \cup {x}
  <1>1. Append(s, x) \in Seq(S)
    BY AppendProperties
  <1>2. /\ Len(Append(s, x)) = Len(s) + 1 /\ Append(s, x)[Len(s) + 1] = x
        /\ \A i \in 1..Len(s) : Append(s, x)[i] = s[i]
        /\ Len(s) \in Nat
    BY AppendProperties
  <1>3. /\ Range(Append(s, x)) = {Append(s, x)[i] : i \in 1..Len(s) + 1}
        /\ Range(s) = {s[i] : i \in 1..Len(s)}
    BY <1>1, <1>2, RangeEquality
  <1> QED
    BY <1>2, <1>3

LEMMA PlaceIsPrefix ==
    ASSUME open \in Seq(Opened)
    PROVE  /\ Place = Prefix(open, Len(open) + 1) /\ Place \in Paths /\ Len(Place) = Len(open)
           /\ open # <<>> => Front(Place) = Prefix(open, Len(open)) /\ Front(Place) \in Paths
  <1>1. Place = Prefix(open, Len(open) + 1)
    BY DEF Place, Prefix
  <1>2. Place \in Paths /\ Len(Place) = Len(open)
    <2>1. Len(open) + 1 \in 1..Len(open) + 1
      OBVIOUS
    <2> QED
      BY <1>1, <2>1, PrefixPath
  <1>3. ASSUME open # <<>> PROVE Front(Place) = Prefix(open, Len(open)) /\ Front(Place) \in Paths
    <2>1. Len(open) \in 1..Len(open) /\ Len(open) \in 1..Len(open) + 1
      BY <1>3
    <2>2. Prefix(open, Len(open)) \in Paths /\ Len(Prefix(open, Len(open))) = Len(open) - 1
      BY <2>1, PrefixPath
    <2>3. /\ Front(Place) \in Paths /\ Len(Front(Place)) = Len(open) - 1
          /\ \A i \in 1..Len(open) - 1 : Front(Place)[i] = Place[i]
      <3>1. Place # <<>>
        BY <1>2, <2>1
      <3> QED
        BY <1>2, <3>1, FrontOfSeq DEF Front, Paths
    <2>4. \A i \in 1..Len(open) - 1 : Front(Place)[i] = Prefix(open, Len(open))[i]
      <3> TAKE i \in 1..Len(open) - 1
      <3>1. i \in 1..Len(open)
        BY <2>1
      <3>2. Place[i] = open[i].at
        BY <3>1 DEF Place
      <3>3. Prefix(open, Len(open))[i] = open[i].at
        BY DEF Prefix
      <3> QED
        BY <2>3, <3>2, <3>3
    <2> QED
      BY <2>2, <2>3, <2>4, SeqEqual DEF Paths
  <1> QED
    BY <1>1, <1>2, <1>3

(* The bounds on what is read next.                                        *)
LEMMA InsideTree ==
    ASSUME handler \in Trees, Reading
    PROVE  /\ Len(sax.stack) = Len(open) /\ (sax.stack = <<>> <=> ~Inside)
           /\ Inside => /\ Len(open) \in 1..Len(open) /\ Last(open) = open[Len(open)]
                        /\ open[Len(open)] \in Opened /\ sax.stack[Len(open)] \in Contexts
                        /\ Top(sax) = sax.stack[Len(open)]
                        /\ Linked(open, sax.stack, Len(open))
                        /\ InKind(sax, Last(open).kind)
           /\ Inside /\ Last(open).ready => ParentReady(sax)
           /\ doc.seen \in Seq(Entry) /\ doc.keys \in Seq(Paths)
           /\ Range(doc.seen) \in SUBSET Entry /\ Range(doc.keys) \in SUBSET Paths
           /\ sax.stack \in Seq(Contexts)
  <1>1. /\ open \in Seq(Opened) /\ sax.stack \in Seq(Contexts) /\ Len(sax.stack) = Len(open)
        /\ doc.seen \in Seq(Entry) /\ doc.keys \in Seq(Paths)
    BY DEF Reading, Tree, Handlings, Documents
  <1>2. Range(doc.seen) \in SUBSET Entry /\ Range(doc.keys) \in SUBSET Paths
    BY <1>1, RangeOfSeq
  <1>3. sax.stack = <<>> <=> ~Inside
    BY <1>1 DEF Inside
  <1>4. ASSUME Inside
        PROVE  /\ Len(open) \in 1..Len(open) /\ Last(open) = open[Len(open)]
               /\ open[Len(open)] \in Opened /\ sax.stack[Len(open)] \in Contexts
               /\ Top(sax) = sax.stack[Len(open)]
               /\ Linked(open, sax.stack, Len(open))
               /\ InKind(sax, Last(open).kind)
               /\ Last(open).ready => ParentReady(sax)
    <2>1. Len(open) \in 1..Len(open) /\ Len(open) \in 1..Len(sax.stack)
      BY <1>1, <1>4 DEF Inside
    <2>2. /\ open[Len(open)] \in Opened /\ sax.stack[Len(open)] \in Contexts
      BY <1>1, <2>1, ElementOfSeq
    <2>3. /\ Last(open) = open[Len(open)] /\ Top(sax) = sax.stack[Len(open)]
      BY <1>1 DEF Last, Top
    <2>4. Linked(open, sax.stack, Len(open))
      BY <2>1 DEF Reading, Tree, Level
    <2>5. InKind(sax, Last(open).kind)
      BY <1>3, <1>4, <2>3, <2>4 DEF InKind, Linked
    <2>6. ASSUME Last(open).ready PROVE ParentReady(sax)
      <3>1. open[Len(open)].kind \in {"object", "array"}
        BY <2>2 DEF Opened
      <3>2. CASE open[Len(open)].kind = "array"
        BY <2>3, <2>4, <3>2 DEF Linked, ParentReady
      <3>3. CASE open[Len(open)].kind = "object"
        <4>1. sax.stack[Len(open)].pending = <<open[Len(open)].at>>
          BY <2>3, <2>4, <2>6, <3>3 DEF Linked
        <4>2. Len(sax.stack[Len(open)].pending) = 1
          BY <4>1
        <4> QED
          BY <2>3, <4>2 DEF ParentReady
      <3> QED
        BY <3>1, <3>2, <3>3
    <2> QED
      BY <2>1, <2>2, <2>3, <2>4, <2>5, <2>6
  <1> QED
    BY <1>1, <1>2, <1>3, <1>4

(* One more value.                                                         *)
LEMMA OneMoreValue ==
    ASSUME handler \in Trees, Reading, NEW e \in Entry, ValueExpected,
           UNCHANGED handler, doc' = [doc EXCEPT !.seen = Append(@, e)]
    PROVE  /\ doc'.seen \in Seq(Entry) /\ Len(doc'.seen) = Len(doc.seen) + 1
           /\ doc' \in Documents
           /\ Range(doc'.seen) = Range(doc.seen) \cup {e}
           /\ doc'.keys = doc.keys
           /\ Containers' = Containers \cup
                (IF e.kind \in {"object", "array"} THEN {Len(doc.seen) + 1} ELSE {})
           /\ doc'.seen[Len(doc.seen) + 1] = e
           /\ \A i \in 1..Len(doc.seen) : doc'.seen[i] = doc.seen[i]
           /\ Rooted'
           /\ WithinBounds' <=> /\ sax.values + 1 <= MaxValues[handler]
                                /\ e.kind \in {"object", "array"} => Len(e.path) < MaxDepth[handler]
  <1>1. /\ doc.seen \in Seq(Entry) /\ doc'.seen = Append(doc.seen, e) /\ doc'.keys = doc.keys
        /\ doc'.closed = doc.closed /\ doc'.garbage = doc.garbage /\ doc'.large = doc.large
    BY DEF Reading, Documents
  <1>2. /\ doc'.seen \in Seq(Entry) /\ Len(doc'.seen) = Len(doc.seen) + 1
        /\ doc'.seen[Len(doc.seen) + 1] = e
        /\ \A i \in 1..Len(doc.seen) : doc'.seen[i] = doc.seen[i]
        /\ Len(doc.seen) \in Nat
    BY <1>1, AppendProperties
  <1>3. Range(doc'.seen) = Range(doc.seen) \cup {e}
    BY <1>1, RangeOfAppend
  <1>4. doc' \in Documents
    BY <1>1, <1>2 DEF Reading, Documents
  <1>5. Containers' = Containers \cup
          (IF e.kind \in {"object", "array"} THEN {Len(doc.seen) + 1} ELSE {})
    BY <1>2 DEF Containers
  <1>6. Rooted'
    BY <1>1 DEF Rooted
  <1>7. /\ \A i \in Containers : i \in 1..Len(doc.seen)
        /\ \A i \in Containers : doc'.seen[i].path = doc.seen[i].path
    BY <1>2 DEF Containers
  <1>8. WithinBounds' <=> /\ sax.values + 1 <= MaxValues[handler]
                          /\ e.kind \in {"object", "array"} => Len(e.path) < MaxDepth[handler]
    <2>1. /\ ~doc'.large /\ Len(doc'.keys) <= MaxMembers[handler] /\ handler # "jwks"
          /\ \A i \in 1..Len(doc'.keys) : Last(doc'.keys[i]) \notin LongNames
      BY <1>1 DEF Reading, Documents, Counting, Clean, Trees
    <2>2. WithinBounds' <=>
            /\ Len(doc'.seen) <= MaxValues[handler]
            /\ \A i \in Containers' : Len(doc'.seen[i].path) < MaxDepth[handler]
      BY <2>1 DEF WithinBounds
    <2>3. Len(doc'.seen) = sax.values + 1
      BY <1>2 DEF Reading, Counting
    <2>4. (\A i \in Containers' : Len(doc'.seen[i].path) < MaxDepth[handler])
            <=> (e.kind \in {"object", "array"} => Len(e.path) < MaxDepth[handler])
      <3>1. \A i \in Containers : Len(doc'.seen[i].path) < MaxDepth[handler]
        BY <1>7 DEF Reading, Clean
      <3> QED
        BY <1>2, <1>5, <3>1
    <2> QED
      BY <2>2, <2>3, <2>4
  <1> QED
    BY <1>1, <1>2, <1>3, <1>4, <1>5, <1>6, <1>8

-----------------------------------------------------------------------------
(* The steps of a tree reader.                                             *)

LEMMA TreeCallbacks ==
    ASSUME handler \in Trees, NEW s, NEW kind, NEW text
    PROVE  /\ StartObject(s) = TreeStart(s, "object")
           /\ StartArray(s) = TreeStart(s, "array")
           /\ MemberName(s, text) = TreeKey(s, text)
           /\ Scalar(s, kind, text) = TreeScalar(s, kind, text)
           /\ EndObject(s) = TreeEnd(s, "object")
           /\ EndArray(s) = TreeEnd(s, "array")
           /\ handler # "core" /\ handler # "jwks"
  <1>1. handler # "core" /\ handler # "jwks"
    BY DEF Trees
  <1> HIDE DEF Trees
  <1> QED
    BY <1>1 DEF StartObject, StartArray, MemberName, Scalar, EndObject, EndArray

LEMMA StartReads ==
    ASSUME handler \in Trees, verdict = "parsing", Reading,
           NEW kind \in {"object", "array"}, ReadStart(kind)
    PROVE  IF verdict' = "parsing" THEN Reading' ELSE Refusal'
  <1> DEFINE e == [path |-> Place, kind |-> kind, text |-> NoText]
             s == TreeStart(sax, kind)
             n == Len(open) + 1
  <1>1. /\ handler' = handler /\ ValueExpected
        /\ sax' = s /\ verdict' = IF s.live THEN "parsing" ELSE Kind(s)
        /\ doc' = [doc EXCEPT !.seen = Append(@, e)]
        /\ open' = Append(open, Frame(kind))
    <2>1. (IF kind = "object" THEN StartObject(sax) ELSE StartArray(sax)) = s
      <3>1. CASE kind = "object"
        BY <3>1, TreeCallbacks
      <3>2. CASE kind = "array"
        BY <3>2, TreeCallbacks
      <3> QED
        BY <3>1, <3>2
    <2> HIDE DEF s
    <2> QED
      BY <2>1 DEF ReadStart, Deliver, Seen
  <1>2. e \in Entry /\ e.path = Place /\ e.kind = kind /\ e.text = NoText
    BY PlaceIsPrefix DEF Reading, Entry, Kinds, Strings
  <1>3. Place = Prefix(open, n) /\ Len(Place) = Len(open) /\ Place \in Paths /\ n \in Nat
    BY PlaceIsPrefix DEF Reading
  <1> HIDE DEF e, s
  <1>4. /\ doc'.seen \in Seq(Entry) /\ Len(doc'.seen) = Len(doc.seen) + 1
        /\ doc' \in Documents
        /\ Range(doc'.seen) = Range(doc.seen) \cup {e}
        /\ doc'.keys = doc.keys
        /\ Containers' = Containers \cup {Len(doc.seen) + 1}
        /\ doc'.seen[Len(doc.seen) + 1] = e
        /\ \A i \in 1..Len(doc.seen) : doc'.seen[i] = doc.seen[i]
        /\ Rooted'
        /\ WithinBounds' <=> /\ sax.values + 1 <= MaxValues[handler]
                             /\ Len(open) < MaxDepth[handler]
    BY <1>1, <1>2, <1>3, OneMoreValue
  <1>5. sax \in Handlings /\ Len(sax.stack) = Len(open) /\ (sax.stack = <<>> <=> ~Inside)
        /\ (Inside => ParentReady(sax))
    BY <1>1, InsideTree DEF ValueExpected, Reading
  <1>6. ~Inside => /\ doc.seen = <<>> /\ sax.values = 0 /\ Len(open) = 0
                   /\ sax.values + 1 <= MaxValues[handler]
    BY <1>1, <1>5, BoundsAreNumbers, EmptySeq DEF ValueExpected, Rooted, Reading, Counting, Inside
  <1>7. /\ ~Inside /\ kind = "array" => ~s.live /\ Kind(s) = Malformed
        /\ Inside /\ ~(sax.values + 1 <= MaxValues[handler]) => ~s.live /\ Kind(s) = Limit
        /\ Inside /\ sax.values + 1 <= MaxValues[handler] /\ TooDeep(sax) =>
             ~s.live /\ Kind(s) = IF handler = "object" THEN Malformed ELSE Limit
        /\ sax.values + 1 <= MaxValues[handler] /\ (Inside => ~TooDeep(sax))
           /\ (~Inside => kind = "object") =>
             /\ s = [sax EXCEPT !.values = @ + 1, !.stack = Append(@, Context(kind))]
             /\ s.live
    BY <1>5, <1>6, StartCalled DEF s
  <1>8. TooDeep(sax) <=> ~(Len(open) < MaxDepth[handler])
    BY <1>5, BoundsAreNumbers DEF TooDeep, Reading
  <1>9. CASE ~Inside /\ kind = "array"
    <2>1. verdict' = Malformed /\ verdict' # "parsing"
      BY <1>1, <1>7, <1>9 DEF Malformed
    <2>2. WithinBounds'
      BY <1>4, <1>6, <1>9, BoundsAreNumbers
    <2>3. Place = <<>>
      BY <1>3, <1>6, <1>9, EmptySeq DEF Paths
    <2>4. ~May'
      <3>1. handler' \notin {"core", "jwks"}
        BY <1>1 DEF Trees
      <3>2. e \in Range(doc'.seen) /\ e.path = <<>> /\ e.kind # "object"
        BY <1>2, <1>4, <1>9, <2>3
      <3> QED
        BY <3>1, <3>2 DEF May
    <2> QED
      BY <1>1, <2>1, <2>2, <2>4 DEF Refusal
  <1>10. CASE Inside /\ ~(sax.values + 1 <= MaxValues[handler])
    <2>1. verdict' = Limit /\ verdict' # "parsing"
      BY <1>1, <1>7, <1>10 DEF Limit
    <2> QED
      BY <1>1, <1>4, <1>10, <2>1 DEF Refusal
  <1>11. CASE Inside /\ sax.values + 1 <= MaxValues[handler] /\ TooDeep(sax)
    <2>1. verdict' = IF handler = "object" THEN Malformed ELSE Limit
      BY <1>1, <1>7, <1>11
    <2>2. verdict' # "parsing"
      BY <2>1 DEF Limit, Malformed
    <2>3. ~WithinBounds'
      BY <1>4, <1>8, <1>11
    <2>4. TooDeepRead'
      <3>1. Len(doc.seen) + 1 \in Containers'
        BY <1>4
      <3>2. Len(doc'.seen[Len(doc.seen) + 1].path) = Len(open)
        BY <1>2, <1>3, <1>4
      <3>3. Len(open) >= MaxDepth[handler']
        BY <1>1, <1>8, <1>11, BoundsAreNumbers DEF Reading
      <3> QED
        BY <3>1, <3>2, <3>3 DEF TooDeepRead
    <2> QED
      BY <1>1, <2>1, <2>2, <2>3, <2>4 DEF Refusal
  <1>12. CASE /\ sax.values + 1 <= MaxValues[handler] /\ (Inside => ~TooDeep(sax))
              /\ (~Inside => kind = "object")
    <2>1. /\ sax' = [sax EXCEPT !.values = @ + 1, !.stack = Append(@, Context(kind))]
          /\ verdict' = "parsing"
      BY <1>1, <1>7, <1>12
    <2>2. /\ sax'.stack = Append(sax.stack, Context(kind)) /\ sax'.values = sax.values + 1
          /\ sax'.members = sax.members /\ sax'.complete = sax.complete
      BY <1>5, <2>1 DEF Handlings
    <2>3. /\ open' \in Seq(Opened) /\ sax'.stack \in Seq(Contexts)
          /\ Tree(open', Range(doc'.seen), Range(doc'.keys), sax'.stack)
      <3>1. open # <<>> => open[Len(open)].ready
        BY <1>1, InsideTree DEF Inside, ValueExpected
      <3>2. open = <<>> => Range(doc.seen) = {}
        BY <1>6 DEF Inside, Range
      <3>3. Tree(open, Range(doc.seen), Range(doc.keys), sax.stack) /\ open \in Seq(Opened)
            /\ n = Len(open) + 1 /\ Range(doc.seen) \in SUBSET Entry /\ sax.stack \in Seq(Contexts)
        BY InsideTree DEF Reading
      <3> QED
        <4> DEFINE E == Range(doc.seen)
        <4>1. /\ Append(open, Frame(kind)) \in Seq(Opened)
              /\ Append(sax.stack, Context(kind)) \in Seq(Contexts)
              /\ Tree(Append(open, Frame(kind)), E \cup {e}, Range(doc.keys),
                      Append(sax.stack, Context(kind)))
          <5>1. /\ open \in Seq(Opened) /\ E \in SUBSET Entry /\ sax.stack \in Seq(Contexts)
                /\ e \in Entry /\ n \in Nat /\ n = Len(open) + 1
                /\ Tree(open, E, Range(doc.keys), sax.stack)
                /\ open # <<>> => open[Len(open)].ready
                /\ open = <<>> => E = {}
                /\ e.path = Prefix(open, n) /\ e.kind = kind /\ e.text = NoText
            BY <1>2, <1>3, <3>1, <3>2, <3>3
          <5> HIDE DEF E, n
          <5> QED
            BY <5>1, TreeOpened
        <4> QED
          BY <1>1, <1>4, <2>2, <4>1
    <2>4. sax' \in Handlings
      <3>1. sax.values + 1 \in Nat
        BY <1>5 DEF Handlings
      <3> QED
        BY <1>5, <2>1, <2>2, <2>3, <3>1 DEF Handlings
    <2>5. Len(open') = Len(open) + 1 /\ open'[n].count = 0 /\ \A i \in 1..Len(open) : open'[i] = open[i]
      <3>1. open'[n] = Frame(kind) /\ Len(open') = Len(open) + 1
            /\ \A i \in 1..Len(open) : open'[i] = open[i]
        BY <1>1, AppendProperties DEF Reading
      <3> QED
        BY <3>1, FrameFields
    <2>6. Counting'
      <3>1. /\ sax'.members = Len(doc'.keys) /\ sax'.members <= MaxMembers[handler']
            /\ sax'.values = Len(doc'.seen) /\ sax'.values <= MaxValues[handler']
        BY <1>1, <1>4, <1>12, <2>2 DEF Reading, Counting
      <3>2. Len(open') <= MaxDepth[handler']
        BY <1>1, <1>6, <1>8, <1>12, <2>5, BoundsAreNumbers DEF Reading
      <3>3. ASSUME NEW i \in 1..Len(open')
            PROVE  open'[i].count + (Len(open') - i) + 1 <= Len(doc'.seen)
        <4>1. CASE i = n
          BY <1>4, <2>5, <4>1 DEF Reading, Documents
        <4>2. CASE i \in 1..Len(open)
          <5>1. /\ open[i].count + (Len(open) - i) + 1 <= Len(doc.seen) /\ open[i] \in Opened
                /\ doc.seen \in Seq(Entry)
            BY <4>2, InsideTree, ElementOfSeq DEF Reading, Counting
          <5>2. open[i].count \in Nat
            BY <5>1 DEF Opened
          <5> QED
            BY <1>4, <2>5, <4>2, <5>1, <5>2
        <4> QED
          BY <2>5, <4>1, <4>2
      <3> QED
        BY <3>1, <3>2, <3>3 DEF Counting
    <2>7. Clean'
      <3>1. \A i \in Containers' : Len(doc'.seen[i].path) < MaxDepth[handler']
        <4>1. Len(open) < MaxDepth[handler]
          BY <1>6, <1>8, <1>12, BoundsAreNumbers
        <4>2. \A i \in Containers : Len(doc'.seen[i].path) < MaxDepth[handler]
          BY <1>4 DEF Reading, Clean, Containers
        <4> QED
          BY <1>1, <1>2, <1>3, <1>4, <4>1, <4>2
      <3>2. e.path = <<>> => e.kind = "object"
        <4>1. e.path = <<>> => ~Inside
          BY <1>2, <1>3, EmptySeq DEF Inside, Reading
        <4> QED
          BY <1>2, <1>12, <4>1
      <3> QED
        BY <1>4, <3>1, <3>2 DEF Reading, Clean
    <2>8. Rooting'
      <3>1. Inside' /\ Rooted'
        BY <1>4, <2>5, InsideTree DEF Inside, Reading
      <3>2. ~sax.complete
        BY <1>1 DEF Reading, Rooting, ValueExpected
      <3> QED
        BY <2>2, <3>1, <3>2 DEF Rooting
    <2> QED
      BY <1>4, <2>1, <2>3, <2>4, <2>6, <2>7, <2>8 DEF Reading
  <1> QED
    BY <1>6, <1>9, <1>10, <1>11, <1>12

LEMMA NextIndexIsNew ==
    ASSUME handler \in Trees, Reading, NEW i \in 1..Len(open)
    PROVE  \A k \in 0..open[i].count : ToString(k) # ToString(open[i].count + 1)
  <1>1. open[i] \in Opened /\ Len(open) \in Nat /\ Len(doc.seen) \in Nat
    BY ElementOfSeq, InsideTree DEF Reading
  <1>2. open[i].count \in Nat
    BY <1>1 DEF Opened
  <1>3. open[i].count + (Len(open) - i) + 1 <= Len(doc.seen) /\ Len(doc.seen) <= MaxValues[handler]
    BY DEF Reading, Counting
  <1>4. MaxValues[handler] \in Nat
    BY BoundsAreNumbers
  <1>5. open[i].count + 1 <= MaxValues[handler]
    BY <1>1, <1>2, <1>3, <1>4
  <1> QED
    BY <1>2, <1>4, <1>5, IndexesDiffer

(* The handler with another stack.                                         *)
LEMMA StackReplaced ==
    ASSUME NEW s \in Handlings, NEW st \in Seq(Contexts)
    PROVE  LET t == [s EXCEPT !.stack = st] IN
           /\ t \in Handlings /\ t.stack = st /\ t.live
           /\ t.members = s.members /\ t.values = s.values
           /\ t.complete = s.complete /\ t.root = s.root
  BY DEF Handlings

LEMMA ScalarReads ==
    ASSUME handler \in Trees, verdict = "parsing", Reading,
           NEW kind \in {"string", "other"}, NEW text \in Strings, ReadScalar(kind, text)
    PROVE  IF verdict' = "parsing" THEN Reading' ELSE Refusal'
  <1> DEFINE e == [path |-> Place, kind |-> kind, text |-> text]
             d == [path |-> <<>>, kind |-> kind, text |-> text]
             s == TreeScalar(sax, kind, text)
             u == [sax EXCEPT !.values = @ + 1]
             n == Len(open)
  <1>1. /\ handler' = handler /\ ValueExpected
        /\ sax' = s /\ verdict' = IF s.live THEN "parsing" ELSE Kind(s)
        /\ doc' = [doc EXCEPT !.seen = Append(@, e)]
        /\ open' = Advance(open)
    <2>1. Scalar(sax, kind, text) = s
      BY TreeCallbacks
    <2> HIDE DEF s
    <2> QED
      BY <2>1 DEF ReadScalar, Deliver, Seen
  <1>2. e \in Entry /\ e.path = Place /\ e.kind = kind /\ e.text = text
    BY PlaceIsPrefix DEF Reading, Entry, Kinds
  <1>3. Place = Prefix(open, n + 1) /\ Len(Place) = n /\ Place \in Paths /\ n \in Nat
        /\ n = Len(open)
    BY PlaceIsPrefix DEF Reading
  <1>4. d \in Entry /\ d.path = <<>> /\ d.kind = kind /\ d.text = text
    BY DEF Entry, Kinds, Paths
  <1>5. /\ ~(sax.values + 1 <= MaxValues[handler]) => ~s.live /\ Kind(s) = Limit
        /\ sax.values + 1 <= MaxValues[handler] /\ sax.stack = <<>> => ~s.live /\ Kind(s) = Malformed
        /\ sax.values + 1 <= MaxValues[handler] /\ sax.stack # <<>> =>
             u \in Handlings /\ s = Attach(u, {d})
    BY ScalarCalled DEF Reading
  <1>6. u.stack = sax.stack /\ u.values = sax.values + 1 /\ u.members = sax.members
        /\ u.complete = sax.complete
    BY DEF Reading, Handlings
  <1> HIDE DEF e, d, s, u, n
  <1>7. /\ doc'.seen \in Seq(Entry) /\ Len(doc'.seen) = Len(doc.seen) + 1
        /\ doc' \in Documents
        /\ Range(doc'.seen) = Range(doc.seen) \cup {e}
        /\ doc'.keys = doc.keys
        /\ Containers' = Containers
        /\ doc'.seen[Len(doc.seen) + 1] = e
        /\ \A i \in 1..Len(doc.seen) : doc'.seen[i] = doc.seen[i]
        /\ Rooted'
        /\ WithinBounds' <=> sax.values + 1 <= MaxValues[handler]
    BY <1>1, <1>2, OneMoreValue
  <1>8. sax \in Handlings /\ Len(sax.stack) = n /\ (sax.stack = <<>> <=> ~Inside)
    BY <1>3, InsideTree DEF Reading
  <1>9. CASE ~(sax.values + 1 <= MaxValues[handler])
    <2>1. verdict' = Limit /\ verdict' # "parsing"
      BY <1>1, <1>5, <1>9 DEF Limit
    <2> QED
      BY <1>1, <1>7, <1>9, <2>1 DEF Refusal
  <1>10. CASE sax.values + 1 <= MaxValues[handler] /\ ~Inside
    <2>1. verdict' = Malformed /\ verdict' # "parsing"
      BY <1>1, <1>5, <1>8, <1>10 DEF Malformed
    <2>2. WithinBounds'
      BY <1>7, <1>10
    <2>3. Place = <<>>
      BY <1>3, <1>10, EmptySeq DEF Paths, Inside
    <2>4. ~May'
      <3>1. handler' \notin {"core", "jwks"}
        BY <1>1 DEF Trees
      <3>2. e \in Range(doc'.seen) /\ e.path = <<>> /\ e.kind # "object"
        BY <1>2, <1>7, <2>3
      <3> QED
        BY <3>1, <3>2 DEF May
    <2> QED
      BY <1>1, <2>1, <2>2, <2>4 DEF Refusal
  <1>11. CASE sax.values + 1 <= MaxValues[handler] /\ Inside
    <2>1. /\ n \in 1..Len(open) /\ n # 0 /\ open # <<>> /\ open[n] \in Opened /\ open[n].ready
          /\ Linked(open, sax.stack, n) /\ open \in Seq(Opened) /\ sax.stack \in Seq(Contexts)
          /\ Range(doc.seen) \in SUBSET Entry
          /\ Tree(open, Range(doc.seen), Range(doc.keys), sax.stack)
      BY <1>1, <1>3, <1>11, InsideTree DEF Inside, ValueExpected, Reading
    <2> DEFINE V == Gathered(open, sax.stack, n, {d})
               st == Filled(open, sax.stack, n, V)
    <2>2. u \in Handlings /\ s = [u EXCEPT !.stack = st]
      <3>1. u \in Handlings /\ s = Attach(u, {d})
        BY <1>5, <1>8, <1>11
      <3>2. Len(u.stack) = n /\ Linked(open, u.stack, n)
        BY <1>6, <1>8, <2>1
      <3>3. Attach(u, {d}) =
              [u EXCEPT !.stack = Filled(open, u.stack, n, Gathered(open, u.stack, n, {d}))]
        <4> DEFINE D == {d}
        <4> HIDE DEF D
        <4>1. Attach(u, D) = [u EXCEPT !.stack = Filled(open, u.stack, n, Gathered(open, u.stack, n, D))]
          BY <1>3, <2>1, <3>1, <3>2, Attaches
        <4> QED
          BY <4>1 DEF D
      <3> QED
        BY <1>6, <3>1, <3>3
    <2>3. /\ st \in Seq(Contexts)
          /\ Tree(Advance(open), Range(doc.seen) \cup {e}, Range(doc.keys), st)
      <3> DEFINE E == Range(doc.seen)
                 K == Range(doc.keys)
                 D == {d}
      <3>1. \A k \in 0..open[n].count : ToString(k) # ToString(open[n].count + 1)
        BY <1>3, <2>1, NextIndexIsNew
      <3>2. /\ E \in SUBSET Entry /\ Tree(open, E, K, sax.stack) /\ e.path = Prefix(open, n + 1)
            /\ d.path = <<>> /\ d.kind = e.kind /\ d.text = e.text
            /\ D = {d} /\ V = Gathered(open, sax.stack, n, D)
        BY <1>2, <1>3, <1>4, <2>1
      <3> HIDE DEF E, K, D, V
      <3> QED
        BY <1>2, <1>3, <1>4, <2>1, <3>1, <3>2, TreeScalarRead DEF E, K
    <2> HIDE DEF V, st
    <2>4. /\ sax' = s /\ sax' \in Handlings /\ sax'.stack = st /\ sax'.live
          /\ sax'.members = sax.members /\ sax'.values = sax.values + 1
          /\ sax'.complete = sax.complete
      BY <1>1, <1>6, <2>2, <2>3, StackReplaced
    <2>5. verdict' = "parsing"
      BY <1>1, <2>4
    <2>6. /\ open' \in Seq(Opened) /\ Len(open') = n /\ \A i \in 1..n - 1 : open'[i] = open[i]
          /\ open'[n] = IF open[n].kind = "object" THEN [open[n] EXCEPT !.ready = FALSE]
                        ELSE [open[n] EXCEPT !.count = @ + 1, !.at = ToString(open[n].count + 1)]
      BY <1>1, <1>3, <2>1, Advances
    <2>7. Counting'
      <3>1. /\ sax'.members = Len(doc'.keys) /\ sax'.members <= MaxMembers[handler']
            /\ sax'.values = Len(doc'.seen) /\ sax'.values <= MaxValues[handler']
            /\ Len(open') <= MaxDepth[handler']
        BY <1>1, <1>3, <1>7, <1>11, <2>4, <2>6 DEF Reading, Counting
      <3>2. ASSUME NEW i \in 1..Len(open')
            PROVE  open'[i].count + (Len(open') - i) + 1 <= Len(doc'.seen)
        <4>1. /\ open[i].count + (n - i) + 1 <= Len(doc.seen) /\ open[i] \in Opened
              /\ doc.seen \in Seq(Entry)
          BY <1>3, <2>6, InsideTree, ElementOfSeq DEF Reading, Counting
        <4>2. open[i].count \in Nat
          BY <4>1 DEF Opened
        <4>3. open'[i].count \in {open[i].count, open[i].count + 1}
          <5>1. CASE i = n
            <6>1. CASE open[n].kind = "object"
              BY <2>1, <2>6, <5>1, <6>1 DEF Opened
            <6>2. CASE open[n].kind # "object"
              <7>1. open'[n] = [open[n] EXCEPT !.count = @ + 1, !.at = ToString(open[n].count + 1)]
                BY <2>6, <6>2
              <7>2. open'[n].count = open[n].count + 1
                BY ONLY <2>1, <7>1 DEF Opened
              <7> QED
                BY <5>1, <7>2
            <6> QED
              BY <6>1, <6>2
          <5>2. CASE i \in 1..n - 1
            BY <2>6, <5>2
          <5> QED
            BY <2>6, <5>1, <5>2
        <4>4. Len(doc.seen) \in Nat
          BY <4>1
        <4> QED
          <5>1. i \in Int /\ Len(open') = n /\ Len(doc'.seen) = Len(doc.seen) + 1
            BY <1>7, <2>6
          <5>2. CASE open'[i].count = open[i].count
            BY <1>3, <4>1, <4>2, <4>4, <5>1, <5>2
          <5>3. CASE open'[i].count = open[i].count + 1
            BY <1>3, <4>1, <4>2, <4>4, <5>1, <5>3
          <5> QED
            BY <4>3, <5>2, <5>3
      <3> QED
        BY <3>1, <3>2 DEF Counting
    <2>8. Clean'
      <3>1. \A i \in Containers' : Len(doc'.seen[i].path) < MaxDepth[handler']
        BY <1>1, <1>7 DEF Reading, Clean, Containers
      <3>2. e.path # <<>>
        BY <1>2, <1>3, <2>1
      <3> QED
        BY <1>7, <3>1, <3>2 DEF Reading, Clean
    <2>9. Rooting'
      <3>1. Inside' /\ Rooted'
        BY <1>7, <2>1, <2>6 DEF Inside
      <3>2. ~sax.complete
        BY <1>11 DEF Reading, Rooting
      <3> QED
        BY <2>4, <3>1, <3>2 DEF Rooting
    <2>10. Tree(open', Range(doc'.seen), Range(doc'.keys), sax'.stack)
      BY <1>1, <1>7, <2>3, <2>4
    <2> QED
      BY <1>7, <2>4, <2>5, <2>6, <2>7, <2>8, <2>9, <2>10 DEF Reading
  <1> QED
    BY <1>9, <1>10, <1>11

LEMMA KeyReads ==
    ASSUME handler \in Trees, verdict = "parsing", Reading, NEW name \in Labels, ReadKey(name)
    PROVE  IF verdict' = "parsing" THEN Reading' ELSE Refusal'
  <1> DEFINE s == TreeKey(sax, name)
             n == Len(open)
             k == Prefix(open, n) \o <<name>>
             fits == sax.members + 1 <= MaxMembers[handler] /\ name \notin LongNames
  <1>1. /\ Inside /\ Last(open).kind = "object" /\ ~Last(open).ready
        /\ handler' = handler
        /\ sax' = s /\ verdict' = IF s.live THEN "parsing" ELSE Kind(s)
        /\ doc' = [doc EXCEPT !.keys = Append(@, Front(Place) \o <<name>>)]
        /\ open' = Append(Front(open), [Last(open) EXCEPT !.ready = TRUE, !.at = name])
    <2>1. MemberName(sax, name) = s
      BY TreeCallbacks
    <2> HIDE DEF s
    <2> QED
      BY <2>1 DEF ReadKey, Deliver
  <1>2. /\ n \in Nat /\ n \in 1..Len(open) /\ n # 0 /\ open # <<>> /\ open[n] \in Opened
        /\ Last(open) = open[n] /\ sax.stack[n] \in Contexts /\ Top(sax) = sax.stack[n]
        /\ open \in Seq(Opened) /\ sax.stack \in Seq(Contexts) /\ Len(sax.stack) = n
        /\ n = Len(open) /\ InKind(sax, "object") /\ sax \in Handlings
        /\ Tree(open, Range(doc.seen), Range(doc.keys), sax.stack)
    BY <1>1, InsideTree DEF Inside, Reading
  <1>3. Front(Place) = Prefix(open, n) /\ Prefix(open, n) \in Paths
    BY <1>2, PlaceIsPrefix
  <1>4. k \in Paths /\ Len(k) = Len(Prefix(open, n)) + 1 /\ Last(k) = name
    <2> DEFINE p == Prefix(open, n)
    <2>1. p \in Seq(Labels) /\ Len(p) \in Nat
      BY <1>3 DEF Paths
    <2> HIDE DEF p
    <2>2. p \o <<name>> \in Seq(Labels) /\ Len(p \o <<name>>) = Len(p) + 1
          /\ (p \o <<name>>)[Len(p) + 1] = name
      BY <2>1
    <2> QED
      BY <2>2 DEF p, Paths, Last
  <1>5. /\ ~fits => ~s.live /\ Kind(s) = Limit
        /\ fits /\ name \in Top(sax).members => ~s.live /\ Kind(s) = Malformed
        /\ fits /\ name \notin Top(sax).members =>
             /\ s = [sax EXCEPT !.members = @ + 1,
                                !.stack = AwaitingName(sax.stack, Len(sax.stack), name)]
             /\ s.live
    BY <1>2, KeyCalled
  <1> HIDE DEF s, n, k, fits
  <1>6. /\ doc'.keys = Append(doc.keys, k) /\ doc'.seen = doc.seen
        /\ doc'.closed = doc.closed /\ doc'.garbage = doc.garbage /\ doc'.large = doc.large
        /\ doc.keys \in Seq(Paths) /\ doc' = [doc EXCEPT !.keys = Append(@, k)]
    BY <1>1, <1>3 DEF Reading, Documents, k
  <1>7. /\ doc'.keys \in Seq(Paths) /\ Len(doc'.keys) = Len(doc.keys) + 1
        /\ doc'.keys[Len(doc.keys) + 1] = k /\ Len(doc.keys) \in Nat
        /\ \A i \in 1..Len(doc.keys) : doc'.keys[i] = doc.keys[i]
        /\ Range(doc'.keys) = Range(doc.keys) \cup {k}
        /\ doc' \in Documents
    <2>1. /\ doc'.keys \in Seq(Paths) /\ Len(doc'.keys) = Len(doc.keys) + 1
          /\ doc'.keys[Len(doc.keys) + 1] = k /\ Len(doc.keys) \in Nat
          /\ \A i \in 1..Len(doc.keys) : doc'.keys[i] = doc.keys[i]
      BY <1>4, <1>6, AppendProperties
    <2>2. Range(doc'.keys) = Range(doc.keys) \cup {k}
      BY <1>4, <1>6, RangeOfAppend
    <2>3. doc' \in Documents
      BY <1>6, <2>1 DEF Reading, Documents
    <2> QED
      BY <2>1, <2>2, <2>3
  <1>8. Containers' = Containers /\ \A i \in Containers : Len(doc'.seen[i].path) < MaxDepth[handler]
    BY <1>6 DEF Containers, Reading, Clean
  <1>9. WithinBounds' <=> fits
    <2>1. ~doc'.large /\ handler # "jwks" /\ Len(doc'.seen) <= MaxValues[handler]
      BY <1>6 DEF Reading, Documents, Counting, Trees
    <2>2. WithinBounds' <=> /\ Len(doc'.keys) <= MaxMembers[handler]
                            /\ \A i \in 1..Len(doc'.keys) : Last(doc'.keys[i]) \notin LongNames
      BY <1>1, <1>8, <2>1 DEF WithinBounds
    <2>3. Len(doc'.keys) = sax.members + 1
      BY <1>7 DEF Reading, Counting
    <2>4. (\A i \in 1..Len(doc'.keys) : Last(doc'.keys[i]) \notin LongNames) <=> name \notin LongNames
      <3>1. \A i \in 1..Len(doc.keys) : Last(doc'.keys[i]) \notin LongNames
        BY <1>7 DEF Reading, Clean
      <3>2. \A i \in 1..Len(doc'.keys) : i \in 1..Len(doc.keys) \/ i = Len(doc.keys) + 1
        BY <1>7
      <3>3. Len(doc.keys) + 1 \in 1..Len(doc'.keys) /\ Last(doc'.keys[Len(doc.keys) + 1]) = name
        BY <1>4, <1>7
      <3> QED
        BY <3>1, <3>2, <3>3
    <2> QED
      BY <2>2, <2>3, <2>4 DEF fits
  <1>10. name \in Top(sax).members <=> k \in Range(doc.keys)
    <2>1. Keyed(open, Range(doc.keys), sax.stack, n)
      BY <1>2 DEF Tree, Level
    <2> QED
      BY <1>1, <1>2, <2>1 DEF Keyed, k
  <1>11. Range(doc.keys) = {doc.keys[i] : i \in 1..Len(doc.keys)} /\ DOMAIN doc'.keys = 1..Len(doc.keys) + 1
         /\ DOMAIN doc.keys = 1..Len(doc.keys)
    BY <1>6, <1>7, RangeEquality
  <1>12. CASE ~fits
    <2>1. verdict' = Limit /\ verdict' # "parsing"
      BY <1>1, <1>5, <1>12 DEF Limit
    <2> QED
      BY <1>1, <1>9, <1>12, <2>1 DEF Refusal
  <1>13. CASE fits /\ name \in Top(sax).members
    <2>1. verdict' = Malformed /\ verdict' # "parsing"
      BY <1>1, <1>5, <1>13 DEF Malformed
    <2>2. ~IsInjective(doc'.keys)
      <3>1. PICK i \in 1..Len(doc.keys) : doc.keys[i] = k
        BY <1>10, <1>11, <1>13
      <3>2. doc'.keys[i] = doc'.keys[Len(doc.keys) + 1] /\ i # Len(doc.keys) + 1
        BY <1>7, <3>1
      <3>3. i \in DOMAIN doc'.keys /\ Len(doc.keys) + 1 \in DOMAIN doc'.keys
        BY <1>7, <1>11
      <3> QED
        BY <3>2, <3>3 DEF IsInjective
    <2>3. ~May'
      BY <2>2 DEF May
    <2> QED
      BY <1>1, <1>9, <1>13, <2>1, <2>3 DEF Refusal
  <1>14. CASE fits /\ name \notin Top(sax).members
    <2>1. /\ sax' = [sax EXCEPT !.members = @ + 1, !.stack = AwaitingName(sax.stack, n, name)]
          /\ verdict' = "parsing"
      BY <1>1, <1>2, <1>5, <1>14
    <2>2. /\ sax'.stack = AwaitingName(sax.stack, n, name) /\ sax'.members = sax.members + 1
          /\ sax'.values = sax.values /\ sax'.complete = sax.complete
      BY <1>2, <2>1 DEF Handlings
    <2>3. /\ open' \in Seq(Opened) /\ Len(open') = n /\ \A i \in 1..n - 1 : open'[i] = open[i]
          /\ open'[n] = [open[n] EXCEPT !.ready = TRUE, !.at = name]
      <3> DEFINE x == [open[n] EXCEPT !.ready = TRUE, !.at = name]
                 front == SubSeq(open, 1, n - 1)
      <3>1. x \in Opened
        BY <1>2 DEF Opened
      <3>2. open' = Append(front, x)
        BY <1>1, <1>2 DEF Front, Last
      <3>3. front \in Seq(Opened) /\ Len(front) = n - 1 /\ \A i \in 1..n - 1 : front[i] = open[i]
        BY <1>2, FrontOfSeq
      <3> HIDE DEF x, front
      <3>4. open' \in Seq(Opened) /\ Len(open') = n /\ open'[n] = x
            /\ \A i \in 1..n - 1 : open'[i] = open[i]
        BY <1>2, <3>1, <3>2, <3>3, AppendProperties
      <3> QED
        BY <3>4 DEF x
    <2>4. /\ sax'.stack \in Seq(Contexts)
          /\ Tree(open', Range(doc'.seen), Range(doc'.keys), sax'.stack)
      <3> DEFINE E == Range(doc.seen)
                 K == Range(doc.keys)
                 g == open'
      <3>1. /\ E \in SUBSET Entry /\ K \in SUBSET Paths /\ Tree(open, E, K, sax.stack)
            /\ open[n].kind = "object" /\ ~open[n].ready /\ name \notin sax.stack[n].members
        BY <1>1, <1>2, <1>14, InsideTree
      <3>2. /\ g \in Seq(Opened) /\ Len(g) = n /\ \A i \in 1..n - 1 : g[i] = open[i]
            /\ g[n] = [open[n] EXCEPT !.ready = TRUE, !.at = name]
        BY <2>3
      <3> HIDE DEF E, K, g
      <3>3. /\ AwaitingName(sax.stack, n, name) \in Seq(Contexts)
            /\ Tree(g, E, K \cup {Prefix(open, n) \o <<name>>}, AwaitingName(sax.stack, n, name))
        BY <1>2, <3>1, <3>2, TreeNamed
      <3> QED
        BY <1>6, <1>7, <2>2, <3>3 DEF E, K, g, k
    <2>5. sax' \in Handlings
      <3>1. sax.members + 1 \in Nat
        BY <1>2 DEF Handlings
      <3> QED
        BY <1>2, <2>1, <2>2, <2>4, <3>1 DEF Handlings
    <2>6. Counting'
      <3>1. /\ sax'.members = Len(doc'.keys) /\ sax'.members <= MaxMembers[handler']
            /\ sax'.values = Len(doc'.seen) /\ sax'.values <= MaxValues[handler']
            /\ Len(open') <= MaxDepth[handler']
        BY <1>1, <1>2, <1>6, <1>7, <1>14, <2>2, <2>3 DEF Reading, Counting, fits
      <3>2. ASSUME NEW i \in 1..Len(open')
            PROVE  open'[i].count + (Len(open') - i) + 1 <= Len(doc'.seen)
        <4>1. open[i].count + (n - i) + 1 <= Len(doc.seen)
          BY <1>2, <2>3 DEF Reading, Counting
        <4>2. open'[i].count = open[i].count
          <5>1. CASE i = n
            <6>1. open'[n] = [open[n] EXCEPT !.ready = TRUE, !.at = name]
              BY <2>3
            <6>2. open'[n].count = open[n].count
              BY ONLY <1>2, <6>1 DEF Opened
            <6> QED
              BY <5>1, <6>2
          <5>2. CASE i \in 1..n - 1
            BY <2>3, <5>2
          <5> QED
            BY <1>2, <2>3, <5>1, <5>2
        <4> QED
          BY <1>6, <2>3, <4>1, <4>2
      <3> QED
        BY <3>1, <3>2 DEF Counting
    <2>7. Clean'
      <3>1. IsInjective(doc'.keys)
        <4>1. IsInjective(doc.keys) /\ k \notin Range(doc.keys)
          BY <1>10, <1>14 DEF Reading, Clean
        <4>2. ASSUME NEW i \in 1..Len(doc.keys) + 1, NEW j \in 1..Len(doc.keys) + 1,
                     doc'.keys[i] = doc'.keys[j]
              PROVE  i = j
          <5>1. CASE i \in 1..Len(doc.keys) /\ j \in 1..Len(doc.keys)
            BY <1>7, <1>11, <4>1, <4>2, <5>1 DEF IsInjective
          <5>2. CASE i = Len(doc.keys) + 1 /\ j \in 1..Len(doc.keys)
            BY <1>7, <1>11, <4>1, <4>2, <5>2
          <5>3. CASE j = Len(doc.keys) + 1 /\ i \in 1..Len(doc.keys)
            BY <1>7, <1>11, <4>1, <4>2, <5>3
          <5> QED
            BY <1>7, <5>1, <5>2, <5>3
        <4> QED
          BY <1>11, <4>2 DEF IsInjective
      <3>2. \A i \in 1..Len(doc'.keys) : Last(doc'.keys[i]) \notin LongNames
        <4>1. \A i \in 1..Len(doc.keys) : Last(doc'.keys[i]) \notin LongNames
          BY <1>7 DEF Reading, Clean
        <4>2. Last(doc'.keys[Len(doc.keys) + 1]) \notin LongNames
          BY <1>4, <1>7, <1>14 DEF fits
        <4> QED
          BY <1>7, <4>1, <4>2
      <3>3. \A i \in Containers' : Len(doc'.seen[i].path) < MaxDepth[handler']
        BY <1>1, <1>8
      <3> QED
        BY <1>6, <3>1, <3>2, <3>3 DEF Reading, Clean
    <2>8. Rooting'
      <3>1. Inside' /\ Rooted' /\ ~sax.complete
        BY <1>1, <1>2, <1>6, <2>3 DEF Inside, Rooted, Reading, Rooting
      <3> QED
        BY <2>2, <3>1 DEF Rooting
    <2> QED
      BY <1>7, <2>1, <2>3, <2>4, <2>5, <2>6, <2>7, <2>8 DEF Reading
  <1> QED
    BY <1>12, <1>13, <1>14

(* The whole value of the root container is all that was read.             *)
LEMMA RootIsWhole ==
    ASSUME NEW f \in Seq(Opened), NEW E \in SUBSET Entry, NEW st \in Seq(Contexts),
           Len(f) = 1, Len(st) = 1, Own(f, E, 1), Valued(f, E, st, 1)
    PROVE  /\ Prefix(f, 1) = <<>>
           /\ st[1].value \cup {[path |-> <<>>, kind |-> f[1].kind, text |-> NoText]} = E
  <1> DEFINE own == [path |-> <<>>, kind |-> f[1].kind, text |-> NoText]
  <1>1. 1 \in 1..Len(f) /\ 1 \in 1..Len(f) + 1 /\ 1 \in 1..Len(st)
    OBVIOUS
  <1>2. Prefix(f, 1) \in Paths /\ Len(Prefix(f, 1)) = 0 /\ f[1] \in Opened /\ st[1] \in Contexts
    <2>1. Prefix(f, 1) \in Paths /\ Len(Prefix(f, 1)) = 1 - 1
      BY <1>1, PrefixPath
    <2>2. f[1] \in Opened /\ st[1] \in Contexts
      BY <1>1, ElementOfSeq
    <2> QED
      BY <2>1, <2>2
  <1>3. Prefix(f, 1) = <<>>
    BY <1>2, EmptySeq DEF Paths
  <1>4. own \in E /\ own \in Entry /\ own.path = <<>> /\ own.kind = f[1].kind /\ own.text = NoText
    BY <1>3 DEF Own
  <1> HIDE DEF own
  <1>5. ASSUME NEW v \in Below PROVE (v \in st[1].value) <=> (v \in E)
    <2>1. In(f, 1, v) \in Entry /\ In(f, 1, v).path = Prefix(f, 1) \o v.path
          /\ In(f, 1, v).kind = v.kind /\ In(f, 1, v).text = v.text /\ v \in Entry
      BY <1>1, BelowIsEntry, SamePath
    <2>2. v.path \in Paths
      BY <2>1 DEF Entry
    <2>3. In(f, 1, v).path = v.path
      BY <1>3, <2>1, <2>2, ConcatEmptySeq DEF Paths
    <2>4. In(f, 1, v) = v
      BY <2>1, <2>3, SameEntry
    <2> QED
      BY <2>4 DEF Valued
  <1>6. st[1].value \in SUBSET Below
    BY <1>2 DEF Contexts
  <1>7. ASSUME NEW e \in E PROVE e \in st[1].value \cup {own}
    <2>1. CASE e.path = <<>>
      <3>1. e.kind = f[1].kind /\ e.text = NoText
        BY <1>3, <2>1 DEF Own
      <3>2. e = own
        BY <1>4, <2>1, <3>1, SameEntry
      <3> QED
        BY <3>2
    <2>2. CASE e.path # <<>>
      <3>1. e \in Below
        BY <2>2 DEF Entry, Below, Tails
      <3> QED
        BY <1>5, <3>1
    <2> QED
      BY <2>1, <2>2
  <1>8. st[1].value \cup {own} = E
    BY <1>4, <1>5, <1>6, <1>7
  <1> QED
    BY <1>3, <1>8 DEF own

LEMMA EndReads ==
    ASSUME handler \in Trees, verdict = "parsing", Reading, ReadEnd
    PROVE  verdict' = "parsing" /\ Reading'
  <1> DEFINE n == Len(open)
             kind == Last(open).kind
             s == TreeEnd(sax, kind)
             whole == Whole(Top(sax))
  <1>1. /\ Inside /\ (Last(open).kind = "object" => ~Last(open).ready)
        /\ handler' = handler
        /\ sax' = s /\ verdict' = IF s.live THEN "parsing" ELSE Kind(s)
        /\ doc' = [doc EXCEPT !.closed = @ \cup {Front(Place)}]
        /\ open' = Advance(Front(open))
    <2>1. (IF Last(open).kind = "object" THEN EndObject(sax) ELSE EndArray(sax)) = s
      <3>1. Inside /\ Last(open).kind \in {"object", "array"}
        BY InsideTree DEF ReadEnd, Opened
      <3>2. CASE kind = "object"
        BY <3>2, TreeCallbacks
      <3>3. CASE kind = "array"
        BY <3>3, TreeCallbacks
      <3> QED
        BY <3>1, <3>2, <3>3
    <2> HIDE DEF s
    <2> QED
      BY <2>1 DEF ReadEnd, Deliver
  <1>2. /\ n \in Nat /\ n \in 1..Len(open) /\ n # 0 /\ open # <<>> /\ open[n] \in Opened
        /\ Last(open) = open[n] /\ sax.stack[n] \in Contexts /\ Top(sax) = sax.stack[n]
        /\ open \in Seq(Opened) /\ sax.stack \in Seq(Contexts) /\ Len(sax.stack) = n
        /\ n = Len(open) /\ InKind(sax, kind) /\ sax \in Handlings /\ Linked(open, sax.stack, n)
        /\ Tree(open, Range(doc.seen), Range(doc.keys), sax.stack)
        /\ Range(doc.seen) \in SUBSET Entry /\ Len(doc.seen) \in Nat
    BY <1>1, InsideTree DEF Inside, Reading
  <1>3. Front(Place) = Prefix(open, n) /\ Prefix(open, n) \in Paths
    BY <1>2, PlaceIsPrefix
  <1>4. kind = "object" => Top(sax).pending = <<>>
    BY <1>1, <1>2 DEF Linked
  <1>5. s = IF n = 1 THEN [Pop(sax) EXCEPT !.complete = TRUE, !.root = whole]
            ELSE Attach(Pop(sax), whole)
    BY <1>2, <1>4 DEF TreeEnd, Whole, InKind
  <1> HIDE DEF n, kind, s
  <1> DEFINE front == SubSeq(open, 1, n - 1)
             rest == SubSeq(sax.stack, 1, n - 1)
  <1>6. /\ front \in Seq(Opened) /\ Len(front) = n - 1 /\ \A i \in 1..n - 1 : front[i] = open[i]
        /\ rest \in Seq(Contexts) /\ Len(rest) = n - 1 /\ \A i \in 1..n - 1 : rest[i] = sax.stack[i]
    <2>1. sax.stack # <<>>
      BY <1>2
    <2> QED
      BY <1>2, <2>1, FrontOfSeq
  <1>7. Front(open) = front /\ Pop(sax) = [sax EXCEPT !.stack = rest]
    BY <1>2 DEF Front, Pop, Handlings
  <1> HIDE DEF front, rest
  <1>8. /\ Pop(sax) \in Handlings /\ Pop(sax).stack = rest /\ Pop(sax).live
        /\ Pop(sax).members = sax.members /\ Pop(sax).values = sax.values
        /\ Pop(sax).complete = sax.complete /\ Pop(sax).root = sax.root
    BY <1>2, <1>6, <1>7, StackReplaced
  <1>9. /\ doc'.keys = doc.keys /\ doc'.seen = doc.seen /\ doc' \in Documents
         /\ Front(Place) \in doc'.closed /\ doc'.large = doc.large
    BY <1>1, <1>3 DEF Reading, Documents
  <1>10. Clean'
    BY <1>1, <1>9 DEF Reading, Clean, Containers
  <1>11. Inside /\ Rooted /\ ~sax.complete /\ Rooted'
    BY <1>1, <1>9 DEF Reading, Rooting, Rooted
  <1>12. CASE n = 1
    <2>1. sax' = [Pop(sax) EXCEPT !.complete = TRUE, !.root = whole]
      BY <1>1, <1>5, <1>12
    <2>2. /\ Prefix(open, 1) = <<>>
          /\ whole = Range(doc.seen)
      <3> DEFINE E == Range(doc.seen)
      <3>1. Own(open, E, 1) /\ Valued(open, E, sax.stack, 1)
        BY <1>2, <1>12 DEF Tree, Level
      <3>2. E \in SUBSET Entry /\ Len(open) = 1 /\ Len(sax.stack) = 1
            /\ open \in Seq(Opened) /\ sax.stack \in Seq(Contexts)
        BY <1>2, <1>12
      <3> HIDE DEF E
      <3>3. /\ Prefix(open, 1) = <<>>
            /\ sax.stack[1].value \cup {[path |-> <<>>, kind |-> open[1].kind, text |-> NoText]} = E
        BY <3>1, <3>2, RootIsWhole
      <3>4. whole = sax.stack[1].value \cup {[path |-> <<>>, kind |-> open[1].kind, text |-> NoText]}
        BY <1>2, <1>12 DEF Whole, Linked
      <3> QED
        BY <3>3, <3>4 DEF E
    <2>3. /\ sax' \in Handlings /\ sax'.stack = rest /\ sax'.live /\ sax'.complete
          /\ sax'.members = sax.members /\ sax'.values = sax.values /\ sax'.root = Range(doc.seen)
      BY <1>2, <1>8, <2>1, <2>2 DEF Handlings
    <2>4. verdict' = "parsing"
      BY <1>1, <2>3
    <2>5. front = <<>> /\ rest = <<>>
      BY <1>6, <1>12, EmptySeq
    <2>6. open' = <<>> /\ open' \in Seq(Opened) /\ Len(open') = 0
      BY <1>1, <1>7, <2>5 DEF Advance
    <2>7. Tree(open', Range(doc'.seen), Range(doc'.keys), sax'.stack)
      <3>1. KeyParents(Range(doc.seen), Range(doc.keys))
        BY <1>2 DEF Tree
      <3> QED
        BY <1>9, <2>3, <2>5, <2>6, <3>1 DEF Tree, Fresh
    <2>8. Counting'
      BY <1>1, <1>9, <2>3, <2>6, BoundsAreNumbers DEF Reading, Counting
    <2>9. Rooting'
      <3>1. ~Inside' /\ Rooted' /\ sax'.complete /\ sax'.root = Range(doc'.seen)
        BY <1>9, <1>11, <2>3, <2>6 DEF Inside
      <3>2. <<>> \in doc'.closed
        BY <1>3, <1>9, <1>12, <2>2
      <3> QED
        BY <3>1, <3>2 DEF Rooting
    <2> QED
      BY <1>9, <1>10, <2>3, <2>4, <2>6, <2>7, <2>8, <2>9 DEF Reading
  <1>13. CASE n # 1
    <2> DEFINE m == n - 1
               V == Gathered(front, rest, m, whole)
    <2>1. /\ m \in Nat \ {0} /\ m \in Nat /\ n = m + 1 /\ Len(front) = m /\ Len(rest) = m
          /\ m \in 1..Len(open) /\ m < Len(open) /\ m \in 1..Len(front) /\ front # <<>>
          /\ m = Len(front)
      BY <1>2, <1>6, <1>13
    <2>2. /\ \A i \in 1..m : front[i] = open[i]
          /\ \A i \in 1..m : rest[i] = sax.stack[i]
          /\ front[m] = open[m] /\ rest[m] = sax.stack[m]
      BY <1>6, <2>1
    <2> HIDE DEF m
    <2>3. Linked(front, rest, m) /\ front[m].ready
      <3>1. Linked(open, sax.stack, m)
        BY <1>2, <2>1 DEF Tree, Level
      <3>2. open[m].ready
        BY <2>1, <3>1 DEF Linked
      <3> QED
        BY <2>1, <2>2, <3>1, <3>2 DEF Linked
    <2>4. Attach(Pop(sax), whole) = [Pop(sax) EXCEPT !.stack = Filled(front, rest, m, V)]
      <3> DEFINE t == Pop(sax)
      <3>1. t \in Handlings /\ t.stack = rest /\ Len(t.stack) = m /\ Linked(front, t.stack, m)
        BY <1>8, <2>1, <2>3
      <3> HIDE DEF t, whole
      <3>2. Attach(t, whole)
              = [t EXCEPT !.stack = Filled(front, t.stack, m, Gathered(front, t.stack, m, whole))]
        BY <1>6, <2>1, <2>3, <3>1, Attaches
      <3> QED
        BY <3>1, <3>2 DEF t
    <2>5. /\ Filled(front, rest, m, V) \in Seq(Contexts)
          /\ Tree(Advance(front), Range(doc.seen), Range(doc.keys), Filled(front, rest, m, V))
      <3> DEFINE E == Range(doc.seen)
                 K == Range(doc.keys)
      <3>1. /\ E \in SUBSET Entry /\ Tree(open, E, K, sax.stack) /\ Len(open) = m + 1
            /\ open[m + 1].kind = "object" => ~open[m + 1].ready
            /\ V = Gathered(front, rest, m, Whole(sax.stack[m + 1]))
        BY <1>1, <1>2, <2>1
      <3>2. \A k \in 0..open[m].count : ToString(k) # ToString(open[m].count + 1)
        BY <2>1, NextIndexIsNew
      <3>3. open \in Seq(Opened) /\ sax.stack \in Seq(Contexts) /\ m \in Nat \ {0}
        BY <1>2, <2>1
      <3>4. front = SubSeq(open, 1, m) /\ rest = SubSeq(sax.stack, 1, m)
        BY DEF front, rest, m
      <3> HIDE DEF E, K
      <3>5. LET g == SubSeq(open, 1, m)
                su == SubSeq(sax.stack, 1, m)
                W == Gathered(g, su, m, Whole(sax.stack[m + 1])) IN
            /\ Filled(g, su, m, W) \in Seq(Contexts)
            /\ Tree(Advance(g), E, K, Filled(g, su, m, W))
        BY ONLY <3>1, <3>2, <3>3, TreeEnded
      <3>6. /\ Filled(front, rest, m, V) \in Seq(Contexts)
            /\ Tree(Advance(front), E, K, Filled(front, rest, m, V))
        <4> HIDE DEF V
        <4> QED
          BY ONLY <3>1, <3>4, <3>5
      <3> QED
        BY <3>6 DEF E, K
    <2> HIDE DEF V, whole
    <2>6. /\ sax' = s /\ sax' \in Handlings /\ sax'.stack = Filled(front, rest, m, V) /\ sax'.live
          /\ sax'.members = sax.members /\ sax'.values = sax.values
          /\ sax'.complete = sax.complete
      <3>1. sax' = [Pop(sax) EXCEPT !.stack = Filled(front, rest, m, V)]
        BY <1>1, <1>5, <1>13, <2>4
      <3> QED
        BY <1>1, <1>8, <2>5, <3>1, StackReplaced
    <2>7. verdict' = "parsing"
      BY <1>1, <2>6
    <2>8. /\ open' \in Seq(Opened) /\ Len(open') = m /\ \A i \in 1..m - 1 : open'[i] = open[i]
          /\ open'[m] = IF open[m].kind = "object" THEN [open[m] EXCEPT !.ready = FALSE]
                        ELSE [open[m] EXCEPT !.count = @ + 1, !.at = ToString(open[m].count + 1)]
      <3>1. /\ Advance(front) \in Seq(Opened) /\ Len(Advance(front)) = m
            /\ \A i \in 1..m - 1 : Advance(front)[i] = front[i]
            /\ Advance(front)[m] = IF front[m].kind = "object" THEN [front[m] EXCEPT !.ready = FALSE]
                 ELSE [front[m] EXCEPT !.count = @ + 1, !.at = ToString(front[m].count + 1)]
        BY <1>6, <2>1, <2>3, Advances
      <3>2. open' = Advance(front) /\ front[m] = open[m]
        BY <1>1, <1>7, <2>2
      <3>3. \A i \in 1..m - 1 : front[i] = open[i]
        BY <2>1, <2>2
      <3> QED
        BY <3>1, <3>2, <3>3
    <2>9. Counting'
      <3>1. /\ sax'.members = Len(doc'.keys) /\ sax'.members <= MaxMembers[handler']
            /\ sax'.values = Len(doc'.seen) /\ sax'.values <= MaxValues[handler']
        BY <1>1, <1>9, <2>6 DEF Reading, Counting
      <3>2. Len(open') <= MaxDepth[handler']
        <4>1. Len(open) <= MaxDepth[handler] /\ MaxDepth[handler] \in Nat
          BY BoundsAreNumbers DEF Reading, Counting
        <4> QED
          BY <1>1, <2>1, <2>8, <4>1
      <3>3. ASSUME NEW i \in 1..Len(open')
            PROVE  open'[i].count + (Len(open') - i) + 1 <= Len(doc'.seen)
        <4>1. i \in 1..m /\ i \in 1..Len(open)
          BY <2>1, <2>8
        <4>2. open[i].count + (n - i) + 1 <= Len(doc.seen)
          BY <1>2, <4>1 DEF Reading, Counting
        <4>3. open[i] \in Opened
          BY <1>2, <4>1, ElementOfSeq
        <4>4. open[i].count \in Nat
          BY <4>3 DEF Opened
        <4>5. open'[i].count = open[i].count \/ open'[i].count = open[i].count + 1
          <5>1. CASE i = m
            <6>1. CASE open[m].kind = "object"
              <7>1. open'[m] = [open[m] EXCEPT !.ready = FALSE]
                BY <2>8, <6>1
              <7> QED
                BY ONLY <4>3, <5>1, <7>1 DEF Opened
            <6>2. CASE open[m].kind # "object"
              <7>1. open'[m] = [open[m] EXCEPT !.count = @ + 1, !.at = ToString(open[m].count + 1)]
                BY <2>8, <6>2
              <7> QED
                BY ONLY <4>3, <5>1, <7>1 DEF Opened
            <6> QED
              BY <6>1, <6>2
          <5>2. CASE i \in 1..m - 1
            BY <2>8, <5>2
          <5> QED
            BY <2>1, <4>1, <5>1, <5>2
        <4>6. i \in Int /\ Len(open') = m /\ Len(doc'.seen) = Len(doc.seen)
          BY <1>9, <2>8
        <4>7. CASE open'[i].count = open[i].count
          BY <1>2, <2>1, <4>2, <4>4, <4>6, <4>7
        <4>8. CASE open'[i].count = open[i].count + 1
          BY <1>2, <2>1, <4>2, <4>4, <4>6, <4>8
        <4> QED
          BY <4>5, <4>7, <4>8
      <3> QED
        BY <3>1, <3>2, <3>3 DEF Counting
    <2>10. Rooting'
      <3>1. Inside' /\ Rooted' /\ ~sax'.complete
        BY <1>11, <2>1, <2>6, <2>8 DEF Inside
      <3> QED
        BY <3>1 DEF Rooting
    <2>11. Tree(open', Range(doc'.seen), Range(doc'.keys), sax'.stack)
      BY <1>1, <1>7, <1>9, <2>5, <2>6
    <2> QED
      BY <1>9, <1>10, <2>6, <2>7, <2>8, <2>9, <2>10, <2>11 DEF Reading
  <1> QED
    BY <1>12, <1>13

LEMMA GarbageReads ==
    ASSUME handler \in Trees, Reading, ReadGarbage
    PROVE  handler' = handler /\ verdict' # "parsing" /\ Refusal'
  <1>1. Default(handler) = Malformed
    BY DEF Default, Trees
  <1>2. verdict' = Malformed /\ handler' = handler
    BY <1>1, Refuses DEF ReadGarbage, Deliver, Reading
  <1>3. doc'.garbage
    BY DEF ReadGarbage, Reading, Documents
  <1> QED
    BY <1>2, <1>3 DEF Refusal, Malformed

(* What has been read without an objection may be a document.              *)
LEMMA ReadingMay ==
    ASSUME handler \in Trees, Reading
    PROVE  May
  <1>1. handler # "core" /\ handler # "jwks"
    BY DEF Trees
  <1>2. ~doc.garbage /\ ~doc.large
    BY DEF Reading, Documents
  <1>3. WithinBounds
    BY <1>1, <1>2 DEF WithinBounds, Reading, Counting, Clean
  <1> QED
    BY <1>1, <1>2, <1>3 DEF May, Reading, Clean

LEMMA FinishReads ==
    ASSUME handler \in Trees, Reading, ReadFinish
    PROVE  handler' = handler /\ verdict' # "parsing" /\ Decided'
  <1>1. handler # "core" /\ handler # "jwks"
    BY DEF Trees
  <1>2. UNCHANGED <<handler, open, doc, sax>>
    BY DEF ReadFinish
  <1>3. sax.complete /\ sax.stack = <<>> /\ sax.root = Range(doc.seen) /\ <<>> \in doc.closed
    <2>1. sax.stack = <<>>
      BY InsideTree DEF ReadFinish
    <2> QED
      BY <2>1 DEF ReadFinish, Reading, Rooting
  <1>4. verdict' = "accepted"
    BY <1>1, <1>3 DEF ReadFinish
  <1>5. result' = sax.root
    BY <1>1, <1>4 DEF ReadFinish
  <1>6. May'
    <2>1. May
      BY ReadingMay
    <2> QED
      BY <1>2, <2>1 DEF May, WithinBounds, Containers, KeyObjects, Fits, GoodTexts, Kids
  <1>7. AcceptsExactly'
    BY <1>2, <1>3, <1>4, <1>6 DEF AcceptsExactly
  <1>8. ResultIsDocument'
    BY <1>1, <1>2, <1>3, <1>5 DEF ResultIsDocument, Built
  <1>9. LimitsAreReported'
    BY <1>4 DEF LimitsAreReported
  <1> QED
    BY <1>2, <1>4, <1>7, <1>8, <1>9 DEF Decided

-----------------------------------------------------------------------------
(* Every run of a tree reader.                                             *)

TreeInv == handler \in Trees => IF verdict = "parsing" THEN Reading ELSE Decided

LEMMA EmptyRange == Range(<<>>) = {}
  BY DEF Range

LEMMA InitReads == Init => TreeInv
  <1> SUFFICES ASSUME Init, handler \in Trees
               PROVE  IF verdict = "parsing" THEN Reading ELSE Decided
    BY DEF TreeInv
  <1> PICK large \in BOOLEAN :
        /\ doc = [keys |-> <<>>, seen |-> <<>>, closed |-> {}, garbage |-> FALSE, large |-> large]
        /\ verdict = IF large THEN Limit ELSE "parsing"
    BY DEF Init
  <1>1. open = <<>> /\ sax = NewSax
    BY DEF Init
  <1>2. CASE large
    <2>1. verdict = Limit /\ ~WithinBounds
      BY <1>2 DEF WithinBounds
    <2>2. Refusal
      BY <2>1 DEF Refusal
    <2> QED
      BY <2>1, <2>2, RefusalDecides DEF Limit
  <1>3. CASE ~large
    <2>1. verdict = "parsing" /\ doc.keys = <<>> /\ doc.seen = <<>>
      BY <1>3
    <2>2. doc \in Documents
      <3>1. doc = [keys |-> <<>>, seen |-> <<>>, closed |-> {}, garbage |-> FALSE, large |-> FALSE]
        BY <1>3
      <3>2. <<>> \in Seq(Paths) /\ <<>> \in Seq(Entry) /\ {} \in SUBSET Paths
        OBVIOUS
      <3> QED
        BY ONLY <3>1, <3>2 DEF Documents
    <2>3. sax \in Handlings /\ sax.stack = <<>> /\ sax.members = 0 /\ sax.values = 0
          /\ sax.complete = FALSE
      BY <1>1 DEF NewSax, Handlings
    <2>4. Tree(open, Range(doc.seen), Range(doc.keys), sax.stack)
      BY <1>1, <2>1, <2>3, EmptyRange DEF Tree, Fresh, KeyParents
    <2>5. Counting
      BY <1>1, <2>1, <2>3, BoundsAreNumbers DEF Counting
    <2>6. Clean
      BY <2>1, EmptyRange DEF Clean, IsInjective, Containers
    <2>7. Rooting
      BY <1>1, <2>1, <2>3 DEF Rooting, Inside, Rooted
    <2> QED
      BY <1>1, <2>1, <2>2, <2>3, <2>4, <2>5, <2>6, <2>7 DEF Reading
  <1> QED
    BY <1>2, <1>3

LEMMA NextReads == TreeInv /\ [Next]_vars => TreeInv'
  <1> SUFFICES ASSUME TreeInv, [Next]_vars, handler' \in Trees
               PROVE  IF verdict' = "parsing" THEN Reading' ELSE Decided'
    BY DEF TreeInv
  <1>1. handler' = handler
    BY DEF Next, vars, Deliver, ReadStart, ReadScalar, ReadKey, ReadEnd, ReadGarbage, ReadFinish
  <1>2. Refusal' => Decided'
    BY RefusalDecides, PTL
  <1>3. CASE UNCHANGED vars
    <2>1. IF verdict = "parsing" THEN Reading ELSE Decided
      BY <1>1 DEF TreeInv
    <2>2. Reading <=> Reading'
      BY <1>3 DEF vars, Reading, Counting, Clean, Rooting, Containers, Inside, Rooted
    <2>3. Decided <=> Decided'
      BY <1>3 DEF vars, Decided, AcceptsExactly, ResultIsDocument, LimitsAreReported, May,
                  WithinBounds, Containers, KeyObjects, Fits, GoodTexts, Kids, Built
    <2> QED
      BY <1>3, <2>1, <2>2, <2>3 DEF vars
  <1>4. ASSUME Next PROVE verdict = "parsing" /\ handler \in Trees /\ Reading
    <2>1. verdict = "parsing"
      BY <1>4 DEF Next, Deliver, ReadStart, ReadScalar, ReadKey, ReadEnd, ReadGarbage, ReadFinish
    <2> QED
      BY <1>1, <2>1 DEF TreeInv
  <1>5. ASSUME NEW kind \in {"object", "array"}, ReadStart(kind), Next
        PROVE  IF verdict' = "parsing" THEN Reading' ELSE Decided'
    BY <1>2, <1>4, <1>5, StartReads
  <1>6. ASSUME NEW text \in Texts[handler], ReadScalar("string", text), Next
        PROVE  IF verdict' = "parsing" THEN Reading' ELSE Decided'
    <2>1. text \in Strings
      BY <1>4, <1>6 DEF Strings, Handlers
    <2> QED
      BY <1>2, <1>4, <1>6, <2>1, ScalarReads
  <1>7. ASSUME ReadScalar("other", NoText), Next
        PROVE  IF verdict' = "parsing" THEN Reading' ELSE Decided'
    <2>1. NoText \in Strings
      BY DEF Strings
    <2> QED
      BY <1>2, <1>4, <1>7, <2>1, ScalarReads
  <1>8. ASSUME NEW name \in Names[handler], ReadKey(name), Next
        PROVE  IF verdict' = "parsing" THEN Reading' ELSE Decided'
    <2>1. name \in Labels
      BY <1>4, <1>8 DEF Labels, Handlers
    <2> QED
      BY <1>2, <1>4, <1>8, <2>1, KeyReads
  <1>9. ASSUME ReadEnd, Next
        PROVE  IF verdict' = "parsing" THEN Reading' ELSE Decided'
    BY <1>4, <1>9, EndReads
  <1>10. ASSUME ReadGarbage, Next
         PROVE  IF verdict' = "parsing" THEN Reading' ELSE Decided'
    BY <1>2, <1>4, <1>10, GarbageReads
  <1>11. ASSUME ReadFinish, Next
         PROVE  IF verdict' = "parsing" THEN Reading' ELSE Decided'
    BY <1>4, <1>11, FinishReads
  <1> QED
    BY <1>3, <1>5, <1>6, <1>7, <1>8, <1>9, <1>10, <1>11 DEF Next

LEMMA TreeInvHolds == Spec => []TreeInv
  BY InitReads, NextReads, PTL DEF Spec

(* HeaderSax, ConfigSax and ObjectSax accept exactly the documents that    *)
(* have no duplicate name, an object at the root and every count within    *)
(* its bound, and refuse only what can no longer become one.               *)
THEOREM TreesExact == Spec => [](handler \in Trees => AcceptsExactly)
  <1>1. TreeInv => (handler \in Trees => AcceptsExactly)
    BY DEF TreeInv, Decided, AcceptsExactly
  <1> QED
    BY <1>1, TreeInvHolds, PTL

(* The value that a tree reader returns holds every value of the document  *)
(* at its path and nothing else, whatever the nesting.                     *)
THEOREM TreesReturnDocument == Spec => [](handler \in Trees => ResultIsDocument)
  <1>1. TreeInv => (handler \in Trees => ResultIsDocument)
    BY DEF TreeInv, Decided, ResultIsDocument
  <1> QED
    BY <1>1, TreeInvHolds, PTL

(* A tree reader reports resource_limit exactly when a bound was passed,   *)
(* except that ObjectSax calls too deep a nesting malformed input.         *)
THEOREM TreesReportLimits == Spec => [](handler \in Trees => LimitsAreReported)
  <1>1. TreeInv => (handler \in Trees => LimitsAreReported)
    BY DEF TreeInv, Decided, LimitsAreReported
  <1> QED
    BY <1>1, TreeInvHolds, PTL

-----------------------------------------------------------------------------
(* What a handler of any reader holds.  Room says that its counters are    *)
(* within the bounds and account for the contexts, names and values; a     *)
(* callback that passes a bound stops the handler, and Held holds on.      *)

Spots == Labels \cup {"signatures", "keys", "0"}
Keys == [JwkMembers -> Strings]
Holders == [kind : {"object", "array", "root", "signatures", "entry", "keys", "key"},
            members : SUBSET Labels, pending : {p \in Paths : Len(p) <= 1},
            items : Nat, value : SUBSET Below]
Handles == [stack : Seq(Holders), members : Nat, values : Nat, keys : Nat,
            have : SUBSET Spots, current : Keys, parsed : Seq(Keys),
            failure : {"none", Limit, Default(handler)}, live : BOOLEAN,
            complete : BOOLEAN, root : SUBSET [path : Seq(Spots), kind : Kinds, text : Strings]]

NamesHeld(st) == UNION {{<<i, n>> : n \in st[i].members} : i \in 1..Len(st)}
ValuesBuilt(st) == UNION {{<<i, v>> : v \in st[i].value} : i \in 1..Len(st)}
Deepest == IF handler = "jwks" THEN 3 ELSE MaxDepth[handler]
KeySetLevel == <<"root", "keys", "key">>

Bounded(s) ==
  /\ Len(s.stack) <= Deepest
  /\ IsFiniteSet(NamesHeld(s.stack)) /\ Cardinality(NamesHeld(s.stack)) <= MaxMembers[handler]
  /\ IsFiniteSet(ValuesBuilt(s.stack)) /\ Cardinality(ValuesBuilt(s.stack)) <= MaxValues[handler]
  /\ Len(s.parsed) <= MaxKeys
Room(s, new) ==
  /\ Cardinality(NamesHeld(s.stack)) <= s.members /\ s.members <= MaxMembers[handler]
  /\ handler \in Trees => /\ Cardinality(ValuesBuilt(s.stack)) + Len(s.stack) + new <= s.values
                          /\ s.values <= MaxValues[handler]
  /\ handler \notin Trees => \A i \in 1..Len(s.stack) : s.stack[i].value = {}
  /\ handler = "jwks" =>
       /\ Len(s.stack) <= 3 /\ \A i \in 1..Len(s.stack) : s.stack[i].kind = KeySetLevel[i]
       /\ Len(s.parsed) <= s.keys /\ s.keys <= MaxKeys
       /\ Len(s.stack) = 3 => Len(s.parsed) + 1 <= s.keys
Sane(s) == s \in Handles /\ Bounded(s) /\ (s.live => Room(s, 0))

LEMMA HandlerBounds ==
    ASSUME handler \in Handlers
    PROVE  /\ MaxDepth[handler] \in Nat \ {0} /\ MaxMembers[handler] \in Nat \ {0}
           /\ MaxValues[handler] \in Nat \ {0} /\ MaxKeys \in Nat \ {0}
           /\ Deepest \in Nat \ {0}
  BY BoundsArePositive DEF Deepest

LEMMA ImageIsSmall ==
    ASSUME NEW S, IsFiniteSet(S), NEW g, NEW T, \A y \in T : \E x \in S : y = g[x]
    PROVE  IsFiniteSet(T) /\ Cardinality(T) <= Cardinality(S)
           /\ Cardinality(T) \in Nat /\ Cardinality(S) \in Nat
  <1> DEFINE U == {g[x] : x \in S}
             f == [x \in S |-> g[x]]
  <1>1. f \in Surjection(S, U)
    BY DEF Surjection
  <1>2. IsFiniteSet(U) /\ Cardinality(U) <= Cardinality(S)
    BY <1>1, FS_Surjection
  <1>3. T \in SUBSET U
    OBVIOUS
  <1>4. IsFiniteSet(T) /\ Cardinality(T) <= Cardinality(U)
    BY <1>2, <1>3, FS_Subset
  <1>5. Cardinality(T) \in Nat /\ Cardinality(S) \in Nat /\ Cardinality(U) \in Nat
    BY <1>2, <1>4, FS_CardinalityType
  <1> HIDE DEF U
  <1> QED
    BY <1>2, <1>4, <1>5

LEMMA OneMore ==
    ASSUME NEW S, IsFiniteSet(S), NEW x, NEW T, T \subseteq S \cup {x}
    PROVE  IsFiniteSet(T) /\ Cardinality(T) <= Cardinality(S) + 1
           /\ Cardinality(T) \in Nat /\ Cardinality(S) \in Nat
  <1>1. IsFiniteSet(S \cup {x}) /\ Cardinality(S) \in Nat
        /\ Cardinality(S \cup {x}) = IF x \in S THEN Cardinality(S) ELSE Cardinality(S) + 1
    BY FS_AddElement, FS_CardinalityType
  <1>2. IsFiniteSet(T) /\ Cardinality(T) <= Cardinality(S \cup {x})
    BY <1>1, FS_Subset
  <1>3. Cardinality(T) \in Nat
    BY <1>2, FS_CardinalityType
  <1> QED
    BY <1>1, <1>2, <1>3

LEMMA NoMore ==
    ASSUME NEW S, IsFiniteSet(S), NEW T, T \subseteq S
    PROVE  IsFiniteSet(T) /\ Cardinality(T) <= Cardinality(S)
           /\ Cardinality(T) \in Nat /\ Cardinality(S) \in Nat
  BY FS_Subset, FS_CardinalityType

LEMMA NameHeldAt ==
    ASSUME NEW st, NEW p
    PROVE  p \in NamesHeld(st) <=> \E i \in 1..Len(st) : \E n \in st[i].members : p = <<i, n>>
  BY DEF NamesHeld

LEMMA ValueBuiltAt ==
    ASSUME NEW st, NEW p
    PROVE  p \in ValuesBuilt(st) <=> \E i \in 1..Len(st) : \E v \in st[i].value : p = <<i, v>>
  BY DEF ValuesBuilt

LEMMA FailsSane ==
    ASSUME NEW s \in Handles, Bounded(s), NEW kind \in {Limit, Default(handler)}
    PROVE  /\ Sane(Fail(s, kind)) /\ ~Fail(s, kind).live
           /\ Sane(Silent(s)) /\ ~Silent(s).live
  <1>1. /\ Silent(s) \in Handles /\ ~Silent(s).live
        /\ Silent(s).stack = s.stack /\ Silent(s).parsed = s.parsed
    BY DEF Handles, Silent
  <1>2. /\ Fail(s, kind) \in Handles /\ ~Fail(s, kind).live
        /\ Fail(s, kind).stack = s.stack /\ Fail(s, kind).parsed = s.parsed
    <2> HIDE DEF Handles
    <2>1. Silent(s) \in Handles
      BY <1>1
    <2>2. Fail(s, kind) = [Silent(s) EXCEPT !.failure = IF @ = "none" THEN kind ELSE @]
      BY DEF Fail
    <2> QED
      BY <1>1, <2>2 DEF Handles
  <1> QED
    BY <1>1, <1>2 DEF Sane, Bounded

(* The counted value makes room for a context or a value.                  *)
LEMMA CountsValue ==
    ASSUME handler \in Handlers, NEW s, Sane(s), s.live
    PROVE  LET t == CountValue(s) IN
           /\ Sane(t) /\ t.stack = s.stack
           /\ t.live => Room(t, 1)
           /\ handler = "jwks" => t.keys = s.keys
  <1> DEFINE u == [s EXCEPT !.values = @ + 1]
  <1>1. s \in Handles /\ Bounded(s) /\ Room(s, 0) /\ s.values \in Nat /\ Len(s.stack) \in Nat
    <2>1. s \in Handles /\ Bounded(s) /\ Room(s, 0)
      BY DEF Sane
    <2>2. s.values \in Nat /\ s.stack \in Seq(Holders)
      BY <2>1 DEF Handles
    <2> QED
      BY <2>1, <2>2, LenProperties
  <1>2. /\ u \in Handles /\ u.stack = s.stack /\ u.parsed = s.parsed /\ u.values = s.values + 1
        /\ u.members = s.members /\ u.keys = s.keys /\ u.live = s.live
    <2>1. s.values + 1 \in Nat
      BY <1>1
    <2> QED
      BY <1>1, <2>1 DEF Handles
  <1>3. CountValue(s) = IF u.values <= MaxValues[handler] THEN u ELSE Fail(u, Limit)
    BY DEF CountValue, Require
  <1> HIDE DEF u
  <1>4. Bounded(u)
    BY <1>1, <1>2 DEF Bounded
  <1>5. CASE u.values <= MaxValues[handler]
    <2>1. Cardinality(ValuesBuilt(s.stack)) \in Nat
      BY <1>1, FS_CardinalityType DEF Bounded
    <2>2. handler \in Trees =>
            Cardinality(ValuesBuilt(s.stack)) + Len(s.stack) + 0 <= s.values
      BY <1>1 DEF Room
    <2>3. handler \in Trees =>
            /\ Cardinality(ValuesBuilt(u.stack)) + Len(u.stack) + 1 <= u.values
            /\ Cardinality(ValuesBuilt(u.stack)) + Len(u.stack) + 0 <= u.values
      BY <1>1, <1>2, <2>1, <2>2
    <2>4. Room(u, 1) /\ Room(u, 0)
      BY <1>1, <1>2, <1>5, <2>3 DEF Room
    <2> QED
      BY <1>1, <1>2, <1>3, <1>4, <1>5, <2>4 DEF Sane
  <1>6. CASE ~(u.values <= MaxValues[handler])
    <2>1. CountValue(s) = Fail(u, Limit)
      BY <1>3, <1>6
    <2>2. Sane(Fail(u, Limit)) /\ ~Fail(u, Limit).live
      BY <1>2, <1>4, FailsSane
    <2>3. Fail(u, Limit).stack = u.stack /\ Fail(u, Limit).keys = u.keys
      BY <1>2 DEF Fail, Silent, Handles
    <2> QED
      BY <1>2, <2>1, <2>2, <2>3
  <1> QED
    BY <1>5, <1>6


(* The stack with another innermost context, with one more and with one    *)
(* less.                                                                   *)
LEMMA InnermostSane ==
    ASSUME handler \in Handlers, NEW s \in Handles, s.stack # <<>>
    PROVE  /\ Len(s.stack) \in Nat /\ Len(s.stack) \in 1..Len(s.stack)
           /\ Top(s) = s.stack[Len(s.stack)] /\ Top(s) \in Holders
           /\ s.stack \in Seq(Holders)
  <1>1. s.stack \in Seq(Holders)
    BY DEF Handles
  <1>2. Len(s.stack) \in Nat /\ Len(s.stack) \in 1..Len(s.stack)
    BY <1>1
  <1>3. s.stack[Len(s.stack)] \in Holders
    BY <1>1, <1>2, ElementOfSeq
  <1> QED
    BY <1>1, <1>2, <1>3 DEF Top, Last

LEMMA TopReplaced ==
    ASSUME handler \in Handlers, NEW s \in Handles, s.stack # <<>>, NEW c \in Holders
    PROVE  LET t == SetTop(s, c) IN
           /\ t \in Handles /\ t = [s EXCEPT !.stack = t.stack]
           /\ Len(t.stack) = Len(s.stack) /\ t.stack # <<>> /\ Top(t) = c
           /\ t.stack[Len(s.stack)] = c
           /\ \A i \in 1..Len(s.stack) - 1 : t.stack[i] = s.stack[i]
           /\ t.members = s.members /\ t.values = s.values /\ t.keys = s.keys
           /\ t.parsed = s.parsed /\ t.live = s.live
  <1> DEFINE n == Len(s.stack)
             su == [s.stack EXCEPT ![n] = c]
  <1>1. s.stack \in Seq(Holders) /\ n \in Nat /\ n \in 1..n
    BY InnermostSane
  <1>2. su \in Seq(Holders) /\ Len(su) = n
    BY <1>1, ExceptSeq
  <1>3. su[n] = c /\ \A i \in 1..n - 1 : su[i] = s.stack[i]
    BY <1>1, ExceptSeq
  <1>4. su # <<>>
    BY <1>1, <1>2
  <1>5. SetTop(s, c) = [s EXCEPT !.stack = su]
    BY DEF SetTop, Handles
  <1> HIDE DEF su
  <1>6. LET t == [s EXCEPT !.stack = su] IN
        /\ t \in Handles /\ t.stack = su
        /\ t.members = s.members /\ t.values = s.values /\ t.keys = s.keys
        /\ t.parsed = s.parsed /\ t.live = s.live
    BY <1>2 DEF Handles
  <1>7. Last(su) = c
    BY <1>2, <1>3 DEF Last
  <1> QED
    BY <1>2, <1>3, <1>4, <1>5, <1>6, <1>7 DEF Top

LEMMA OnePushed ==
    ASSUME handler \in Handlers, NEW s \in Handles,
           NEW kind \in {"object", "array", "root", "signatures", "entry", "keys", "key"}
    PROVE  LET t == Push(s, kind) IN
           /\ t \in Handles /\ Len(t.stack) = Len(s.stack) + 1
           /\ t.stack[Len(s.stack) + 1] = Context(kind) /\ Context(kind) \in Holders
           /\ \A i \in 1..Len(s.stack) : t.stack[i] = s.stack[i]
           /\ t.members = s.members /\ t.values = s.values /\ t.keys = s.keys
           /\ t.parsed = s.parsed /\ t.live = s.live
  <1> DEFINE c == Context(kind)
             su == Append(s.stack, c)
  <1>1. c \in Holders
    <2>1. <<>> \in {p \in Paths : Len(p) <= 1}
      BY DEF Paths
    <2> QED
      BY <2>1 DEF Context, Holders
  <1>2. s.stack \in Seq(Holders)
    BY DEF Handles
  <1> HIDE DEF c
  <1>3. /\ su \in Seq(Holders) /\ Len(su) = Len(s.stack) + 1
        /\ su[Len(s.stack) + 1] = c /\ \A i \in 1..Len(s.stack) : su[i] = s.stack[i]
    BY <1>1, <1>2, AppendProperties
  <1>4. Push(s, kind) = [s EXCEPT !.stack = su]
    BY DEF Push, Handles, c
  <1> HIDE DEF su
  <1>5. LET t == [s EXCEPT !.stack = su] IN
        /\ t \in Handles /\ t.stack = su
        /\ t.members = s.members /\ t.values = s.values /\ t.keys = s.keys
        /\ t.parsed = s.parsed /\ t.live = s.live
    BY <1>3 DEF Handles
  <1> QED
    BY <1>1, <1>3, <1>4, <1>5 DEF c

LEMMA OnePopped ==
    ASSUME handler \in Handlers, NEW s \in Handles, s.stack # <<>>
    PROVE  LET t == Pop(s) IN
           /\ t \in Handles /\ Len(t.stack) = Len(s.stack) - 1
           /\ t = [s EXCEPT !.stack = t.stack]
           /\ \A i \in 1..Len(s.stack) - 1 : t.stack[i] = s.stack[i]
           /\ t.members = s.members /\ t.values = s.values /\ t.keys = s.keys
           /\ t.parsed = s.parsed /\ t.live = s.live
  <1> DEFINE su == SubSeq(s.stack, 1, Len(s.stack) - 1)
  <1>1. s.stack \in Seq(Holders)
    BY DEF Handles
  <1>2. /\ su \in Seq(Holders) /\ Len(su) = Len(s.stack) - 1
        /\ \A i \in 1..Len(s.stack) - 1 : su[i] = s.stack[i]
    BY <1>1, FrontOfSeq
  <1>3. Pop(s) = [s EXCEPT !.stack = su]
    BY DEF Pop, Handles, Front
  <1> HIDE DEF su
  <1>4. LET t == [s EXCEPT !.stack = su] IN
        /\ t \in Handles /\ t.stack = su
        /\ t.members = s.members /\ t.values = s.values /\ t.keys = s.keys
        /\ t.parsed = s.parsed /\ t.live = s.live
    BY <1>2 DEF Handles
  <1> QED
    BY <1>2, <1>3, <1>4


(* A context pushed, popped, or replaced by one of the same names and      *)
(* values.                                                                 *)
LEMMA Counts ==
    ASSUME handler \in Handlers, NEW s \in Handles, Bounded(s)
    PROVE  /\ Cardinality(NamesHeld(s.stack)) \in Nat /\ Cardinality(ValuesBuilt(s.stack)) \in Nat
           /\ Len(s.stack) \in Nat /\ Len(s.parsed) \in Nat
           /\ s.members \in Nat /\ s.values \in Nat /\ s.keys \in Nat
           /\ s.stack \in Seq(Holders) /\ s.parsed \in Seq(Keys)
           /\ \A i \in 1..Len(s.stack) : s.stack[i] \in Holders
  <1>1. Cardinality(NamesHeld(s.stack)) \in Nat /\ Cardinality(ValuesBuilt(s.stack)) \in Nat
    BY FS_CardinalityType DEF Bounded
  <1>2. s.stack \in Seq(Holders) /\ s.parsed \in Seq(Keys)
        /\ s.members \in Nat /\ s.values \in Nat /\ s.keys \in Nat
    BY DEF Handles
  <1>3. Len(s.stack) \in Nat /\ Len(s.parsed) \in Nat
    BY <1>2, LenProperties
  <1> QED
    BY <1>1, <1>2, <1>3, ElementOfSeq

LEMMA PushSane ==
    ASSUME handler \in Handlers, NEW s \in Handles, Bounded(s), Room(s, 1),
           NEW kind \in {"object", "array", "root", "signatures", "entry", "keys", "key"},
           Len(s.stack) + 1 <= Deepest,
           handler = "jwks" => /\ kind = KeySetLevel[Len(s.stack) + 1]
                               /\ Len(s.stack) = 2 => Len(s.parsed) + 1 <= s.keys
    PROVE  Sane(Push(s, kind))
  <1> DEFINE t == Push(s, kind)
             m == Len(s.stack)
  <1>1. /\ t \in Handles /\ Len(t.stack) = m + 1
        /\ t.stack[m + 1] = Context(kind)
        /\ \A i \in 1..m : t.stack[i] = s.stack[i]
        /\ t.members = s.members /\ t.values = s.values /\ t.keys = s.keys
        /\ t.parsed = s.parsed /\ t.live = s.live
    BY OnePushed
  <1>2. Context(kind).members = {} /\ Context(kind).value = {} /\ Context(kind).kind = kind
    BY DEF Context
  <1>3. m \in Nat
    BY Counts
  <1> HIDE DEF t, m
  <1>4. NamesHeld(t.stack) \subseteq NamesHeld(s.stack)
    <2> SUFFICES ASSUME NEW p \in NamesHeld(t.stack) PROVE p \in NamesHeld(s.stack)
      OBVIOUS
    <2>1. PICK i \in 1..m + 1 : \E n \in t.stack[i].members : p = <<i, n>>
      BY <1>1, NameHeldAt
    <2>2. i \in 1..m
      BY <1>1, <1>2, <1>3, <2>1
    <2> QED
      BY <1>1, <2>1, <2>2, NameHeldAt DEF m
  <1>5. ValuesBuilt(t.stack) \subseteq ValuesBuilt(s.stack)
    <2> SUFFICES ASSUME NEW p \in ValuesBuilt(t.stack) PROVE p \in ValuesBuilt(s.stack)
      OBVIOUS
    <2>1. PICK i \in 1..m + 1 : \E v \in t.stack[i].value : p = <<i, v>>
      BY <1>1, ValueBuiltAt
    <2>2. i \in 1..m
      BY <1>1, <1>2, <1>3, <2>1
    <2> QED
      BY <1>1, <2>1, <2>2, ValueBuiltAt DEF m
  <1>6. /\ IsFiniteSet(NamesHeld(t.stack)) /\ Cardinality(NamesHeld(t.stack)) \in Nat
        /\ Cardinality(NamesHeld(t.stack)) <= Cardinality(NamesHeld(s.stack))
        /\ Cardinality(NamesHeld(s.stack)) \in Nat
    BY <1>4, NoMore DEF Bounded
  <1>7. /\ IsFiniteSet(ValuesBuilt(t.stack)) /\ Cardinality(ValuesBuilt(t.stack)) \in Nat
        /\ Cardinality(ValuesBuilt(t.stack)) <= Cardinality(ValuesBuilt(s.stack))
        /\ Cardinality(ValuesBuilt(s.stack)) \in Nat
    BY <1>5, NoMore DEF Bounded
  <1>8. Bounded(t)
    BY <1>1, <1>3, <1>6, <1>7, HandlerBounds DEF Bounded, m
  <1>9. Room(t, 0)
    <2>1. /\ Cardinality(NamesHeld(t.stack)) <= t.members /\ t.members <= MaxMembers[handler]
      BY <1>1, <1>6, Counts DEF Room
    <2>2. ASSUME handler \in Trees
          PROVE  /\ Cardinality(ValuesBuilt(t.stack)) + Len(t.stack) + 0 <= t.values
                 /\ t.values <= MaxValues[handler]
      BY <1>1, <1>3, <1>7, <2>2, Counts DEF Room, m
    <2>3. ASSUME handler \notin Trees, NEW i \in 1..Len(t.stack)
          PROVE  t.stack[i].value = {}
      BY <1>1, <1>2, <1>3, <2>3 DEF Room, m
    <2>4. ASSUME handler = "jwks"
          PROVE  /\ Len(t.stack) <= 3 /\ \A i \in 1..Len(t.stack) : t.stack[i].kind = KeySetLevel[i]
                 /\ Len(t.parsed) <= t.keys /\ t.keys <= MaxKeys
                 /\ Len(t.stack) = 3 => Len(t.parsed) + 1 <= t.keys
      <3>1. m + 1 <= 3
        BY <2>4 DEF Deepest, m
      <3>2. \A i \in 1..m + 1 : t.stack[i].kind = KeySetLevel[i]
        BY <1>1, <1>2, <1>3, <2>4 DEF Room, m
      <3>3. Len(s.parsed) <= s.keys /\ s.keys <= MaxKeys
        BY <2>4 DEF Room, m
      <3>4. m + 1 = 3 => Len(s.parsed) + 1 <= s.keys
        <4>1. m = 2 => Len(s.parsed) + 1 <= s.keys
          BY <2>4 DEF m
        <4> QED
          BY <1>3, <4>1
      <3> QED
        BY <1>1, <3>1, <3>2, <3>3, <3>4
    <2> QED
      BY <2>1, <2>2, <2>3, <2>4 DEF Room
  <1> QED
    BY <1>1, <1>8, <1>9 DEF Sane, t

LEMMA PopSane ==
    ASSUME handler \in Handlers, NEW s, Sane(s), s.live, s.stack # <<>>
    PROVE  LET t == Pop(s) IN
           /\ t \in Handles /\ Bounded(t) /\ Room(t, 0) /\ t.live
           /\ t = [s EXCEPT !.stack = t.stack]
           /\ Len(t.stack) = Len(s.stack) - 1
           /\ \A i \in 1..Len(s.stack) - 1 : t.stack[i] = s.stack[i]
           /\ t.values = s.values /\ t.parsed = s.parsed /\ t.keys = s.keys
  <1> DEFINE t == Pop(s)
             m == Len(s.stack)
  <1>0. s \in Handles /\ Bounded(s) /\ Room(s, 0)
    BY DEF Sane
  <1>1. /\ t \in Handles /\ Len(t.stack) = m - 1
        /\ t = [s EXCEPT !.stack = t.stack]
        /\ \A i \in 1..m - 1 : t.stack[i] = s.stack[i]
        /\ t.members = s.members /\ t.values = s.values /\ t.keys = s.keys
        /\ t.parsed = s.parsed /\ t.live = s.live
    BY <1>0, OnePopped
  <1>3. m \in Nat
    BY <1>0, Counts
  <1> HIDE DEF t, m
  <1>4. NamesHeld(t.stack) \subseteq NamesHeld(s.stack)
    <2> SUFFICES ASSUME NEW p \in NamesHeld(t.stack) PROVE p \in NamesHeld(s.stack)
      OBVIOUS
    <2>1. PICK i \in 1..m - 1 : \E n \in t.stack[i].members : p = <<i, n>>
      BY <1>1, NameHeldAt
    <2>2. i \in 1..m
      BY <1>3, <2>1
    <2> QED
      BY <1>1, <2>1, <2>2, NameHeldAt DEF m
  <1>5. ValuesBuilt(t.stack) \subseteq ValuesBuilt(s.stack)
    <2> SUFFICES ASSUME NEW p \in ValuesBuilt(t.stack) PROVE p \in ValuesBuilt(s.stack)
      OBVIOUS
    <2>1. PICK i \in 1..m - 1 : \E v \in t.stack[i].value : p = <<i, v>>
      BY <1>1, ValueBuiltAt
    <2>2. i \in 1..m
      BY <1>3, <2>1
    <2> QED
      BY <1>1, <2>1, <2>2, ValueBuiltAt DEF m
  <1>6. /\ IsFiniteSet(NamesHeld(t.stack)) /\ Cardinality(NamesHeld(t.stack)) \in Nat
        /\ Cardinality(NamesHeld(t.stack)) <= Cardinality(NamesHeld(s.stack))
        /\ Cardinality(NamesHeld(s.stack)) \in Nat
    BY <1>0, <1>4, NoMore DEF Bounded
  <1>7. /\ IsFiniteSet(ValuesBuilt(t.stack)) /\ Cardinality(ValuesBuilt(t.stack)) \in Nat
        /\ Cardinality(ValuesBuilt(t.stack)) <= Cardinality(ValuesBuilt(s.stack))
        /\ Cardinality(ValuesBuilt(s.stack)) \in Nat
    BY <1>0, <1>5, NoMore DEF Bounded
  <1>8. Bounded(t)
    BY <1>0, <1>1, <1>3, <1>6, <1>7, HandlerBounds DEF Bounded, m
  <1>9. Room(t, 0)
    <2>1. /\ Cardinality(NamesHeld(t.stack)) <= t.members /\ t.members <= MaxMembers[handler]
      BY <1>0, <1>1, <1>6, Counts DEF Room
    <2>2. ASSUME handler \in Trees
          PROVE  /\ Cardinality(ValuesBuilt(t.stack)) + Len(t.stack) + 0 <= t.values
                 /\ t.values <= MaxValues[handler]
      BY <1>0, <1>1, <1>3, <1>7, <2>2, Counts DEF Room, m
    <2>3. ASSUME handler \notin Trees, NEW i \in 1..Len(t.stack)
          PROVE  t.stack[i].value = {}
      BY <1>0, <1>1, <1>3, <2>3 DEF Room, m
    <2>4. ASSUME handler = "jwks"
          PROVE  /\ Len(t.stack) <= 3 /\ \A i \in 1..Len(t.stack) : t.stack[i].kind = KeySetLevel[i]
                 /\ Len(t.parsed) <= t.keys /\ t.keys <= MaxKeys
                 /\ Len(t.stack) = 3 => Len(t.parsed) + 1 <= t.keys
      <3>1. m <= 3
        BY <1>0, <2>4 DEF Room, m
      <3>2. \A i \in 1..m - 1 : t.stack[i].kind = KeySetLevel[i]
        BY <1>0, <1>1, <1>3, <2>4 DEF Room, m
      <3>3. Len(s.parsed) <= s.keys /\ s.keys <= MaxKeys
        BY <1>0, <2>4 DEF Room, m
      <3>4. m - 1 <= 3 /\ m - 1 # 3
        BY <1>3, <3>1
      <3> QED
        BY <1>1, <3>2, <3>3, <3>4
    <2> QED
      BY <2>1, <2>2, <2>3, <2>4 DEF Room
  <1> QED
    BY <1>1, <1>8, <1>9 DEF t, m

LEMMA TopSane ==
    ASSUME handler \in Handlers, NEW s \in Handles, Bounded(s), NEW new \in {0, 1}, Room(s, new),
           s.stack # <<>>, NEW c \in Holders,
           c.kind = Top(s).kind, c.members = Top(s).members, c.value = Top(s).value
    PROVE  LET t == SetTop(s, c) IN
           t \in Handles /\ Bounded(t) /\ Room(t, new)
  <1> DEFINE t == SetTop(s, c)
             m == Len(s.stack)
  <1>1. /\ t \in Handles /\ Len(t.stack) = m /\ t.stack[m] = c
        /\ \A i \in 1..m - 1 : t.stack[i] = s.stack[i]
        /\ t.members = s.members /\ t.values = s.values /\ t.keys = s.keys
        /\ t.parsed = s.parsed /\ t.live = s.live
    BY TopReplaced
  <1>2. m \in Nat /\ m \in 1..m /\ Top(s) = s.stack[m]
    BY InnermostSane
  <1> HIDE DEF t, m
  <1>3. \A i \in 1..m : /\ t.stack[i].kind = s.stack[i].kind
                        /\ t.stack[i].members = s.stack[i].members
                        /\ t.stack[i].value = s.stack[i].value
    <2> TAKE i \in 1..m
    <2>1. CASE i = m
      BY <1>1, <1>2, <2>1
    <2>2. CASE i # m
      BY <1>1, <1>2, <2>2
    <2> QED
      BY <2>1, <2>2
  <1>4. NamesHeld(t.stack) = NamesHeld(s.stack)
    <2>1. \A p : p \in NamesHeld(t.stack) <=> p \in NamesHeld(s.stack)
      BY <1>1, <1>3, NameHeldAt DEF m
    <2> QED
      BY <2>1
  <1>5. ValuesBuilt(t.stack) = ValuesBuilt(s.stack)
    <2>1. \A p : p \in ValuesBuilt(t.stack) <=> p \in ValuesBuilt(s.stack)
      BY <1>1, <1>3, ValueBuiltAt DEF m
    <2> QED
      BY <2>1
  <1>6. Bounded(t)
    BY <1>1, <1>4, <1>5 DEF Bounded, m
  <1>7. Room(t, new)
    BY <1>1, <1>3, <1>4, <1>5 DEF Room, m
  <1> QED
    BY <1>1, <1>6, <1>7 DEF t


(* key(): the counted name makes room for itself.                          *)
LEMMA CountsMember ==
    ASSUME handler \in Handlers, NEW s, Sane(s), s.live, NEW name, NEW bounded
    PROVE  LET t == CountMember(s, name, bounded) IN
           /\ Sane(t) /\ t.stack = s.stack
           /\ t.live => Room(t, 0) /\ Cardinality(NamesHeld(t.stack)) + 1 <= t.members
  <1> DEFINE u == [s EXCEPT !.members = @ + 1]
             fits == u.members <= MaxMembers[handler] /\ ~(bounded /\ name \in LongNames)
  <1>1. s \in Handles /\ Bounded(s) /\ Room(s, 0)
    BY DEF Sane
  <1>2. s.members \in Nat /\ Cardinality(NamesHeld(s.stack)) \in Nat
    BY <1>1, Counts
  <1>3. /\ u \in Handles /\ u.stack = s.stack /\ u.parsed = s.parsed /\ u.values = s.values
        /\ u.members = s.members + 1 /\ u.keys = s.keys /\ u.live = s.live
    <2>1. s.members + 1 \in Nat
      BY <1>2
    <2> QED
      BY <1>1, <2>1 DEF Handles
  <1>4. CountMember(s, name, bounded) = IF fits THEN u ELSE Fail(u, Limit)
    BY DEF CountMember, Require
  <1> HIDE DEF u
  <1>5. Bounded(u)
    BY <1>1, <1>3 DEF Bounded
  <1>6. CASE fits
    <2>1. Cardinality(NamesHeld(u.stack)) + 1 <= u.members
      BY <1>1, <1>2, <1>3 DEF Room
    <2>2. Cardinality(NamesHeld(u.stack)) <= u.members
      BY <1>2, <1>3, <2>1
    <2>3. Room(u, 0)
      BY <1>1, <1>3, <1>6, <2>2 DEF Room
    <2> QED
      BY <1>3, <1>4, <1>5, <1>6, <2>1, <2>3 DEF Sane
  <1>7. CASE ~fits
    <2>1. CountMember(s, name, bounded) = Fail(u, Limit)
      BY <1>4, <1>7
    <2>2. Sane(Fail(u, Limit)) /\ ~Fail(u, Limit).live
      BY <1>3, <1>5, FailsSane
    <2>3. Fail(u, Limit).stack = u.stack
      BY <1>3 DEF Fail, Silent, Handles
    <2> QED
      BY <1>3, <2>1, <2>2, <2>3
  <1> QED
    BY <1>6, <1>7

LEMMA InsertSane ==
    ASSUME handler \in Handlers, NEW s, Sane(s), s.live, s.stack # <<>>,
           NEW name \in Labels, NEW bounded, NEW kind \in {Limit, Default(handler)}
    PROVE  LET t == CountMember(s, name, bounded) IN
           Sane(IF t.live THEN InsertMember(t, name, kind) ELSE t)
  <1> DEFINE u == CountMember(s, name, bounded)
  <1>1. /\ Sane(u) /\ u.stack # <<>>
        /\ u.live => Room(u, 0) /\ Cardinality(NamesHeld(u.stack)) + 1 <= u.members
    BY CountsMember
  <1> HIDE DEF u
  <1>2. u \in Handles /\ Bounded(u)
    BY <1>1 DEF Sane
  <1>3. CASE ~u.live
    BY <1>1, <1>3 DEF u
  <1>4. CASE u.live /\ name \in Top(u).members
    <2>1. InsertMember(u, name, kind) = Fail(u, kind)
      BY <1>4 DEF InsertMember
    <2> QED
      BY <1>2, <1>4, <2>1, FailsSane DEF u
  <1>5. CASE u.live /\ name \notin Top(u).members
    <2> DEFINE c == [Top(u) EXCEPT !.members = @ \cup {name}, !.pending = <<name>>]
               t == SetTop(u, c)
               m == Len(u.stack)
    <2>1. InsertMember(u, name, kind) = t
      BY <1>5 DEF InsertMember
    <2>2. m \in Nat /\ m \in 1..m /\ Top(u) = u.stack[m] /\ Top(u) \in Holders
      BY <1>1, <1>2, InnermostSane
    <2>3. /\ c \in Holders /\ c.kind = Top(u).kind /\ c.value = Top(u).value
          /\ c.members = Top(u).members \cup {name}
      <3>1. <<name>> \in {p \in Paths : Len(p) <= 1}
        BY DEF Paths
      <3> QED
        BY <2>2, <3>1 DEF Holders
    <2> HIDE DEF c
    <2>4. /\ t \in Handles /\ Len(t.stack) = m /\ t.stack[m] = c
          /\ \A i \in 1..m - 1 : t.stack[i] = u.stack[i]
          /\ t.members = u.members /\ t.values = u.values /\ t.keys = u.keys
          /\ t.parsed = u.parsed /\ t.live = u.live
      BY <1>1, <1>2, <2>3, TopReplaced
    <2> HIDE DEF t, m
    <2>5. \A i \in 1..m : /\ t.stack[i].kind = u.stack[i].kind
                          /\ t.stack[i].value = u.stack[i].value
                          /\ \A n \in t.stack[i].members :
                               n \in u.stack[i].members \/ (i = m /\ n = name)
      <3>1. \A i \in 1..m : t.stack[i] = IF i = m THEN c ELSE u.stack[i]
        BY <2>2, <2>4
      <3> QED
        BY <2>2, <2>3, <3>1
    <2>6. NamesHeld(t.stack) \subseteq NamesHeld(u.stack) \cup {<<m, name>>}
      <3> SUFFICES ASSUME NEW p \in NamesHeld(t.stack), p # <<m, name>>
                   PROVE  p \in NamesHeld(u.stack)
        OBVIOUS
      <3>1. PICK i \in 1..m : \E n \in t.stack[i].members : p = <<i, n>>
        BY <2>4, NameHeldAt
      <3> QED
        BY <2>5, <3>1, NameHeldAt DEF m
    <2>7. ValuesBuilt(t.stack) = ValuesBuilt(u.stack)
      <3>1. \A p : p \in ValuesBuilt(t.stack) <=> p \in ValuesBuilt(u.stack)
        BY <2>4, <2>5, ValueBuiltAt DEF m
      <3> QED
        BY <3>1
    <2>8. /\ IsFiniteSet(NamesHeld(t.stack)) /\ Cardinality(NamesHeld(t.stack)) \in Nat
          /\ Cardinality(NamesHeld(t.stack)) <= Cardinality(NamesHeld(u.stack)) + 1
          /\ Cardinality(NamesHeld(u.stack)) \in Nat
      BY <1>2, <2>6, OneMore DEF Bounded
    <2>9. Cardinality(NamesHeld(t.stack)) <= t.members /\ t.members <= MaxMembers[handler]
      <3>1. u.members <= MaxMembers[handler] /\ u.members \in Nat
        BY <1>1, <1>2, <1>5, Counts DEF Room
      <3> QED
        BY <1>1, <1>5, <2>4, <2>8, <3>1
    <2>10. Bounded(t)
      <3>1. Cardinality(NamesHeld(t.stack)) <= MaxMembers[handler]
        BY <1>2, <2>4, <2>8, <2>9, Counts, HandlerBounds
      <3> QED
        BY <1>2, <2>4, <2>7, <2>8, <3>1 DEF Bounded, m
    <2>11. Room(t, 0)
      BY <1>1, <1>5, <2>4, <2>5, <2>7, <2>9 DEF Room, m
    <2> QED
      BY <1>5, <2>1, <2>4, <2>10, <2>11 DEF Sane, u, t
  <1> QED
    BY <1>3, <1>4, <1>5

(* The value of a context, one more, filled into the context around it.    *)
LEMMA AttachSane ==
    ASSUME handler \in Trees, NEW s \in Handles, Bounded(s), s.live, Room(s, 0), s.stack # <<>>,
           NEW V \in SUBSET Entry, IsFiniteSet(V),
           Cardinality(V) + Cardinality(ValuesBuilt(s.stack)) + Len(s.stack) <= s.values
    PROVE  Sane(Attach(s, V))
  <1> DEFINE top == Top(s)
             m == Len(s.stack)
  <1>0. handler \in Handlers /\ handler # "jwks"
    BY DEF Handlers, Trees
  <1>1. m \in Nat /\ m \in 1..m /\ top = s.stack[m] /\ top \in Holders
    BY <1>0, InnermostSane
  <1>2. ASSUME NEW name \in Labels, NEW c \in Holders, c.members = top.members,
               c.value = Without(top.value, name) \cup Under(name, V)
        PROVE  Sane(SetTop(s, c))
    <2> DEFINE t == SetTop(s, c)
               U == {<<m, v>> : v \in Under(name, V)}
    <2>1. /\ t \in Handles /\ Len(t.stack) = m /\ t.stack[m] = c
          /\ \A i \in 1..m - 1 : t.stack[i] = s.stack[i]
          /\ t.members = s.members /\ t.values = s.values /\ t.keys = s.keys
          /\ t.parsed = s.parsed /\ t.live = s.live
      BY <1>0, TopReplaced
    <2>2. IsFiniteSet(U) /\ Cardinality(U) <= Cardinality(V)
          /\ Cardinality(U) \in Nat /\ Cardinality(V) \in Nat
      <3> DEFINE g == [v \in V |-> <<m, [v EXCEPT !.path = <<name>> \o @]>>]
      <3>1. \A y \in U : \E x \in V : y = g[x]
        BY DEF Under
      <3> HIDE DEF g, U
      <3> QED
        BY <3>1, ImageIsSmall
    <2> HIDE DEF t, m
    <2>3. \A i \in 1..m : /\ t.stack[i].members = s.stack[i].members
                          /\ \A v \in t.stack[i].value :
                               v \in s.stack[i].value \/ (i = m /\ v \in Under(name, V))
      <3>1. \A i \in 1..m : t.stack[i] = IF i = m THEN c ELSE s.stack[i]
        BY <1>1, <2>1
      <3>2. \A v \in c.value : v \in top.value \/ v \in Under(name, V)
        BY <1>2 DEF Without
      <3> QED
        BY <1>1, <1>2, <3>1, <3>2
    <2>4. NamesHeld(t.stack) = NamesHeld(s.stack)
      <3>1. \A p : p \in NamesHeld(t.stack) <=> p \in NamesHeld(s.stack)
        BY <2>1, <2>3, NameHeldAt DEF m
      <3> QED
        BY <3>1
    <2>5. ValuesBuilt(t.stack) \subseteq ValuesBuilt(s.stack) \cup U
      <3> SUFFICES ASSUME NEW p \in ValuesBuilt(t.stack), p \notin U
                   PROVE  p \in ValuesBuilt(s.stack)
        OBVIOUS
      <3>1. PICK i \in 1..m : \E v \in t.stack[i].value : p = <<i, v>>
        BY <2>1, ValueBuiltAt
      <3>2. PICK v \in t.stack[i].value : p = <<i, v>>
        BY <3>1
      <3>3. v \in s.stack[i].value
        BY <2>3, <3>2
      <3> QED
        BY <3>2, <3>3, ValueBuiltAt DEF m
    <2>6. /\ IsFiniteSet(ValuesBuilt(t.stack)) /\ Cardinality(ValuesBuilt(t.stack)) \in Nat
          /\ Cardinality(ValuesBuilt(t.stack)) <= Cardinality(ValuesBuilt(s.stack)) + Cardinality(V)
      <3> HIDE DEF U
      <3>1. IsFiniteSet(ValuesBuilt(s.stack)) /\ Cardinality(ValuesBuilt(s.stack)) \in Nat
        BY <1>0, Counts DEF Bounded
      <3>2. IsFiniteSet(ValuesBuilt(s.stack) \cup U) /\ IsFiniteSet(ValuesBuilt(s.stack) \cap U)
            /\ Cardinality(ValuesBuilt(s.stack) \cup U)
                 = Cardinality(ValuesBuilt(s.stack)) + Cardinality(U) - Cardinality(ValuesBuilt(s.stack) \cap U)
        BY <2>2, <3>1, FS_Union, FS_Intersection
      <3>3. Cardinality(ValuesBuilt(s.stack) \cap U) \in Nat
        BY <3>2, FS_CardinalityType
      <3>4. /\ IsFiniteSet(ValuesBuilt(t.stack)) /\ Cardinality(ValuesBuilt(t.stack)) \in Nat
            /\ Cardinality(ValuesBuilt(t.stack)) <= Cardinality(ValuesBuilt(s.stack) \cup U)
        BY <2>5, <3>2, NoMore
      <3> QED
        BY <2>2, <3>1, <3>2, <3>3, <3>4
    <2>7. /\ Cardinality(ValuesBuilt(t.stack)) + Len(t.stack) + 0 <= t.values
          /\ t.values <= MaxValues[handler] /\ t.values \in Nat
      <3>1. Cardinality(ValuesBuilt(s.stack)) \in Nat /\ s.values \in Nat
        BY <1>0, Counts
      <3>2. s.values <= MaxValues[handler]
        BY DEF Room
      <3> QED
        BY <1>1, <2>1, <2>2, <2>6, <3>1, <3>2 DEF m
    <2>8. Cardinality(ValuesBuilt(t.stack)) <= MaxValues[handler]
      BY <1>0, <1>1, <2>1, <2>6, <2>7, HandlerBounds DEF m
    <2>9. Bounded(t)
      BY <2>1, <2>4, <2>6, <2>8 DEF Bounded, m
    <2>10. Room(t, 0)
      BY <1>0, <2>1, <2>4, <2>7 DEF Room, m
    <2> QED
      BY <2>1, <2>9, <2>10 DEF Sane, t
  <1>3. CASE top.kind = "array"
    <2>1. ToString(top.items) \in Labels /\ top.items + 1 \in Nat
      BY <1>1, IndexIsLabel DEF Holders
    <2> DEFINE W == Without(top.value, ToString(top.items)) \cup Under(ToString(top.items), V)
               c == [top EXCEPT !.value = W, !.items = @ + 1]
    <2>2. W \subseteq Below
      BY <1>1, <2>1, UnderName, WithoutName DEF Holders
    <2> HIDE DEF W
    <2>3. c \in Holders /\ c.members = top.members /\ c.value = W
      BY <1>1, <2>1, <2>2 DEF Holders
    <2>4. Attach(s, V) = SetTop(s, c)
      BY <1>3 DEF Attach, W
    <2> HIDE DEF c
    <2> QED
      BY <1>2, <2>1, <2>3, <2>4 DEF W
  <1>4. CASE top.kind # "array" /\ top.pending = <<>>
    <2>1. Attach(s, V) = Fail(s, Malformed)
      BY <1>4 DEF Attach
    <2> QED
      BY <1>0, <2>1, FailsSane DEF Default
  <1>5. CASE top.kind # "array" /\ top.pending # <<>>
    <2> DEFINE name == Head(top.pending)
               W == Without(top.value, name) \cup Under(name, V)
               c == [top EXCEPT !.value = W, !.pending = <<>>]
    <2>1. name \in Labels
      <3>1. top.pending \in Seq(Labels)
        BY <1>1 DEF Holders, Paths
      <3> QED
        BY <1>5, <3>1
    <2>2. Attach(s, V) = SetTop(s, c)
      BY <1>5 DEF Attach
    <2> HIDE DEF name
    <2>3. W \subseteq Below
      BY <1>1, <2>1, UnderName, WithoutName DEF Holders
    <2> HIDE DEF W
    <2>4. c \in Holders /\ c.members = top.members /\ c.value = W
      <3>1. <<>> \in {p \in Paths : Len(p) <= 1}
        BY DEF Paths
      <3> QED
        BY <1>1, <2>3, <3>1 DEF Holders
    <2> HIDE DEF c
    <2> QED
      BY <1>2, <2>1, <2>2, <2>4 DEF W
  <1> QED
    BY <1>3, <1>4, <1>5


-----------------------------------------------------------------------------
(* The callbacks of the tree readers.                                      *)

LEMMA TreeStartSane ==
    ASSUME handler \in Trees, NEW s, Sane(s), s.live, NEW kind \in {"object", "array"}
    PROVE  Sane(TreeStart(s, kind))
  <1> DEFINE t == CountValue(s)
  <1>0. handler \in Handlers /\ handler # "jwks"
    BY DEF Handlers, Trees
  <1>1. Sane(t) /\ t.stack = s.stack /\ (t.live => Room(t, 1))
    BY <1>0, CountsValue
  <1>2. t \in Handles /\ Bounded(t) /\ s \in Handles /\ Bounded(s)
    BY <1>1 DEF Sane
  <1>3. Len(t.stack) \in Nat
    BY <1>0, <1>2, Counts
  <1>4. Deepest = MaxDepth[handler] /\ Deepest \in Nat \ {0}
    BY <1>0, HandlerBounds DEF Deepest
  <1>5. Malformed = Default(handler)
    BY <1>0 DEF Default
  <1>6. ASSUME t.live, t.stack # <<>>
        PROVE  Sane(IF TooDeep(t) THEN DepthFailure(t)
                    ELSE IF ~ParentReady(t) THEN Fail(t, Malformed) ELSE Push(t, kind))
    <2>1. CASE TooDeep(t)
      BY <1>2, <2>1, FailsSane DEF DepthFailure
    <2>2. CASE ~TooDeep(t) /\ ~ParentReady(t)
      BY <1>2, <1>5, <2>2, FailsSane
    <2>3. CASE ~TooDeep(t) /\ ParentReady(t)
      <3>1. Len(t.stack) + 1 <= Deepest
        BY <1>3, <1>4, <2>3 DEF TooDeep
      <3>2. Sane(Push(t, kind))
        BY <1>0, <1>1, <1>2, <1>6, <3>1, PushSane
      <3> QED
        BY <2>3, <3>2
    <2> QED
      BY <2>1, <2>2, <2>3
  <1>7. ASSUME t.live, t.stack = <<>>
        PROVE  Sane(Push(t, kind))
    <2>1. Len(t.stack) + 1 <= Deepest
      BY <1>4, <1>7
    <2> QED
      BY <1>0, <1>1, <1>2, <1>7, <2>1, PushSane
  <1>8. Sane(Fail(s, Malformed)) /\ Sane(Silent(s))
    BY <1>2, <1>5, FailsSane
  <1> HIDE DEF t
  <1>9. CASE s.stack # <<>>
    <2>1. TreeStart(s, kind) =
            IF t.live THEN IF TooDeep(t) THEN DepthFailure(t)
                           ELSE IF ~ParentReady(t) THEN Fail(t, Malformed) ELSE Push(t, kind)
            ELSE t
      BY <1>9 DEF TreeStart, Then, t
    <2> QED
      BY <1>1, <1>6, <1>9, <2>1
  <1>10. CASE s.stack = <<>>
    <2>1. TreeStart(s, kind) =
            IF kind = "object" THEN IF t.live THEN Push(t, kind) ELSE t
            ELSE IF handler = "object" THEN Fail(s, Malformed) ELSE Silent(s)
      BY <1>10 DEF TreeStart, Then, t
    <2> QED
      BY <1>1, <1>7, <1>8, <1>10, <2>1
  <1> QED
    BY <1>9, <1>10

LEMMA TreeScalarSane ==
    ASSUME handler \in Trees, NEW s, Sane(s), s.live,
           NEW kind \in Kinds, NEW text \in Strings
    PROVE  Sane(TreeScalar(s, kind, text))
  <1> DEFINE t == CountValue(s)
             e == [path |-> <<>>, kind |-> kind, text |-> text]
  <1>0. handler \in Handlers
    BY DEF Handlers
  <1>1. Sane(t) /\ (t.live => Room(t, 1))
    BY <1>0, CountsValue
  <1>2. t \in Handles /\ Bounded(t)
    BY <1>1 DEF Sane
  <1>3. e \in Entry
    BY DEF Entry, Paths
  <1> HIDE DEF t, e
  <1>4. {e} \in SUBSET Entry /\ IsFiniteSet({e}) /\ Cardinality({e}) = 1
    BY <1>3, FS_Singleton
  <1>5. TreeScalar(s, kind, text) =
          IF t.live THEN IF t.stack = <<>> THEN Silent(t) ELSE Attach(t, {e}) ELSE t
    BY DEF TreeScalar, Then, t, e
  <1>6. ASSUME t.live, t.stack # <<>>
        PROVE  Sane(Attach(t, {e}))
    <2>1. 1 + Cardinality(ValuesBuilt(t.stack)) + Len(t.stack) <= t.values
      BY <1>0, <1>1, <1>2, <1>6, Counts DEF Room
    <2>2. Room(t, 0)
      BY <1>1, <1>6 DEF Sane
    <2> QED
      BY <1>2, <1>4, <1>6, <2>1, <2>2, AttachSane
  <1>7. Sane(Silent(t))
    BY <1>2, FailsSane
  <1> QED
    BY <1>1, <1>5, <1>6, <1>7

LEMMA TreeKeySane ==
    ASSUME handler \in Trees, NEW s, Sane(s), s.live, NEW name \in Labels
    PROVE  Sane(TreeKey(s, name))
  <1> DEFINE t == CountMember(s, name, TRUE)
  <1>0. handler \in Handlers /\ Malformed = Default(handler)
    BY DEF Handlers, Trees, Default
  <1>1. CASE InKind(s, "object")
    <2>1. s.stack # <<>>
      BY <1>1 DEF InKind
    <2>2. Sane(IF t.live THEN InsertMember(t, name, Malformed) ELSE t)
      BY <1>0, <2>1, InsertSane
    <2> QED
      BY <1>1, <2>2 DEF TreeKey, Then
  <1>2. CASE ~InKind(s, "object")
    <2>1. TreeKey(s, name) = Fail(s, Malformed)
      BY <1>2 DEF TreeKey
    <2> QED
      BY <1>0, <2>1, FailsSane DEF Sane
  <1> QED
    BY <1>1, <1>2

(* What the ended context built goes, with the context itself, in the room *)
(* that the two had.                                                       *)
LEMMA TreeEndSane ==
    ASSUME handler \in Trees, NEW s, Sane(s), s.live, NEW kind \in {"object", "array"}
    PROVE  Sane(TreeEnd(s, kind))
  <1> DEFINE own == [path |-> <<>>, kind |-> kind, text |-> NoText]
             whole == Top(s).value \cup {own}
             t == Pop(s)
             n == Len(s.stack)
  <1>0. handler \in Handlers /\ Malformed = Default(handler)
    BY DEF Handlers, Trees, Default
  <1>1. s \in Handles /\ Bounded(s) /\ Room(s, 0)
    BY DEF Sane
  <1>2. CASE ~InKind(s, kind) \/ (kind = "object" /\ Top(s).pending # <<>>)
    <2>1. TreeEnd(s, kind) = Fail(s, Malformed)
      BY <1>2 DEF TreeEnd
    <2> QED
      BY <1>0, <1>1, <2>1, FailsSane
  <1>3. ASSUME InKind(s, kind), ~(kind = "object" /\ Top(s).pending # <<>>)
        PROVE  Sane(TreeEnd(s, kind))
    <2>1. s.stack # <<>>
      BY <1>3 DEF InKind
    <2>2. /\ t \in Handles /\ Bounded(t) /\ Room(t, 0) /\ t.live
          /\ Len(t.stack) = n - 1
          /\ \A i \in 1..n - 1 : t.stack[i] = s.stack[i]
          /\ t.values = s.values
      BY <1>0, <2>1, PopSane
    <2>3. n \in Nat /\ n \in 1..n /\ Top(s) = s.stack[n] /\ Top(s) \in Holders
      BY <1>0, <1>1, <2>1, InnermostSane
    <2>4. own \in Entry
      BY DEF Entry, Paths, Kinds, Strings
    <2>5. Top(s).value \in SUBSET Below
      BY <2>3 DEF Holders
    <2> HIDE DEF own, t, n
    <2>6. whole \in SUBSET Entry
      BY <2>4, <2>5, BelowIsEntry
    <2>7. TreeEnd(s, kind) = IF n = 1 THEN [t EXCEPT !.complete = TRUE, !.root = whole]
                             ELSE Attach(t, whole)
      BY <1>3 DEF TreeEnd, n, t, own
    <2> DEFINE mine == {<<n, v>> : v \in s.stack[n].value}
    <2>8. mine \subseteq ValuesBuilt(s.stack) /\ ValuesBuilt(t.stack) \subseteq ValuesBuilt(s.stack)
          /\ mine \cap ValuesBuilt(t.stack) = {}
      <3>1. mine \subseteq ValuesBuilt(s.stack)
        BY <2>3, ValueBuiltAt DEF n
      <3>2. ASSUME NEW p \in ValuesBuilt(t.stack)
            PROVE  p \in ValuesBuilt(s.stack) /\ p \notin mine
        <4>1. PICK i \in 1..n - 1 : \E v \in t.stack[i].value : p = <<i, v>>
          BY <2>2, ValueBuiltAt
        <4>2. i \in 1..n /\ i # n /\ t.stack[i] = s.stack[i]
          BY <2>2, <2>3, <4>1
        <4> QED
          BY <4>1, <4>2, ValueBuiltAt DEF n
      <3> QED
        BY <3>1, <3>2
    <2> HIDE DEF mine
    <2>9. IsFiniteSet(mine) /\ Cardinality(mine) \in Nat
          /\ IsFiniteSet(ValuesBuilt(t.stack)) /\ Cardinality(ValuesBuilt(t.stack)) \in Nat
          /\ Cardinality(mine) + Cardinality(ValuesBuilt(t.stack)) <= Cardinality(ValuesBuilt(s.stack))
          /\ Cardinality(ValuesBuilt(s.stack)) \in Nat
      <3>1. IsFiniteSet(ValuesBuilt(s.stack))
        BY <1>1 DEF Bounded
      <3>2. /\ IsFiniteSet(mine) /\ Cardinality(mine) \in Nat
            /\ IsFiniteSet(ValuesBuilt(t.stack)) /\ Cardinality(ValuesBuilt(t.stack)) \in Nat
        BY <2>8, <3>1, NoMore
      <3>3. Cardinality(mine \cup ValuesBuilt(t.stack))
              = Cardinality(mine) + Cardinality(ValuesBuilt(t.stack)) - Cardinality({})
        BY <2>8, <3>2, FS_Union
      <3>4. Cardinality(mine \cup ValuesBuilt(t.stack)) <= Cardinality(ValuesBuilt(s.stack))
            /\ Cardinality(ValuesBuilt(s.stack)) \in Nat
        BY <2>8, <3>1, NoMore
      <3>5. Cardinality({}) = 0
        BY FS_EmptySet
      <3> QED
        BY <3>2, <3>3, <3>4, <3>5
    <2>10. IsFiniteSet(whole) /\ Cardinality(whole) <= Cardinality(mine) + 1
           /\ Cardinality(whole) \in Nat
      <3> DEFINE g == [p \in mine |-> p[2]]
                 value == Top(s).value
      <3>1. \A y \in value : \E x \in mine : y = g[x]
        <4> TAKE y \in value
        <4>1. <<n, y>> \in mine
          BY <2>3 DEF mine
        <4>2. g[<<n, y>>] = y
          BY <4>1
        <4> QED
          BY <4>1, <4>2
      <3> HIDE DEF g, value
      <3>2. IsFiniteSet(value) /\ Cardinality(value) <= Cardinality(mine)
            /\ Cardinality(value) \in Nat
        BY <2>9, <3>1, ImageIsSmall
      <3>3. IsFiniteSet(value \cup {own}) /\ Cardinality(value \cup {own}) <= Cardinality(value) + 1
            /\ Cardinality(value \cup {own}) \in Nat
        BY <3>2, OneMore
      <3> QED
        BY <2>9, <3>2, <3>3 DEF value
    <2> HIDE DEF whole
    <2>11. CASE n = 1
      <3> DEFINE r == [t EXCEPT !.complete = TRUE, !.root = whole]
      <3>1. whole \in SUBSET [path : Seq(Spots), kind : Kinds, text : Strings]
        <4>1. Seq(Labels) \subseteq Seq(Spots)
          BY DEF Spots
        <4> QED
          BY <2>6, <4>1 DEF Entry, Paths
      <3>2. /\ r \in Handles /\ r.stack = t.stack /\ r.members = t.members
            /\ r.values = t.values /\ r.keys = t.keys /\ r.parsed = t.parsed
        BY <2>2, <3>1 DEF Handles
      <3> HIDE DEF r
      <3>3. Bounded(r) /\ Room(r, 0)
        BY <2>2, <3>2 DEF Bounded, Room
      <3> QED
        BY <2>7, <2>11, <3>2, <3>3 DEF Sane, r
    <2>12. CASE n # 1
      <3>1. t.stack # <<>>
        BY <2>2, <2>3, <2>12
      <3>2. Cardinality(whole) + Cardinality(ValuesBuilt(t.stack)) + Len(t.stack) <= t.values
        <4>1. Cardinality(ValuesBuilt(s.stack)) + n + 0 <= s.values /\ s.values \in Nat
          BY <1>0, <1>1, Counts DEF Room, n
        <4> QED
          BY <2>2, <2>3, <2>9, <2>10, <4>1
      <3> QED
        BY <2>2, <2>6, <2>7, <2>10, <2>12, <3>1, <3>2, AttachSane
    <2> QED
      BY <2>11, <2>12
  <1> QED
    BY <1>2, <1>3


-----------------------------------------------------------------------------
(* The callbacks of CoreEnvelopeSax.                                       *)

(* The handler once the awaited value has come, whatever it notes of it.   *)
LEMMA TakenSane ==
    ASSUME handler \in Handlers, NEW s \in Handles, Bounded(s), NEW new \in {0, 1}, Room(s, new),
           s.stack # <<>>, NEW w \in Handles, w.stack = s.stack, w.members = s.members,
           w.values = s.values, w.keys = s.keys, w.parsed = s.parsed, w.live = s.live
    PROVE  LET t == SetTop(w, [Top(s) EXCEPT !.pending = <<>>]) IN
           /\ t \in Handles /\ Bounded(t) /\ Room(t, new) /\ t.live = s.live
           /\ Len(t.stack) = Len(s.stack) /\ t.parsed = s.parsed /\ t.keys = s.keys
  <1> DEFINE c == [Top(s) EXCEPT !.pending = <<>>]
  <1>1. Bounded(w) /\ Room(w, new) /\ Top(w) = Top(s)
    BY DEF Bounded, Room, Top
  <1>2. c \in Holders /\ c.kind = Top(s).kind /\ c.members = Top(s).members
        /\ c.value = Top(s).value
    <2>1. <<>> \in {p \in Paths : Len(p) <= 1}
      BY DEF Paths
    <2>2. Top(s) \in Holders
      BY InnermostSane
    <2> QED
      BY <2>1, <2>2 DEF Holders
  <1> HIDE DEF c
  <1>3. SetTop(w, c) \in Handles /\ Bounded(SetTop(w, c)) /\ Room(SetTop(w, c), new)
    BY <1>1, <1>2, TopSane
  <1>4. /\ SetTop(w, c).live = w.live /\ Len(SetTop(w, c).stack) = Len(w.stack)
        /\ SetTop(w, c).parsed = w.parsed /\ SetTop(w, c).keys = w.keys
    BY <1>2, TopReplaced
  <1> QED
    BY <1>3, <1>4 DEF c

LEMMA CoreCountSane ==
    ASSUME handler = "core", NEW s, Sane(s), s.live
    PROVE  LET t == CoreCount(s) IN
           /\ Sane(t) /\ t \in Handles /\ Bounded(t)
           /\ t.live => Room(t, 1) /\ Len(t.stack) + 1 <= Deepest
  <1> DEFINE u == CountValue(s)
  <1>0. handler \in Handlers
    BY DEF Handlers
  <1>1. Sane(u) /\ (u.live => Room(u, 1))
    BY <1>0, CountsValue
  <1> HIDE DEF u
  <1>2. u \in Handles /\ Bounded(u)
    BY <1>1 DEF Sane
  <1>3. CoreCount(s) = IF u.live THEN IF ~TooDeep(u) THEN u ELSE Fail(u, Limit) ELSE u
    BY DEF CoreCount, Then, Require, u
  <1>4. CASE u.live /\ TooDeep(u)
    <2>1. CoreCount(s) = Fail(u, Limit)
      BY <1>3, <1>4
    <2>2. Sane(Fail(u, Limit)) /\ ~Fail(u, Limit).live
      BY <1>2, FailsSane
    <2> QED
      BY <2>1, <2>2 DEF Sane
  <1>5. CASE u.live /\ ~TooDeep(u)
    <2>1. Len(u.stack) + 1 <= MaxDepth[handler]
      BY <1>0, <1>2, <1>5, Counts, HandlerBounds DEF TooDeep
    <2> QED
      BY <1>1, <1>2, <1>3, <1>5, <2>1 DEF Deepest
  <1>6. CASE ~u.live
    BY <1>1, <1>2, <1>3, <1>6
  <1> QED
    BY <1>4, <1>5, <1>6

LEMMA CoreStartObjectSane ==
    ASSUME handler = "core", NEW s, Sane(s), s.live
    PROVE  Sane(CoreStartObject(s))
  <1> DEFINE t == CoreCount(s)
             c == [Top(t) EXCEPT !.items = @ + 1]
             u == SetTop(t, c)
  <1>0. handler \in Handlers /\ handler # "jwks" /\ Malformed = Default(handler)
    BY DEF Handlers, Default
  <1>1. /\ Sane(t) /\ t \in Handles /\ Bounded(t)
        /\ t.live => Room(t, 1) /\ Len(t.stack) + 1 <= Deepest
    BY CoreCountSane
  <1>2. CoreStartObject(s) =
          IF t.live THEN IF t.stack = <<>> THEN Push(t, "root")
                         ELSE IF Top(t).kind # "signatures" THEN Fail(t, Malformed)
                         ELSE IF Top(u).items > 1 THEN Fail(u, Malformed) ELSE Push(u, "entry")
          ELSE t
    BY DEF CoreStartObject, Then
  <1> HIDE DEF t
  <1>3. ASSUME t.live PROVE Sane(Push(t, "root"))
    BY <1>0, <1>1, <1>3, PushSane
  <1>4. Sane(Fail(t, Malformed))
    BY <1>0, <1>1, FailsSane
  <1>5. ASSUME t.live, t.stack # <<>>
        PROVE  Sane(Fail(u, Malformed)) /\ Sane(Push(u, "entry"))
    <2>1. Top(t) \in Holders
      BY <1>0, <1>1, <1>5, InnermostSane
    <2>2. c \in Holders /\ c.kind = Top(t).kind /\ c.members = Top(t).members
          /\ c.value = Top(t).value
      <3>1. Top(t).items + 1 \in Nat
        BY <2>1 DEF Holders
      <3> QED
        BY <2>1, <3>1 DEF Holders
    <2> HIDE DEF c
    <2>3. u \in Handles /\ Bounded(u) /\ Room(u, 1)
      BY <1>0, <1>1, <1>5, <2>2, TopSane
    <2>4. Len(u.stack) = Len(t.stack) /\ u.live = t.live
      BY <1>0, <1>1, <1>5, <2>2, TopReplaced
    <2> HIDE DEF u
    <2>5. Sane(Push(u, "entry"))
      BY <1>0, <1>1, <1>5, <2>3, <2>4, PushSane
    <2> QED
      BY <1>0, <2>3, <2>5, FailsSane
  <1> QED
    BY <1>1, <1>2, <1>3, <1>4, <1>5

LEMMA CoreStartArraySane ==
    ASSUME handler = "core", NEW s, Sane(s), s.live
    PROVE  Sane(CoreStartArray(s))
  <1> DEFINE t == CoreCount(s)
             w == [t EXCEPT !.have = @ \cup {"signatures"}]
             u == SetTop(w, [Top(t) EXCEPT !.pending = <<>>])
  <1>0. handler \in Handlers /\ handler # "jwks" /\ Malformed = Default(handler)
    BY DEF Handlers, Default
  <1>1. /\ Sane(t) /\ t \in Handles /\ Bounded(t)
        /\ t.live => Room(t, 1) /\ Len(t.stack) + 1 <= Deepest
    BY CoreCountSane
  <1>2. CoreStartArray(s) =
          IF t.live THEN IF t.stack = <<>> THEN Silent(t)
                         ELSE IF Top(t).kind # "root" \/ ~Awaits(t, "signatures")
                         THEN Fail(t, Malformed) ELSE Push(u, "signatures")
          ELSE t
    BY DEF CoreStartArray, Then
  <1> HIDE DEF t
  <1>3. Sane(Fail(t, Malformed)) /\ Sane(Silent(t))
    BY <1>0, <1>1, FailsSane
  <1>4. ASSUME t.live, t.stack # <<>> PROVE Sane(Push(u, "signatures"))
    <2>1. /\ w \in Handles /\ w.stack = t.stack /\ w.members = t.members
          /\ w.values = t.values /\ w.keys = t.keys /\ w.parsed = t.parsed /\ w.live = t.live
      <3>1. t.have \cup {"signatures"} \in SUBSET Spots
        BY <1>1 DEF Handles, Spots
      <3> QED
        BY <1>1, <3>1 DEF Handles
    <2> HIDE DEF w
    <2>2. u \in Handles /\ Bounded(u) /\ Room(u, 1) /\ Len(u.stack) = Len(t.stack)
      BY <1>0, <1>1, <1>4, <2>1, TakenSane
    <2> HIDE DEF u
    <2> QED
      BY <1>0, <1>1, <1>4, <2>2, PushSane
  <1> QED
    BY <1>1, <1>2, <1>3, <1>4

LEMMA CoreKeySane ==
    ASSUME handler = "core", NEW s, Sane(s), s.live, NEW name \in Labels
    PROVE  Sane(CoreKey(s, name))
  <1> DEFINE t == CountMember(s, name, TRUE)
             u == IF t.live THEN InsertMember(t, name, Malformed) ELSE t
             allowed == IF Top(s).kind = "root" THEN RootMembers ELSE SignatureMembers
  <1>0. handler \in Handlers /\ Malformed = Default(handler)
    BY DEF Handlers, Default
  <1>1. CoreKey(s, name) =
          IF s.stack = <<>> \/ InKind(s, "signatures") THEN Fail(s, Malformed)
          ELSE IF u.live THEN IF name \in allowed THEN u ELSE Fail(u, Malformed) ELSE u
    BY DEF CoreKey, Then, Require
  <1>2. Sane(Fail(s, Malformed))
    BY <1>0, FailsSane DEF Sane
  <1>3. ASSUME s.stack # <<>> PROVE Sane(u) /\ Sane(Fail(u, Malformed))
    <2>1. Sane(u)
      BY <1>0, <1>3, InsertSane
    <2> HIDE DEF u
    <2> QED
      BY <1>0, <2>1, FailsSane DEF Sane
  <1> HIDE DEF u, allowed
  <1> QED
    BY <1>1, <1>2, <1>3

LEMMA CoreStringSane ==
    ASSUME handler = "core", NEW s, Sane(s), s.live, NEW text \in Strings
    PROVE  Sane(CoreString(s, text))
  <1> DEFINE t == CountValue(s)
             accepts == CASE InKind(t, "root") -> {"payload", "credbind_evidence"}
                          [] InKind(t, "entry") -> SignatureMembers
                          [] OTHER -> {}
             path == (IF InKind(t, "entry") THEN <<"signatures", "0">> ELSE <<>>) \o Top(t).pending
             w == [t EXCEPT !.have = @ \cup {Head(Top(t).pending)},
                            !.root = @ \cup {[path |-> path, kind |-> "string", text |-> text]}]
             u == SetTop(w, [Top(t) EXCEPT !.pending = <<>>])
  <1>0. handler \in Handlers /\ Malformed = Default(handler)
    BY DEF Handlers, Default
  <1>1. Sane(t) /\ t \in Handles /\ Bounded(t) /\ (t.live => Room(t, 0))
    BY <1>0, CountsValue DEF Sane
  <1>2. CoreString(s, text) =
          IF t.live THEN IF \A name \in accepts : ~Awaits(t, name) THEN Fail(t, Malformed) ELSE u
          ELSE t
    BY DEF CoreString, Then
  <1> HIDE DEF t
  <1>3. Sane(Fail(t, Malformed))
    BY <1>0, <1>1, FailsSane
  <1>4. ASSUME t.live, NEW name \in accepts, Awaits(t, name) PROVE Sane(u)
    <2>1. t.stack # <<>>
      BY <1>4 DEF InKind
    <2>2. Top(t) \in Holders
      BY <1>0, <1>1, <2>1, InnermostSane
    <2>3. Top(t).pending \in Seq(Labels) /\ Top(t).pending # <<>>
      BY <1>4, <2>2 DEF Holders, Paths, Awaits
    <2>4. Head(Top(t).pending) \in Spots /\ path \in Seq(Spots)
      <3>1. Top(t).pending \in Seq(Spots) /\ <<"signatures", "0">> \in Seq(Spots)
            /\ <<>> \in Seq(Spots)
        BY <2>3 DEF Spots
      <3> QED
        BY <2>3, <3>1
    <2> HIDE DEF path, accepts
    <2>5. /\ w \in Handles /\ w.stack = t.stack /\ w.members = t.members
          /\ w.values = t.values /\ w.keys = t.keys /\ w.parsed = t.parsed /\ w.live = t.live
      <3>1. t.have \cup {Head(Top(t).pending)} \in SUBSET Spots
        BY <1>1, <2>4 DEF Handles
      <3>2. t.root \cup {[path |-> path, kind |-> "string", text |-> text]}
              \in SUBSET [path : Seq(Spots), kind : Kinds, text : Strings]
        BY <1>1, <2>4 DEF Handles, Kinds
      <3> QED
        BY <1>1, <3>1, <3>2 DEF Handles
    <2> HIDE DEF w
    <2>6. u \in Handles /\ Bounded(u) /\ Room(u, 0)
      BY <1>0, <1>1, <1>4, <2>1, <2>5, TakenSane
    <2> QED
      BY <2>6 DEF Sane
  <1> HIDE DEF u, accepts
  <1> QED
    BY <1>1, <1>2, <1>3, <1>4

LEMMA CoreEndSane ==
    ASSUME handler = "core", NEW s, Sane(s), s.live
    PROVE  Sane(CoreEndObject(s)) /\ Sane(CoreEndArray(s))
  <1>0. handler \in Handlers /\ Malformed = Default(handler)
    BY DEF Handlers, Default
  <1>1. Sane(Fail(s, Malformed))
    BY <1>0, FailsSane DEF Sane
  <1>2. s.stack # <<>> => Sane(Pop(s))
    BY <1>0, PopSane DEF Sane
  <1> QED
    BY <1>1, <1>2 DEF CoreEndObject, CoreEndArray, InKind


-----------------------------------------------------------------------------
(* The callbacks of JwksSax.  The kind of a context tells its depth.       *)

LEMMA KeySetDepth ==
    ASSUME handler = "jwks", NEW s, Sane(s), s.live, s.stack # <<>>
    PROVE  /\ Top(s).kind = "root" <=> Len(s.stack) = 1
           /\ Top(s).kind = "keys" <=> Len(s.stack) = 2
           /\ Top(s).kind = "key" <=> Len(s.stack) = 3
  <1>1. handler \in Handlers /\ s \in Handles /\ Room(s, 0)
    BY DEF Handlers, Sane
  <1>2. Len(s.stack) \in Nat /\ Len(s.stack) \in 1..Len(s.stack)
        /\ Top(s) = s.stack[Len(s.stack)]
    BY <1>1, InnermostSane
  <1>3. Len(s.stack) <= 3 /\ Top(s).kind = KeySetLevel[Len(s.stack)]
    BY <1>1, <1>2 DEF Room
  <1> DEFINE n == Len(s.stack)
  <1>4. n \in {1, 2, 3} /\ Top(s).kind = KeySetLevel[n]
    <2>1. n \in Nat /\ n \in 1..n /\ n <= 3 /\ Top(s).kind = KeySetLevel[n]
      BY <1>2, <1>3
    <2> HIDE DEF n
    <2> QED
      BY <2>1
  <1> HIDE DEF n
  <1>5. KeySetLevel[1] = "root" /\ KeySetLevel[2] = "keys" /\ KeySetLevel[3] = "key"
    BY DEF KeySetLevel
  <1> QED
    BY <1>4, <1>5 DEF n

LEMMA JwksStartSane ==
    ASSUME handler = "jwks", NEW s, Sane(s), s.live
    PROVE  Sane(JwksStartObject(s)) /\ Sane(JwksStartArray(s))
  <1>0. handler \in Handlers /\ Untrusted = Default(handler) /\ handler \notin Trees /\ Deepest = 3
    BY DEF Handlers, Default, Trees, Deepest
  <1>1. s \in Handles /\ Bounded(s) /\ Room(s, 0)
    BY DEF Sane
  <1>2. Room(s, 1)
    BY <1>0, <1>1 DEF Room
  <1>3. s.keys \in Nat /\ Len(s.parsed) \in Nat /\ Len(s.stack) \in Nat
    BY <1>0, <1>1, Counts
  <1>4. Sane(Fail(s, Untrusted))
    BY <1>0, <1>1, FailsSane
  <1>5. Sane(JwksStartObject(s))
    <2>1. ASSUME s.stack = <<>> PROVE Sane(Push(s, "root"))
      <3>1. Len(s.stack) = 0 /\ KeySetLevel[0 + 1] = "root"
        BY <2>1 DEF KeySetLevel
      <3> QED
        BY <1>0, <1>1, <1>2, <3>1, PushSane
    <2>2. ASSUME s.stack # <<>>, Top(s).kind = "keys"
          PROVE  LET t == [s EXCEPT !.keys = @ + 1] IN
                 Sane(IF t.keys > MaxKeys THEN Fail(t, Limit)
                      ELSE Push([t EXCEPT !.current = [m \in JwkMembers |-> NoText]], "key"))
      <3> DEFINE t == [s EXCEPT !.keys = @ + 1]
                 u == [t EXCEPT !.current = [m \in JwkMembers |-> NoText]]
      <3>1. /\ t \in Handles /\ t.stack = s.stack /\ t.parsed = s.parsed /\ t.live = s.live
            /\ t.members = s.members /\ t.values = s.values /\ t.keys = s.keys + 1
        <4>1. s.keys + 1 \in Nat
          BY <1>3
        <4> QED
          BY <1>1, <4>1 DEF Handles
      <3> HIDE DEF t
      <3>2. Bounded(t)
        BY <1>1, <3>1 DEF Bounded
      <3>3. Sane(Fail(t, Limit))
        BY <3>1, <3>2, FailsSane
      <3>4. /\ u \in Handles /\ u.stack = t.stack /\ u.parsed = t.parsed /\ u.live = t.live
            /\ u.members = t.members /\ u.values = t.values /\ u.keys = t.keys
        <4>1. [m \in JwkMembers |-> NoText] \in Keys
          BY DEF Keys, Strings
        <4> QED
          BY <3>1, <4>1 DEF Handles
      <3> HIDE DEF u
      <3>5. Bounded(u)
        BY <3>2, <3>4 DEF Bounded
      <3>6. Len(s.stack) = 2 /\ KeySetLevel[2 + 1] = "key"
        BY <2>2, KeySetDepth DEF KeySetLevel
      <3>7. Len(s.parsed) <= s.keys
        BY <1>1 DEF Room
      <3>8. ASSUME ~(t.keys > MaxKeys) PROVE Sane(Push(u, "key"))
        <4>1. Len(u.parsed) <= u.keys /\ Len(u.parsed) + 1 <= u.keys /\ u.keys <= MaxKeys
          BY <1>0, <1>3, <3>1, <3>4, <3>7, <3>8, HandlerBounds
        <4>2. Room(u, 1)
          BY <1>0, <1>1, <3>1, <3>4, <3>6, <4>1 DEF Room
        <4>3. Len(u.stack) = 2 /\ Len(u.stack) + 1 <= Deepest
              /\ KeySetLevel[Len(u.stack) + 1] = "key"
          BY <1>0, <3>1, <3>4, <3>6
        <4> QED
          BY <1>0, <3>4, <3>5, <4>1, <4>2, <4>3, PushSane
      <3> QED
        BY <3>3, <3>8 DEF t, u
    <2> QED
      BY <1>4, <2>1, <2>2 DEF JwksStartObject
  <1>6. Sane(JwksStartArray(s))
    <2> DEFINE w == [s EXCEPT !.have = {"keys"}]
               u == SetTop(w, [Top(s) EXCEPT !.pending = <<>>])
    <2>1. ASSUME InKind(s, "root") PROVE Sane(Push(u, "keys"))
      <3>1. s.stack # <<>> /\ Top(s).kind = "root"
        BY <2>1 DEF InKind
      <3>2. Len(s.stack) = 1 /\ KeySetLevel[1 + 1] = "keys"
        BY <3>1, KeySetDepth DEF KeySetLevel
      <3>3. /\ w \in Handles /\ w.stack = s.stack /\ w.members = s.members
            /\ w.values = s.values /\ w.keys = s.keys /\ w.parsed = s.parsed /\ w.live = s.live
        <4>1. {"keys"} \in SUBSET Spots
          BY DEF Spots
        <4> QED
          BY <1>1, <4>1 DEF Handles
      <3> HIDE DEF w
      <3>4. u \in Handles /\ Bounded(u) /\ Room(u, 1) /\ Len(u.stack) = Len(s.stack)
        BY <1>0, <1>1, <1>2, <3>1, <3>3, TakenSane
      <3> HIDE DEF u
      <3>5. Len(u.stack) # 2 /\ Len(u.stack) + 1 <= Deepest
            /\ KeySetLevel[Len(u.stack) + 1] = "keys"
        BY <1>0, <3>2, <3>4
      <3> QED
        BY <1>0, <3>4, <3>5, PushSane
    <2> QED
      BY <1>4, <2>1 DEF JwksStartArray
  <1> QED
    BY <1>5, <1>6

LEMMA JwksKeySane ==
    ASSUME handler = "jwks", NEW s, Sane(s), s.live, NEW name \in Labels
    PROVE  Sane(JwksKey(s, name))
  <1> DEFINE t == CountMember(s, name, FALSE)
             u == IF t.live THEN InsertMember(t, name, Untrusted) ELSE t
             allowed == IF Top(s).kind = "root" THEN {"keys"} ELSE JwkMembers
  <1>0. handler \in Handlers /\ Untrusted = Default(handler)
    BY DEF Handlers, Default
  <1>1. JwksKey(s, name) =
          IF s.stack = <<>> \/ InKind(s, "keys") THEN Fail(s, Untrusted)
          ELSE IF u.live THEN IF name \in allowed THEN u ELSE Fail(u, Untrusted) ELSE u
    BY DEF JwksKey, Then, Require
  <1>2. Sane(Fail(s, Untrusted))
    BY <1>0, FailsSane DEF Sane
  <1>3. ASSUME s.stack # <<>> PROVE Sane(u) /\ Sane(Fail(u, Untrusted))
    <2>1. Sane(u)
      BY <1>0, <1>3, InsertSane
    <2> HIDE DEF u
    <2> QED
      BY <1>0, <2>1, FailsSane DEF Sane
  <1> HIDE DEF u, allowed
  <1> QED
    BY <1>1, <1>2, <1>3

LEMMA JwksStringSane ==
    ASSUME handler = "jwks", NEW s, Sane(s), s.live, NEW text \in Strings
    PROVE  Sane(JwksString(s, text))
  <1> DEFINE w == [s EXCEPT !.current[Head(Top(s).pending)] = text]
             u == SetTop(w, [Top(s) EXCEPT !.pending = <<>>])
  <1>0. handler \in Handlers /\ Untrusted = Default(handler)
    BY DEF Handlers, Default
  <1>1. s \in Handles /\ Bounded(s) /\ Room(s, 0)
    BY DEF Sane
  <1>2. Sane(Fail(s, Untrusted))
    BY <1>0, <1>1, FailsSane
  <1>3. ASSUME InKind(s, "key") PROVE Sane(u)
    <2>1. s.stack # <<>>
      BY <1>3 DEF InKind
    <2> DEFINE name == Head(Top(s).pending)
    <2> HIDE DEF name
    <2>2. [s.current EXCEPT ![name] = text] \in Keys
      BY <1>1 DEF Handles, Keys
    <2>3. w = [s EXCEPT !.current = [s.current EXCEPT ![name] = text]]
      BY <1>1 DEF Handles, name
    <2>4. /\ w \in Handles /\ w.stack = s.stack /\ w.members = s.members
          /\ w.values = s.values /\ w.keys = s.keys /\ w.parsed = s.parsed /\ w.live = s.live
      <3> HIDE DEF w
      <3> QED
        BY <1>1, <2>2, <2>3 DEF Handles
    <2> HIDE DEF w
    <2>5. u \in Handles /\ Bounded(u) /\ Room(u, 0)
      BY <1>0, <1>1, <2>1, <2>4, TakenSane
    <2> QED
      BY <2>5 DEF Sane
  <1>4. JwksString(s, text) =
          IF ~InKind(s, "key") \/ Top(s).pending = <<>> THEN Fail(s, Untrusted)
          ELSE IF Awaits(s, "kid") /\ text \in {NoText, "long"} THEN Fail(s, Untrusted) ELSE u
    BY DEF JwksString
  <1> HIDE DEF u
  <1> QED
    BY <1>2, <1>3, <1>4

LEMMA JwksEndSane ==
    ASSUME handler = "jwks", NEW s, Sane(s), s.live
    PROVE  Sane(JwksEndObject(s)) /\ Sane(JwksEndArray(s))
  <1> DEFINE t == Pop(s)
             u == [t EXCEPT !.parsed = Append(@, s.current)]
  <1>0. handler \in Handlers /\ Untrusted = Default(handler) /\ handler \notin Trees
    BY DEF Handlers, Default, Trees
  <1>1. s \in Handles /\ Bounded(s) /\ Room(s, 0)
    BY DEF Sane
  <1>2. Sane(Fail(s, Untrusted))
    BY <1>0, <1>1, FailsSane
  <1>3. ASSUME s.stack # <<>>
        PROVE  /\ t \in Handles /\ Bounded(t) /\ Room(t, 0) /\ t.live /\ Sane(t)
               /\ Len(t.stack) = Len(s.stack) - 1 /\ t.parsed = s.parsed /\ t.keys = s.keys
    BY <1>0, <1>3, PopSane DEF Sane
  <1> HIDE DEF t
  <1>4. ASSUME InKind(s, "key") PROVE Sane(u)
    <2>1. s.stack # <<>> /\ Len(s.stack) = 3
      BY <1>4, KeySetDepth DEF InKind
    <2>2. Len(s.parsed) + 1 <= s.keys /\ s.keys <= MaxKeys
      BY <1>1, <2>1 DEF Room
    <2>3. s.keys \in Nat /\ Len(s.parsed) \in Nat /\ s.parsed \in Seq(Keys) /\ s.current \in Keys
      BY <1>0, <1>1, Counts DEF Handles
    <2> DEFINE more == Append(s.parsed, s.current)
    <2>4. more \in Seq(Keys) /\ Len(more) = Len(s.parsed) + 1
      BY <2>3, AppendProperties
    <2> HIDE DEF more
    <2>5. /\ u \in Handles /\ u.stack = t.stack /\ u.members = t.members
          /\ u.values = t.values /\ u.keys = t.keys /\ u.parsed = more /\ u.live = t.live
      <3>1. u = [t EXCEPT !.parsed = more]
        BY <1>3, <2>1 DEF Handles, more
      <3> HIDE DEF u
      <3> QED
        BY <1>3, <2>1, <2>4, <3>1 DEF Handles
    <2> HIDE DEF u
    <2>6. Len(u.parsed) <= u.keys /\ u.keys <= MaxKeys /\ Len(u.stack) = 2
          /\ Len(u.parsed) <= MaxKeys
      BY <1>0, <1>3, <2>1, <2>2, <2>3, <2>4, <2>5, HandlerBounds
    <2>7. Bounded(u)
      BY <1>3, <2>1, <2>5, <2>6 DEF Bounded
    <2>8. Room(u, 0)
      BY <1>0, <1>3, <2>1, <2>5, <2>6 DEF Room
    <2> QED
      BY <2>5, <2>7, <2>8 DEF Sane
  <1>5. JwksEndObject(s) =
          IF InKind(s, "key")
          THEN IF CompleteKey(s) THEN u ELSE Fail(s, Untrusted)
          ELSE IF InKind(s, "root") /\ "keys" \in s.have /\ Cardinality(Top(s).members) = 1
          THEN t ELSE Fail(s, Untrusted)
    BY DEF JwksEndObject, t
  <1> HIDE DEF u
  <1>6. Sane(JwksEndObject(s))
    BY <1>2, <1>3, <1>4, <1>5 DEF InKind
  <1>7. Sane(JwksEndArray(s))
    BY <1>2, <1>3 DEF JwksEndArray, InKind, t
  <1> QED
    BY <1>6, <1>7

-----------------------------------------------------------------------------
(* Every run of every reader.                                              *)

Errors == {Limit, Default(handler)}
SaneInv ==
  /\ handler \in Handlers /\ Sane(sax)
  /\ verdict \in {"parsing", "accepted"} \cup Errors
  /\ verdict = "parsing" => sax.live

LEMMA CallbacksSane ==
    ASSUME handler \in Handlers, NEW s, Sane(s), s.live
    PROVE  /\ Sane(StartObject(s)) /\ Sane(StartArray(s))
           /\ \A name \in Labels : Sane(MemberName(s, name))
           /\ \A kind \in {"string", "other"}, text \in Strings : Sane(Scalar(s, kind, text))
           /\ Sane(EndObject(s)) /\ Sane(EndArray(s))
  <1>1. CASE handler \in Trees
    <2>1. \A kind \in {"string", "other"} : kind \in Kinds
      BY DEF Kinds
    <2>2. /\ StartObject(s) = TreeStart(s, "object") /\ StartArray(s) = TreeStart(s, "array")
          /\ \A name : MemberName(s, name) = TreeKey(s, name)
          /\ \A kind, text : Scalar(s, kind, text) = TreeScalar(s, kind, text)
          /\ EndObject(s) = TreeEnd(s, "object") /\ EndArray(s) = TreeEnd(s, "array")
      <3>1. handler # "core" /\ handler # "jwks"
        BY <1>1 DEF Trees
      <3> QED
        BY <1>1, <3>1 DEF StartObject, StartArray, MemberName, Scalar, EndObject, EndArray
    <2> QED
      BY <1>1, <2>1, <2>2, TreeStartSane, TreeKeySane, TreeScalarSane, TreeEndSane
  <1>2. CASE handler = "core"
    <2>1. /\ StartObject(s) = CoreStartObject(s) /\ StartArray(s) = CoreStartArray(s)
          /\ \A name : MemberName(s, name) = CoreKey(s, name)
          /\ \A text : Scalar(s, "string", text) = CoreString(s, text)
          /\ \A text : Scalar(s, "other", text) = Fail(CountValue(s), Malformed)
          /\ EndObject(s) = CoreEndObject(s) /\ EndArray(s) = CoreEndArray(s)
      <3>1. handler \notin Trees
        BY <1>2 DEF Trees
      <3> QED
        BY <1>2, <3>1 DEF StartObject, StartArray, MemberName, Scalar, EndObject, EndArray
    <2>2. Sane(Fail(CountValue(s), Malformed))
      <3>1. Sane(CountValue(s)) /\ Malformed = Default(handler)
        BY <1>2, CountsValue DEF Default
      <3> QED
        BY <3>1, FailsSane DEF Sane
    <2> QED
      BY <1>2, <2>1, <2>2, CoreStartObjectSane, CoreStartArraySane, CoreKeySane, CoreStringSane,
         CoreEndSane
  <1>3. CASE handler = "jwks"
    <2>1. /\ StartObject(s) = JwksStartObject(s) /\ StartArray(s) = JwksStartArray(s)
          /\ \A name : MemberName(s, name) = JwksKey(s, name)
          /\ \A text : Scalar(s, "string", text) = JwksString(s, text)
          /\ \A text : Scalar(s, "other", text) = Fail(s, Untrusted)
          /\ EndObject(s) = JwksEndObject(s) /\ EndArray(s) = JwksEndArray(s)
      <3>1. handler \notin Trees /\ handler # "core"
        BY <1>3 DEF Trees
      <3> QED
        BY <1>3, <3>1 DEF StartObject, StartArray, MemberName, Scalar, EndObject, EndArray
    <2>2. Sane(Fail(s, Untrusted))
      <3>1. Untrusted = Default(handler)
        BY <1>3 DEF Default
      <3> QED
        BY <3>1, FailsSane DEF Sane
    <2> QED
      BY <1>3, <2>1, <2>2, JwksStartSane, JwksKeySane, JwksStringSane, JwksEndSane
  <1> QED
    BY <1>1, <1>2, <1>3 DEF Handlers

LEMMA InitSane == Init => SaneInv
  <1> SUFFICES ASSUME Init PROVE SaneInv
    OBVIOUS
  <1>1. handler \in Handlers /\ sax = NewSax /\ verdict \in {Limit, "parsing"}
    BY DEF Init
  <1>2. sax \in Handles
    <2>1. [m \in JwkMembers |-> NoText] \in Keys
      BY DEF Keys, Strings
    <2>2. <<>> \in Seq(Holders) /\ <<>> \in Seq(Keys)
      OBVIOUS
    <2> QED
      BY <1>1, <2>1, <2>2 DEF NewSax, Handles
  <1>3. sax.stack = <<>> /\ sax.parsed = <<>> /\ sax.members = 0 /\ sax.values = 0
        /\ sax.keys = 0 /\ sax.live
    BY <1>1 DEF NewSax
  <1>4. NamesHeld(<<>>) = {} /\ ValuesBuilt(<<>>) = {}
    <2>1. Len(<<>>) = 0
      OBVIOUS
    <2> QED
      BY <2>1 DEF NamesHeld, ValuesBuilt
  <1>5. IsFiniteSet({}) /\ Cardinality({}) = 0
    BY FS_EmptySet
  <1>6. /\ Len(sax.stack) = 0 /\ Len(sax.parsed) = 0
        /\ IsFiniteSet(NamesHeld(sax.stack)) /\ Cardinality(NamesHeld(sax.stack)) = 0
        /\ IsFiniteSet(ValuesBuilt(sax.stack)) /\ Cardinality(ValuesBuilt(sax.stack)) = 0
    BY <1>3, <1>4, <1>5
  <1>7. Bounded(sax) /\ Room(sax, 0)
    <2> DEFINE d == Deepest
               m == MaxMembers[handler]
               v == MaxValues[handler]
    <2>1. d \in Nat /\ m \in Nat /\ v \in Nat /\ MaxKeys \in Nat
      BY <1>1, HandlerBounds
    <2> HIDE DEF d, m, v
    <2>2. 0 <= d /\ 0 <= m /\ 0 <= v /\ 0 <= MaxKeys
      BY <2>1
    <2>3. Bounded(sax)
      BY <1>6, <2>2 DEF Bounded, d, m, v
    <2>4. Room(sax, 0)
      BY <1>3, <1>6, <2>2 DEF Room, m, v
    <2> QED
      BY <2>3, <2>4
  <1> QED
    BY <1>1, <1>2, <1>3, <1>7 DEF SaneInv, Sane, Errors

LEMMA NextSane == SaneInv /\ [Next]_vars => SaneInv'
  <1> SUFFICES ASSUME SaneInv, [Next]_vars PROVE SaneInv'
    OBVIOUS
  <1>1. ASSUME handler' = handler, NEW s, sax' = s, Sane(s) PROVE Sane(sax)'
    BY <1>1 DEF Sane, Handles, Bounded, Room, Deepest, Default
  <1>2. handler \in Handlers /\ Sane(sax) /\ (verdict = "parsing" => sax.live)
    BY DEF SaneInv
  <1>3. ASSUME NEW s, Sane(s), Deliver(s) PROVE SaneInv'
    <2>1. handler' = handler /\ sax' = s /\ verdict' = IF s.live THEN "parsing" ELSE Kind(s)
      BY <1>3 DEF Deliver
    <2>2. Kind(s) \in Errors
      BY <1>3 DEF Sane, Handles, Kind, Errors
    <2>3. Sane(sax)'
      BY <1>1, <1>3, <2>1
    <2>4. verdict' \in {"parsing", "accepted"} \cup Errors'
      BY <2>1, <2>2 DEF Errors, Default
    <2>5. Kind(s) # "parsing"
      BY <2>2 DEF Errors, Default, Limit, Malformed, Untrusted
    <2> QED
      BY <1>2, <2>1, <2>3, <2>4, <2>5 DEF SaneInv
  <1>4. ASSUME verdict = "parsing"
        PROVE  /\ Sane(StartObject(sax)) /\ Sane(StartArray(sax))
               /\ \A name \in Labels : Sane(MemberName(sax, name))
               /\ \A kind \in {"string", "other"}, text \in Strings : Sane(Scalar(sax, kind, text))
               /\ Sane(EndObject(sax)) /\ Sane(EndArray(sax))
               /\ Sane(Fail(sax, Default(handler)))
    BY <1>2, <1>4, CallbacksSane, FailsSane DEF Sane
  <1>5. CASE UNCHANGED vars
    <2>1. Sane(sax)'
      BY <1>1, <1>2, <1>5 DEF vars
    <2> QED
      BY <1>5, <2>1 DEF vars, SaneInv, Errors, Default
  <1>6. ASSUME NEW kind \in {"object", "array"}, ReadStart(kind) PROVE SaneInv'
    BY <1>3, <1>4, <1>6 DEF ReadStart, Deliver
  <1>7. ASSUME NEW kind \in {"string", "other"}, NEW text \in Strings, ReadScalar(kind, text)
        PROVE  SaneInv'
    BY <1>3, <1>4, <1>7 DEF ReadScalar, Deliver
  <1>8. ASSUME NEW name \in Names[handler], ReadKey(name) PROVE SaneInv'
    <2>1. name \in Labels
      BY <1>2, <1>8 DEF Labels
    <2> QED
      BY <1>3, <1>4, <1>8, <2>1 DEF ReadKey, Deliver
  <1>9. ASSUME ReadEnd PROVE SaneInv'
    BY <1>3, <1>4, <1>9 DEF ReadEnd, Deliver
  <1>10. ASSUME ReadGarbage PROVE SaneInv'
    BY <1>3, <1>4, <1>10 DEF ReadGarbage, Deliver
  <1>11. ASSUME ReadFinish PROVE SaneInv'
    <2>1. /\ handler' = handler /\ sax' = sax
          /\ verdict' \in {"accepted", Kind(sax)}
      BY <1>11 DEF ReadFinish
    <2>2. Kind(sax) \in Errors
      BY <1>2 DEF Sane, Handles, Kind, Errors
    <2>3. Sane(sax)'
      BY <1>1, <1>2, <2>1
    <2>4. verdict' \in {"parsing", "accepted"} \cup Errors' /\ verdict' # "parsing"
      BY <2>1, <2>2 DEF Errors, Default, Limit, Malformed, Untrusted
    <2> QED
      BY <1>2, <2>1, <2>3, <2>4 DEF SaneInv
  <1>12. ASSUME NEW text \in Texts[handler] PROVE text \in Strings
    BY <1>2, <1>12 DEF Strings
  <1>13. NoText \in Strings
    BY DEF Strings
  <1> QED
    BY <1>5, <1>6, <1>7, <1>8, <1>9, <1>10, <1>11, <1>12, <1>13 DEF Next

LEMMA SaneTyped == SaneInv => TypeOK
  <1> SUFFICES ASSUME SaneInv PROVE TypeOK
    OBVIOUS
  <1>1. handler \in Handlers /\ sax \in Handles /\ Bounded(sax)
    BY DEF SaneInv, Sane
  <1>2. sax.live \in BOOLEAN /\ sax.complete \in BOOLEAN
    BY <1>1 DEF Handles
  <1>3. verdict \in {"parsing", "accepted", Limit, IF handler = "jwks" THEN Untrusted ELSE Malformed}
    BY DEF SaneInv, Errors, Default
  <1>4. \A i \in 1..Len(sax.stack) : Len(sax.stack[i].pending) <= 1
    BY <1>1, Counts DEF Holders
  <1>5. Held = NamesHeld(sax.stack)
    BY DEF Held, NamesHeld
  <1>6. ASSUME NEW i \in 1..Len(sax.stack)
        PROVE  Cardinality(sax.stack[i].value) <= MaxValues[handler]
    <2> DEFINE value == sax.stack[i].value
               pairs == ValuesBuilt(sax.stack)
               g == [p \in pairs |-> p[2]]
    <2>1. \A y \in value : \E x \in pairs : y = g[x]
      <3> TAKE y \in value
      <3>1. <<i, y>> \in pairs
        BY ValueBuiltAt
      <3>2. g[<<i, y>>] = y
        BY <3>1
      <3> QED
        BY <3>1, <3>2
    <2>2. IsFiniteSet(pairs) /\ Cardinality(pairs) <= MaxValues[handler]
      BY <1>1 DEF Bounded
    <2> HIDE DEF value, pairs, g
    <2>3. /\ Cardinality(value) <= Cardinality(pairs)
          /\ Cardinality(value) \in Nat /\ Cardinality(pairs) \in Nat
      BY <2>1, <2>2, ImageIsSmall
    <2>4. Cardinality(value) <= MaxValues[handler]
      BY <1>1, <2>2, <2>3, HandlerBounds
    <2> QED
      BY <2>4 DEF value
  <1> QED
    BY <1>1, <1>2, <1>3, <1>4, <1>5, <1>6 DEF TypeOK, Bounded, Deepest

(* Whatever is read, a handler stays within the bounds of its reader and   *)
(* fails with an error that its caller reports.                            *)
THEOREM ReadersStayBounded == Spec => []TypeOK
  <1>1. Spec => []SaneInv
    BY InitSane, NextSane, PTL DEF Spec
  <1> QED
    BY <1>1, SaneTyped, PTL

=============================================================================
