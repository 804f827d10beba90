------------------------ MODULE ForeignCoverageProofs ------------------------
(* Proofs about ForeignCoverage, for any mods, inis, settings and records: which line for a *)
(* record is the last one of the merged ini, and of all that the game evaluates.            *)
EXTENDS ForeignCoverage, FiniteSetTheorems, WellFoundedInduction, TLAPS

-----------------------------------------------------------------------------
(* The last element of a sequence that is in a set *)

LEMMA SetInduction ==
    ASSUME NEW S, 0 \in S, \A n \in Nat : n \in S => n + 1 \in S
    PROVE  Nat \subseteq S
<1>. SUFFICES ASSUME Nat \ S # {} PROVE FALSE
  OBVIOUS
<1>1. PICK x \in Nat \ S : \A y \in Nat \ S : ~(<<y, x>> \in OpToRel(<, Nat))
  BY NatLessThanWellFounded, WFMin
<1>2. \A y \in Nat \ S : ~(y < x)
  BY <1>1 DEF OpToRel
<1>3. x - 1 \in Nat /\ x - 1 \notin S
  BY <1>2
<1>. QED BY <1>2, <1>3

\* A set of naturals that is not empty has a least element, and a greatest one if it is bounded.
LEMMA LeastOf ==
    ASSUME NEW S, S \subseteq Nat, S # {}
    PROVE  \E x \in S : \A y \in S : x <= y
<1>1. PICK x \in S : \A y \in S : ~(<<y, x>> \in OpToRel(<, Nat))
  BY NatLessThanWellFounded, WFMin
<1>2. \A y \in S : ~(y < x)
  BY <1>1 DEF OpToRel
<1>. QED BY <1>2

LEMMA GreatestOf ==
    ASSUME NEW n \in Nat, NEW S, S \subseteq 0 .. n, S # {}
    PROVE  \E x \in S : \A y \in S : y <= x
<1>. DEFINE T == {n - x : x \in S}
<1>1. T \subseteq Nat
  OBVIOUS
<1>2. T # {}
  OBVIOUS
<1>3. PICK z \in T : \A y \in T : z <= y
  BY <1>1, <1>2, LeastOf
<1>4. PICK x \in S : z = n - x
  OBVIOUS
<1>5. \A y \in S : y <= x
  BY <1>3, <1>4
<1>. QED BY <1>5

LastIn(q, S) ==
    {q[i] : i \in {i \in DOMAIN q : q[i] \in S /\ \A j \in DOMAIN q : j > i => q[j] \notin S}}

LEMMA LastInExists ==
    ASSUME NEW T, NEW q \in Seq(T), NEW S, NEW i \in DOMAIN q, q[i] \in S
    PROVE  /\ LastIn(q, S) # {}
           /\ \E k \in DOMAIN q : /\ LastIn(q, S) = {q[k]} /\ q[k] \in S /\ i <= k
                                  /\ \A j \in DOMAIN q : j > k => q[j] \notin S
<1>. DEFINE at == {k \in DOMAIN q : q[k] \in S}
<1>1. at # {} /\ at \subseteq 0 .. Len(q) /\ Len(q) \in Nat
  OBVIOUS
<1>. HIDE DEF at
<1>2. PICK k \in at : \A j \in at : j <= k
  BY <1>1, GreatestOf
<1>. USE DEF at
<1>3. k \in DOMAIN q /\ q[k] \in S /\ i <= k /\ \A j \in DOMAIN q : j > k => q[j] \notin S
  BY <1>2
<1>4. LastIn(q, S) = {q[k]}
  <2>1. q[k] \in LastIn(q, S)
    BY <1>3 DEF LastIn
  <2>2. ASSUME NEW j \in DOMAIN q, q[j] \in S, \A h \in DOMAIN q : h > j => q[h] \notin S
        PROVE  j = k
    BY <1>3, <2>2
  <2>. QED BY <2>1, <2>2 DEF LastIn
<1>. QED BY <1>3, <1>4

LEMMA LastInEmpty ==
    ASSUME NEW T, NEW q \in Seq(T), NEW S
    PROVE  LastIn(q, S) = {} <=> \A i \in DOMAIN q : q[i] \notin S
<1>1. ASSUME \A i \in DOMAIN q : q[i] \notin S PROVE LastIn(q, S) = {}
  BY <1>1 DEF LastIn
<1>. QED BY <1>1, LastInExists

LEMMA LastInMember ==
    ASSUME NEW T, NEW q \in Seq(T), NEW S, NEW l \in LastIn(q, S)
    PROVE  /\ l \in S /\ l \in T /\ LastIn(q, S) = {l}
           /\ \E i \in DOMAIN q : q[i] = l
<1>1. PICK i \in DOMAIN q : q[i] = l /\ l \in S
  BY DEF LastIn
<1>2. LastIn(q, S) = {l}
  <2>1. PICK k \in DOMAIN q : LastIn(q, S) = {q[k]}
    BY <1>1, LastInExists
  <2>. QED BY <2>1
<1>3. l \in T
  BY <1>1
<1>. QED BY <1>1, <1>2, <1>3

\* The last element of a concatenation is that of the second part, if it has one.
LEMMA LastInConcat ==
    ASSUME NEW T, NEW a \in Seq(T), NEW b \in Seq(T), NEW S
    PROVE  /\ a \o b \in Seq(T)
           /\ LastIn(b, S) # {} => LastIn(a \o b, S) = LastIn(b, S)
           /\ LastIn(b, S) = {} => LastIn(a \o b, S) = LastIn(a, S)
<1>. DEFINE c == a \o b
<1>1. /\ c \in Seq(T) /\ Len(c) = Len(a) + Len(b) /\ Len(a) \in Nat /\ Len(b) \in Nat
      /\ DOMAIN a = 1 .. Len(a) /\ DOMAIN b = 1 .. Len(b) /\ DOMAIN c = 1 .. Len(c)
      /\ \A i \in 1 .. Len(a) : c[i] = a[i]
      /\ \A i \in 1 .. Len(b) : c[Len(a) + i] = b[i]
  OBVIOUS
<1>2. \A i \in DOMAIN c : i \in DOMAIN a \/ i - Len(a) \in DOMAIN b
  BY <1>1
<1>3. \A i \in DOMAIN c : i \in DOMAIN a \/ c[i] = b[i - Len(a)]
  BY <1>1, <1>2
<1>. HIDE DEF c
<1>4. ASSUME LastIn(b, S) # {} PROVE LastIn(c, S) = LastIn(b, S)
  <2>1. PICK j \in DOMAIN b : b[j] \in S
    BY <1>4, LastInEmpty
  <2>2. PICK k \in DOMAIN b : /\ LastIn(b, S) = {b[k]} /\ b[k] \in S
                              /\ \A h \in DOMAIN b : h > k => b[h] \notin S
    BY <2>1, LastInExists
  <2>3. Len(a) + k \in DOMAIN c /\ c[Len(a) + k] = b[k]
    BY <1>1
  <2>4. \A h \in DOMAIN c : h > Len(a) + k => c[h] \notin S
    <3>. TAKE h \in DOMAIN c
    <3>. HAVE h > Len(a) + k
    <3>1. h - Len(a) \in DOMAIN b /\ h - Len(a) > k /\ c[h] = b[h - Len(a)]
      BY <1>1, <1>3
    <3>. QED BY <2>2, <3>1
  <2>5. PICK h \in DOMAIN c : /\ LastIn(c, S) = {c[h]} /\ c[h] \in S /\ Len(a) + k <= h
    <3>. DEFINE i == Len(a) + k
    <3>1. i \in DOMAIN c /\ c[i] \in S
      BY <2>2, <2>3
    <3>. HIDE DEF i
    <3>2. \E h \in DOMAIN c : LastIn(c, S) = {c[h]} /\ c[h] \in S /\ i <= h
      BY <1>1, <3>1, LastInExists
    <3>. QED BY <3>2 DEF i
  <2>6. h = Len(a) + k
    <3>1. h \in Nat /\ k \in Nat /\ Len(a) \in Nat
      BY <1>1
    <3>2. ~(h > Len(a) + k)
      BY <2>4, <2>5
    <3>3. Len(a) + k <= h
      BY <2>5
    <3>. QED BY <3>1, <3>2, <3>3
  <2>. QED BY <2>2, <2>3, <2>5, <2>6
<1>5. ASSUME LastIn(b, S) = {} PROVE LastIn(c, S) = LastIn(a, S)
  <2>1. \A i \in DOMAIN b : b[i] \notin S
    BY <1>5, LastInEmpty
  <2>2. \A i \in DOMAIN c : c[i] \in S => i \in DOMAIN a
    BY <1>2, <1>3, <2>1
  <2>3. CASE \A i \in DOMAIN a : a[i] \notin S
    <3>1. \A i \in DOMAIN c : c[i] \notin S
      BY <1>1, <2>2, <2>3
    <3>2. LastIn(a, S) = {} /\ LastIn(c, S) = {}
      BY <1>1, <2>3, <3>1, LastInEmpty
    <3>. QED BY <3>2
  <2>4. ASSUME NEW i \in DOMAIN a, a[i] \in S PROVE LastIn(c, S) = LastIn(a, S)
    <3>1. PICK k \in DOMAIN a : /\ LastIn(a, S) = {a[k]} /\ a[k] \in S
                                /\ \A h \in DOMAIN a : h > k => a[h] \notin S
      BY <2>4, LastInExists
    <3>2. k \in DOMAIN c /\ c[k] = a[k]
      BY <1>1
    <3>3. PICK h \in DOMAIN c : LastIn(c, S) = {c[h]} /\ c[h] \in S /\ k <= h
      BY <1>1, <3>1, <3>2, LastInExists
    <3>4. h \in DOMAIN a /\ c[h] = a[h]
      BY <1>1, <2>2, <3>3
    <3>5. h = k
      BY <1>1, <3>1, <3>3, <3>4
    <3>. QED BY <3>1, <3>3, <3>4, <3>5
  <2>. QED BY <2>3, <2>4
<1>. QED BY <1>1, <1>4, <1>5 DEF c

\* FlattenSeq joins the parts one by one.
LEMMA FlattenSteps ==
    ASSUME NEW T, NEW ss \in Seq(Seq(T)), Len(ss) # 0
    PROVE  \E f : /\ f[1] = ss[1]
                  /\ \A i \in 2 .. Len(ss) : f[i] = f[i - 1] \o ss[i]
                  /\ FlattenSeq(ss) = f[Len(ss)]
<1>. DEFINE Step(f, i) == IF i = 1 THEN ss[i] ELSE f[i - 1] \o ss[i]
            Joined(f, n) == f = [i \in 1 .. n |-> Step(f, i)]
            S == {n \in Nat : \E f : Joined(f, n)}
<1>1. 0 \in S
  <2>1. Joined(<< >>, 0)
    OBVIOUS
  <2>. QED BY <2>1
<1>2. ASSUME NEW n \in Nat, n \in S PROVE n + 1 \in S
  <2>1. PICK f : Joined(f, n)
    BY <1>2
  <2>. DEFINE g == [i \in 1 .. n + 1 |-> IF i \in 1 .. n THEN f[i] ELSE Step(f, i)]
  <2>2. ASSUME NEW i \in 1 .. n + 1 PROVE g[i] = Step(g, i)
    <3>1. CASE i = 1
      BY <2>1, <3>1
    <3>2. CASE i # 1
      <4>1. i - 1 \in 1 .. n /\ i - 1 \in 1 .. n + 1
        BY <3>2
      <4>2. g[i - 1] = f[i - 1]
        BY <4>1
      <4>3. i \in 1 .. n => f[i] = Step(f, i)
        BY <2>1
      <4>4. g[i] = Step(f, i)
        BY <4>3
      <4>. QED BY <3>2, <4>2, <4>4
    <3>. QED BY <3>1, <3>2
  <2>3. Joined(g, n + 1)
    BY <2>2
  <2>. HIDE DEF Joined, g
  <2>. QED BY <2>3
<1>3. Len(ss) \in S
  <2>. HIDE DEF S
  <2>. QED BY <1>1, <1>2, SetInduction
<1>4. PICK f : Joined(f, Len(ss))
  BY <1>3
<1>. DEFINE flatten == CHOOSE h : Joined(h, Len(ss))
<1>5. Joined(flatten, Len(ss))
  BY <1>4
<1>6. FlattenSeq(ss) = flatten[Len(ss)]
  BY DEF FlattenSeq
<1>. HIDE DEF flatten
<1>7. flatten[1] = ss[1]
  BY <1>5
<1>8. ASSUME NEW i \in 2 .. Len(ss) PROVE flatten[i] = flatten[i - 1] \o ss[i]
  <2>1. i \in 1 .. Len(ss) /\ i # 1
    OBVIOUS
  <2>. QED BY <1>5, <2>1
<1>. QED BY <1>6, <1>7, <1>8

\* The last element of joined parts is that of the last part that has one.
LEMMA LastInFlatten ==
    ASSUME NEW T, NEW ss \in Seq(Seq(T)), NEW S
    PROVE  /\ FlattenSeq(ss) \in Seq(T)
           /\ (\A k \in DOMAIN ss : LastIn(ss[k], S) = {}) => LastIn(FlattenSeq(ss), S) = {}
           /\ \A k \in DOMAIN ss :
                 (/\ LastIn(ss[k], S) # {}
                  /\ \A j \in DOMAIN ss : j > k => LastIn(ss[j], S) = {})
                     => LastIn(FlattenSeq(ss), S) = LastIn(ss[k], S)
<1>1. CASE Len(ss) = 0
  <2>1. FlattenSeq(ss) = << >> /\ DOMAIN ss = {}
    BY <1>1 DEF FlattenSeq
  <2>2. LastIn(<< >>, S) = {}
    BY DEF LastIn
  <2>. QED BY <2>1, <2>2
<1>2. CASE Len(ss) # 0
  <2>1. PICK f : /\ f[1] = ss[1]
                 /\ \A i \in 2 .. Len(ss) : f[i] = f[i - 1] \o ss[i]
                 /\ FlattenSeq(ss) = f[Len(ss)]
    BY <1>2, FlattenSteps
  <2>2. /\ DOMAIN ss = 1 .. Len(ss) /\ Len(ss) \in Nat
        /\ \A i \in 1 .. Len(ss) : ss[i] \in Seq(T)
    OBVIOUS
  <2>. DEFINE Good(i) ==
                 /\ f[i] \in Seq(T)
                 /\ (\A k \in 1 .. i : LastIn(ss[k], S) = {}) => LastIn(f[i], S) = {}
                 /\ \A k \in 1 .. i :
                       (/\ LastIn(ss[k], S) # {}
                        /\ \A j \in 1 .. i : j > k => LastIn(ss[j], S) = {})
                           => LastIn(f[i], S) = LastIn(ss[k], S)
              G == {n \in Nat : n < Len(ss) => Good(n + 1)}
  <2>3. 0 \in G
    <3>1. Good(1)
      BY <1>2, <2>1, <2>2
    <3>. HIDE DEF Good
    <3>. QED BY <3>1
  <2>4. ASSUME NEW n \in Nat, n \in G PROVE n + 1 \in G
    <3>. SUFFICES ASSUME n + 1 < Len(ss) PROVE Good(n + 2)
      <4>. HIDE DEF Good
      <4>1. n + 1 + 1 = n + 2
        OBVIOUS
      <4>. QED BY <4>1
    <3>1. Good(n + 1)
      <4>1. n < Len(ss)
        BY <2>2
      <4>. HIDE DEF Good
      <4>. QED BY <2>4, <4>1
    <3>2. n + 2 \in 2 .. Len(ss) /\ n + 2 - 1 = n + 1
      BY <2>2
    <3>3. f[n + 2] = f[n + 1] \o ss[n + 2]
      <4>. DEFINE m == n + 2
      <4>1. m \in 2 .. Len(ss) /\ m - 1 = n + 1
        BY <3>2
      <4>. HIDE DEF m
      <4>2. f[m] = f[n + 1] \o ss[m]
        BY <2>1, <4>1
      <4>. QED BY <4>2 DEF m
    <3>. DEFINE a == f[n + 1]
                b == ss[n + 2]
    <3>4. a \in Seq(T) /\ b \in Seq(T)
      BY <2>2, <3>1, <3>2
    <3>5. /\ f[n + 2] \in Seq(T)
          /\ LastIn(b, S) # {} => LastIn(f[n + 2], S) = LastIn(b, S)
          /\ LastIn(b, S) = {} => LastIn(f[n + 2], S) = LastIn(a, S)
      <4>. HIDE DEF a, b
      <4>1. /\ a \o b \in Seq(T)
            /\ LastIn(b, S) # {} => LastIn(a \o b, S) = LastIn(b, S)
            /\ LastIn(b, S) = {} => LastIn(a \o b, S) = LastIn(a, S)
        BY <3>4, LastInConcat
      <4>2. f[n + 2] = a \o b
        BY <3>3 DEF a, b
      <4>. QED BY <4>1, <4>2
    <3>6. ASSUME \A k \in 1 .. n + 2 : LastIn(ss[k], S) = {} PROVE LastIn(f[n + 2], S) = {}
      <4>1. \A k \in 1 .. n + 1 : k \in 1 .. n + 2
        OBVIOUS
      <4>2. LastIn(a, S) = {}
        BY <3>1, <3>6, <4>1
      <4>3. n + 2 \in 1 .. n + 2
        OBVIOUS
      <4>4. LastIn(b, S) = {}
        BY <3>6, <4>3
      <4>. QED BY <3>5, <4>2, <4>4
    <3>7. ASSUME NEW k \in 1 .. n + 2, LastIn(ss[k], S) # {},
                 \A j \in 1 .. n + 2 : j > k => LastIn(ss[j], S) = {}
          PROVE  LastIn(f[n + 2], S) = LastIn(ss[k], S)
      <4>1. CASE k = n + 2
        BY <3>5, <3>7, <4>1
      <4>2. CASE k # n + 2
        <5>1. k \in 1 .. n + 1 /\ n + 2 > k /\ n + 2 \in 1 .. n + 2
          BY <4>2
        <5>2. LastIn(b, S) = {}
          BY <3>7, <5>1
        <5>3. \A j \in 1 .. n + 1 : j \in 1 .. n + 2
          OBVIOUS
        <5>4. LastIn(a, S) = LastIn(ss[k], S)
          BY <3>1, <3>7, <5>1, <5>3
        <5>. QED BY <3>5, <5>2, <5>4
      <4>. QED BY <4>1, <4>2
    <3>. QED BY <3>5, <3>6, <3>7
  <2>5. Good(Len(ss))
    <3>1. Nat \subseteq G
      <4>. HIDE DEF G
      <4>. QED BY <2>3, <2>4, SetInduction
    <3>2. Len(ss) - 1 \in Nat /\ Len(ss) - 1 < Len(ss) /\ Len(ss) - 1 + 1 = Len(ss)
      BY <1>2, <2>2
    <3>. HIDE DEF Good
    <3>. QED BY <3>1, <3>2
  <2>. QED BY <2>1, <2>2, <2>5
<1>. QED BY <1>1, <1>2

LEMMA LastPart ==
    ASSUME NEW T, NEW ss \in Seq(Seq(T)), NEW S
    PROVE  \/ /\ LastIn(FlattenSeq(ss), S) = {}
              /\ \A k \in DOMAIN ss : LastIn(ss[k], S) = {}
           \/ \E k \in DOMAIN ss : /\ LastIn(FlattenSeq(ss), S) = LastIn(ss[k], S)
                                   /\ LastIn(ss[k], S) # {}
                                   /\ \A j \in DOMAIN ss : j > k => LastIn(ss[j], S) = {}
<1>. DEFINE at == {k \in DOMAIN ss : LastIn(ss[k], S) # {}}
<1>1. CASE at = {}
  <2>1. \A k \in DOMAIN ss : LastIn(ss[k], S) = {}
    BY <1>1
  <2>. QED BY <2>1, LastInFlatten
<1>2. CASE at # {}
  <2>1. at \subseteq 0 .. Len(ss) /\ Len(ss) \in Nat
    OBVIOUS
  <2>2. PICK k \in at : \A j \in at : j <= k
    <3>. HIDE DEF at
    <3>. QED BY <1>2, <2>1, GreatestOf
  <2>3. ASSUME NEW j \in DOMAIN ss, j > k PROVE LastIn(ss[j], S) = {}
    <3>1. j \in Nat /\ k \in Nat
      BY <2>1
    <3>2. ~(j <= k)
      BY <2>3, <3>1
    <3>. QED BY <2>2, <3>2
  <2>4. LastIn(FlattenSeq(ss), S) = LastIn(ss[k], S)
    BY <2>2, <2>3, LastInFlatten
  <2>. QED BY <2>2, <2>3, <2>4
<1>. QED BY <1>1, <1>2

\* The last of the parts that are one element of S.
Selected(ss, S) ==
    {x \in S : \E i \in DOMAIN ss :
                  /\ ss[i] = <<x>>
                  /\ \A j \in DOMAIN ss : j > i => \A y \in S : ss[j] # <<y>>}

AtMostOne(ss, T) == \A k \in DOMAIN ss : ss[k] = << >> \/ \E x \in T : ss[k] = <<x>>

LEMMA LastSelected ==
    ASSUME NEW T, NEW ss \in Seq(Seq(T)), NEW S, AtMostOne(ss, T)
    PROVE  FlattenSeq(ss) \in Seq(T) /\ LastIn(FlattenSeq(ss), S) = Selected(ss, S)
<1>1. \A k \in DOMAIN ss : \A x : x \in LastIn(ss[k], S) <=> x \in S /\ ss[k] = <<x>>
  <2>. TAKE k \in DOMAIN ss
  <2>1. CASE ss[k] = << >>
    BY <2>1 DEF LastIn
  <2>. SUFFICES ASSUME ss[k] # << >>
                PROVE  \A x : x \in LastIn(ss[k], S) <=> x \in S /\ ss[k] = <<x>>
    BY <2>1
  <2>2. ASSUME NEW z \in T, ss[k] = <<z>>
        PROVE  \A x : x \in LastIn(ss[k], S) <=> x \in S /\ ss[k] = <<x>>
    <3>1. DOMAIN ss[k] = {1} /\ ss[k][1] = z
      BY <2>2
    <3>2. \A x : x \in LastIn(ss[k], S) <=> x = z /\ z \in S
      BY <3>1 DEF LastIn
    <3>3. \A x : ss[k] = <<x>> <=> x = z
      BY <2>2, <3>1
    <3>. QED BY <3>2, <3>3
  <2>. QED BY <2>2 DEF AtMostOne
<1>2. DOMAIN ss \subseteq Nat
  OBVIOUS
<1>3. CASE \A k \in DOMAIN ss : LastIn(ss[k], S) = {}
  <2>1. \A k \in DOMAIN ss, y \in S : ss[k] # <<y>>
    BY <1>1, <1>3
  <2>2. Selected(ss, S) = {}
    BY <2>1 DEF Selected
  <2>. QED BY <1>3, <2>2, LastInFlatten
<1>4. ASSUME NEW k \in DOMAIN ss, LastIn(FlattenSeq(ss), S) = LastIn(ss[k], S),
             LastIn(ss[k], S) # {}, \A j \in DOMAIN ss : j > k => LastIn(ss[j], S) = {}
      PROVE  LastIn(FlattenSeq(ss), S) = Selected(ss, S)
  <2>1. PICK z : z \in S /\ ss[k] = <<z>>
    BY <1>1, <1>4
  <2>2. \A j \in DOMAIN ss : j > k => \A y \in S : ss[j] # <<y>>
    BY <1>1, <1>4
  <2>3. ASSUME NEW i \in DOMAIN ss, NEW x \in S, ss[i] = <<x>>,
               \A j \in DOMAIN ss : j > i => \A y \in S : ss[j] # <<y>>
        PROVE  i = k
    <3>1. ~(i > k) /\ ~(k > i)
      BY <2>1, <2>2, <2>3
    <3>. QED BY <1>2, <3>1
  <2>4. \A x : x \in Selected(ss, S) <=> x \in S /\ ss[k] = <<x>>
    BY <2>2, <2>3 DEF Selected
  <2>. QED BY <1>1, <1>4, <2>4
<1>5. FlattenSeq(ss) \in Seq(T)
  BY LastInFlatten
<1>6. \/ \A k \in DOMAIN ss : LastIn(ss[k], S) = {}
      \/ \E k \in DOMAIN ss : /\ LastIn(FlattenSeq(ss), S) = LastIn(ss[k], S)
                              /\ LastIn(ss[k], S) # {}
                              /\ \A j \in DOMAIN ss : j > k => LastIn(ss[j], S) = {}
  BY LastPart
<1>. QED BY <1>3, <1>4, <1>5, <1>6

-----------------------------------------------------------------------------
(* Relayed lines, and how they are ordered *)

MergedLine == [mod : Mod \cup {AutoSeasons}, base : Ref, target : Target]

IsSwapOf(l, r) == Names(l.base, r) /\ l.target \in Ref

\* the lines that swap r, and those of one mod
Swapping(r) == {l \in MergedLine : IsSwapOf(l, r)}
SwappingBy(r, m) == {l \in Swapping(r) : l.mod = m}

LEMMA LastSwapIsLastIn ==
    ASSUME NEW q \in Seq(MergedLine), NEW r
    PROVE  LastSwap(q, r) = LastIn(q, Swapping(r))
<1>1. \A i \in DOMAIN q : q[i] \in MergedLine
  OBVIOUS
<1>2. \A i \in DOMAIN q : q[i] \in Swapping(r) <=> Names(q[i].base, r) /\ q[i].target \in Ref
  BY <1>1 DEF Swapping, IsSwapOf
<1>. QED BY <1>2 DEF LastSwap, LastIn

LEMMA LinesOfLast ==
    ASSUME NEW raw \in Seq(MergedLine), NEW mods, NEW S
    PROVE  /\ LinesOf(raw, mods) \in Seq(MergedLine)
           /\ LastIn(LinesOf(raw, mods), S) = LastIn(raw, {l \in S : l.mod \in mods})
<1>. DEFINE ss == [i \in DOMAIN raw |-> IF raw[i].mod \in mods THEN <<raw[i]>> ELSE << >>]
            C == {l \in S : l.mod \in mods}
<1>1. DOMAIN raw = 1 .. Len(raw) /\ Len(raw) \in Nat /\ \A i \in DOMAIN raw : raw[i] \in MergedLine
  OBVIOUS
<1>2. ss \in Seq(Seq(MergedLine)) /\ DOMAIN ss = DOMAIN raw
  <2>1. \A i \in 1 .. Len(raw) : ss[i] \in Seq(MergedLine)
    BY <1>1
  <2>2. ss \in [1 .. Len(raw) -> Seq(MergedLine)]
    BY <1>1, <2>1
  <2>. HIDE DEF ss
  <2>. QED BY <1>1, <2>2
<1>3. \A k \in DOMAIN ss : ss[k] = << >> \/ \E x \in MergedLine : ss[k] = <<x>>
  BY <1>1
<1>4. \A k \in DOMAIN ss : \A x : ss[k] = <<x>> <=> x = raw[k] /\ raw[k].mod \in mods
  OBVIOUS
<1>5. LinesOf(raw, mods) = FlattenSeq(ss)
  BY DEF LinesOf
<1>. HIDE DEF ss
<1>6. FlattenSeq(ss) \in Seq(MergedLine) /\ LastIn(FlattenSeq(ss), S) = Selected(ss, S)
  BY <1>2, <1>3, LastSelected DEF AtMostOne
<1>7. LastIn(raw, C) = {x \in C : \E i \in DOMAIN raw :
                                    /\ x = raw[i]
                                    /\ \A j \in DOMAIN raw : j > i => raw[j] \notin C}
  BY DEF LastIn
<1>8. \A j \in DOMAIN raw : (\A y \in S : ss[j] # <<y>>) <=> raw[j] \notin C
  BY <1>2, <1>4
<1>9. \A i \in DOMAIN raw : \A x : x \in S /\ ss[i] = <<x>> <=> x = raw[i] /\ x \in C
  BY <1>2, <1>4
<1>10. \A x : x \in Selected(ss, S)
                 <=> \E i \in DOMAIN raw :
                        /\ x = raw[i] /\ x \in C
                        /\ \A j \in DOMAIN raw : j > i => raw[j] \notin C
  <2>. HIDE DEF C
  <2>. QED BY <1>2, <1>8, <1>9 DEF Selected
<1>11. LastIn(raw, C) = Selected(ss, S)
  <2>. HIDE DEF C
  <2>. QED BY <1>7, <1>10
<1>. QED BY <1>5, <1>6, <1>11

AsMerged(ini, l) == [mod |-> ini[1], base |-> l.base, target |-> l.target]

\* line i of an ini is relayed under t as x
Relays(ini, t, i, x) ==
    /\ content[ini][i].section = t /\ content[ini][i].target # <<"nopipe">>
    /\ x = AsMerged(ini, content[ini][i])

LEMMA ContentType ==
    ASSUME content \in Contents
    PROVE  /\ DOMAIN content \subseteq Ini
           /\ \A ini \in DOMAIN content : content[ini] \in Seq(Line) /\ ini[1] \in Mod
  BY CoverageAssumption DEF Ini

LEMMA RelayedLast ==
    ASSUME content \in Contents, NEW ini \in DOMAIN content, NEW t, NEW S
    PROVE  /\ RelayedIn(ini, t) \in Seq(MergedLine)
           /\ LastIn(RelayedIn(ini, t), S) =
                {x \in S : \E i \in DOMAIN content[ini] :
                    /\ Relays(ini, t, i, x)
                    /\ \A j \in DOMAIN content[ini] :
                           j > i => \A y \in S : ~Relays(ini, t, j, y)}
<1>. DEFINE q == content[ini]
            ss == [i \in DOMAIN q |-> IF q[i].section = t /\ q[i].target # <<"nopipe">>
                                      THEN <<AsMerged(ini, q[i])>> ELSE << >>]
<1>1. q \in Seq(Line) /\ ini[1] \in Mod
  BY ContentType
<1>2. DOMAIN q = 1 .. Len(q) /\ Len(q) \in Nat /\ \A i \in DOMAIN q : q[i] \in Line
  <2>. HIDE DEF q
  <2>. QED BY <1>1
<1>. HIDE DEF q
<1>3. \A i \in DOMAIN q : AsMerged(ini, q[i]) \in MergedLine
  BY <1>1, <1>2 DEF AsMerged, MergedLine, Line
<1>4. ss \in Seq(Seq(MergedLine)) /\ DOMAIN ss = DOMAIN q
  <2>1. \A i \in 1 .. Len(q) : ss[i] \in Seq(MergedLine)
    BY <1>2, <1>3
  <2>2. ss \in [1 .. Len(q) -> Seq(MergedLine)]
    BY <1>2, <2>1
  <2>. HIDE DEF ss
  <2>. QED BY <1>2, <2>2
<1>5. AtMostOne(ss, MergedLine)
  BY <1>3 DEF AtMostOne
<1>6. \A i \in DOMAIN q : \A x : ss[i] = <<x>> <=> Relays(ini, t, i, x)
  BY DEF Relays, q
<1>7. RelayedIn(ini, t) = FlattenSeq(ss)
  BY DEF RelayedIn, q, AsMerged
<1>. HIDE DEF ss
<1>8. FlattenSeq(ss) \in Seq(MergedLine) /\ LastIn(FlattenSeq(ss), S) = Selected(ss, S)
  BY <1>4, <1>5, LastSelected
<1>9. Selected(ss, S) = {x \in S : \E i \in DOMAIN q :
                            /\ Relays(ini, t, i, x)
                            /\ \A j \in DOMAIN q : j > i => \A y \in S : ~Relays(ini, t, j, y)}
  BY <1>4, <1>6 DEF Selected
<1>. QED BY <1>7, <1>8, <1>9 DEF q

LEMMA RelayedMod ==
    ASSUME content \in Contents, NEW ini \in DOMAIN content, NEW t,
           NEW i \in DOMAIN RelayedIn(ini, t)
    PROVE  RelayedIn(ini, t)[i].mod = ini[1]
<1>. DEFINE q == RelayedIn(ini, t)
            x == q[i]
<1>1. q \in Seq(MergedLine) /\ i \in DOMAIN q /\ q[i] \in {x}
  BY RelayedLast
<1>2. LastIn(q, {x}) # {}
  <2>. HIDE DEF q, x
  <2>. QED BY <1>1, LastInExists
<1>3. x \in LastIn(q, {x})
  <2>. HIDE DEF q, x
  <2>1. PICK y : y \in LastIn(q, {x})
    BY <1>2
  <2>2. y \in {x}
    BY <1>1, <2>1, LastInMember
  <2>. QED BY <2>1, <2>2
<1>4. PICK j \in DOMAIN content[ini] : Relays(ini, t, j, x)
  BY <1>3, RelayedLast
<1>. QED BY <1>4 DEF Relays, AsMerged

\* The settings of a type are sets and sequences of mods, and ranks are places in the sequence.
LEMMA SettingsType ==
    ASSUME settings \in Settings, NEW t
    PROVE  Overrides(t) \subseteq Mod /\ Priority(t) \in Seq(Mod)
  BY CoverageAssumption DEF Overrides, Priority

LEMMA RankType ==
    ASSUME NEW p \in Seq(Mod), NEW m
    PROVE  Len(p) \in Nat /\ Rank(m, p) \in 0 .. Len(p)
<1>. DEFINE at == {i \in DOMAIN p : p[i] = m}
<1>1. Len(p) \in Nat /\ at \subseteq 1 .. Len(p) /\ at \subseteq 0 .. Len(p)
  OBVIOUS
<1>2. Rank(m, p) = IF at = {} THEN 0 ELSE CHOOSE i \in at : \A j \in at : j <= i
  BY DEF Rank
<1>. HIDE DEF at
<1>3. CASE at = {}
  BY <1>1, <1>2, <1>3
<1>4. CASE at # {}
  <2>1. \E i \in at : \A j \in at : j <= i
    BY <1>1, <1>4, GreatestOf
  <2>2. (CHOOSE i \in at : \A j \in at : j <= i) \in at
    BY <2>1
  <2>3. Rank(m, p) \in at
    BY <1>2, <1>4, <2>2
  <2>. QED BY <1>1, <2>3
<1>. QED BY <1>3, <1>4

Group(t, n) == {m \in Mod \ Overrides(t) : Rank(m, Priority(t)) = n}

InGroup(S, t, n) == {l \in S : l.mod \in Group(t, n)}

\* The sorted lines end with those of the highest rank.
LEMMA OrderedLast ==
    ASSUME settings \in Settings, NEW raw \in Seq(MergedLine), NEW t, NEW S
    PROVE  /\ Ordered(raw, t) \in Seq(MergedLine)
           /\ \/ /\ LastIn(Ordered(raw, t), S) = {}
                 /\ \A n \in 0 .. Len(Priority(t)) : LastIn(raw, InGroup(S, t, n)) = {}
              \/ \E n \in 0 .. Len(Priority(t)) :
                    /\ LastIn(Ordered(raw, t), S) = LastIn(raw, InGroup(S, t, n))
                    /\ LastIn(raw, InGroup(S, t, n)) # {}
                    /\ \A k \in 0 .. Len(Priority(t)) :
                           k > n => LastIn(raw, InGroup(S, t, k)) = {}
<1>. DEFINE last == Len(Priority(t))
            ss == [n \in 1 .. last + 1 |-> LinesOf(raw, Group(t, n - 1))]
<1>1. last \in Nat
  BY SettingsType
<1>. HIDE DEF last
<1>2. \A n \in 1 .. last + 1 : ss[n] \in Seq(MergedLine)
  BY LinesOfLast
<1>3. \A n \in 1 .. last + 1 : LastIn(ss[n], S) = LastIn(raw, InGroup(S, t, n - 1))
  BY LinesOfLast DEF InGroup
<1>4. ss \in Seq(Seq(MergedLine)) /\ DOMAIN ss = 1 .. last + 1
  <2>1. ss \in [1 .. last + 1 -> Seq(MergedLine)] /\ last + 1 \in Nat
    BY <1>1, <1>2
  <2>. HIDE DEF ss
  <2>. QED BY <2>1
<1>5. Ordered(raw, t) = FlattenSeq(ss)
  BY DEF Ordered, Group, last
<1>. HIDE DEF ss
<1>6. Ordered(raw, t) \in Seq(MergedLine)
  BY <1>4, <1>5, LastInFlatten
<1>7. CASE /\ LastIn(FlattenSeq(ss), S) = {}
           /\ \A k \in DOMAIN ss : LastIn(ss[k], S) = {}
  <2>1. ASSUME NEW n \in 0 .. last PROVE LastIn(raw, InGroup(S, t, n)) = {}
    <3>1. n + 1 \in 1 .. last + 1 /\ n + 1 - 1 = n
      BY <1>1
    <3>. QED BY <1>3, <1>4, <1>7, <3>1
  <2>. QED BY <1>5, <1>6, <1>7, <2>1 DEF last
<1>8. ASSUME NEW k \in DOMAIN ss, LastIn(FlattenSeq(ss), S) = LastIn(ss[k], S),
             LastIn(ss[k], S) # {}, \A j \in DOMAIN ss : j > k => LastIn(ss[j], S) = {}
      PROVE  \E n \in 0 .. last :
                /\ LastIn(Ordered(raw, t), S) = LastIn(raw, InGroup(S, t, n))
                /\ LastIn(raw, InGroup(S, t, n)) # {}
                /\ \A h \in 0 .. last : h > n => LastIn(raw, InGroup(S, t, h)) = {}
  <2>1. k - 1 \in 0 .. last
    BY <1>1, <1>4
  <2>2. LastIn(ss[k], S) = LastIn(raw, InGroup(S, t, k - 1))
    BY <1>3, <1>4
  <2>3. ASSUME NEW h \in 0 .. last, h > k - 1 PROVE LastIn(raw, InGroup(S, t, h)) = {}
    <3>1. h + 1 \in 1 .. last + 1 /\ h + 1 - 1 = h /\ h + 1 > k
      BY <1>1, <1>4, <2>3
    <3>. QED BY <1>3, <1>4, <1>8, <3>1
  <2>. QED BY <1>5, <1>8, <2>1, <2>2, <2>3
<1>9. \/ /\ LastIn(FlattenSeq(ss), S) = {}
         /\ \A k \in DOMAIN ss : LastIn(ss[k], S) = {}
      \/ \E k \in DOMAIN ss : /\ LastIn(FlattenSeq(ss), S) = LastIn(ss[k], S)
                              /\ LastIn(ss[k], S) # {}
                              /\ \A j \in DOMAIN ss : j > k => LastIn(ss[j], S) = {}
  BY <1>4, LastPart
<1>10. CASE \E k \in DOMAIN ss : /\ LastIn(FlattenSeq(ss), S) = LastIn(ss[k], S)
                                 /\ LastIn(ss[k], S) # {}
                                 /\ \A j \in DOMAIN ss : j > k => LastIn(ss[j], S) = {}
  BY <1>6, <1>8, <1>10 DEF last
<1>. QED BY <1>7, <1>9, <1>10

\* The winner of resolveEffectiveCoverage has the highest rank.
LEMMA WinnerRanksHighest ==
    ASSUME NEW p \in Seq(Mod), NEW candidates, candidates # {}, \A c \in candidates : c.mod \in Mod
    PROVE  /\ PickWinner(candidates, p) \in candidates
           /\ \A d \in candidates : Rank(d.mod, p) <= Rank(PickWinner(candidates, p).mod, p)
<1>. DEFINE ranked == {c \in candidates : Rank(c.mod, p) # 0}
            highest(c) == \A d \in ranked : Rank(d.mod, p) <= Rank(c.mod, p)
            first(c) == \A d \in candidates : c.mod <= d.mod
            w == PickWinner(candidates, p)
<1>1. w = IF ranked # {} THEN CHOOSE c \in ranked : highest(c)
                         ELSE CHOOSE c \in candidates : first(c)
  BY DEF PickWinner
<1>2. \A m : Rank(m, p) \in 0 .. Len(p) /\ Len(p) \in Nat
  BY RankType
<1>. HIDE DEF w
<1>3. CASE ranked = {}
  <2>1. w = CHOOSE c \in candidates : first(c)
    BY <1>1, <1>3
  <2>. DEFINE mods == {c.mod : c \in candidates}
  <2>2. mods # {} /\ mods \subseteq Nat
    BY DEF Mod
  <2>3. PICK m \in mods : \A k \in mods : m <= k
    <3>. HIDE DEF mods
    <3>. QED BY <2>2, LeastOf
  <2>4. PICK c \in candidates : c.mod = m
    OBVIOUS
  <2>5. first(c)
    BY <2>3, <2>4
  <2>6. w \in candidates
    <3>. HIDE DEF first
    <3>. QED BY <2>1, <2>5
  <2>7. \A d \in candidates : Rank(d.mod, p) = 0
    BY <1>3
  <2>. QED BY <2>6, <2>7 DEF w
<1>4. CASE ranked # {}
  <2>1. w = CHOOSE c \in ranked : highest(c)
    BY <1>1, <1>4
  <2>. DEFINE ranks == {Rank(c.mod, p) : c \in ranked}
  <2>2. ranks # {} /\ ranks \subseteq 0 .. Len(p) /\ Len(p) \in Nat
    BY <1>2, <1>4
  <2>3. PICK n \in ranks : \A k \in ranks : k <= n
    <3>. HIDE DEF ranks
    <3>. QED BY <2>2, GreatestOf
  <2>4. PICK c \in ranked : Rank(c.mod, p) = n
    OBVIOUS
  <2>5. highest(c)
    BY <2>3, <2>4
  <2>6. w \in ranked /\ highest(w)
    <3>. HIDE DEF highest, ranked
    <3>. QED BY <2>1, <2>5
  <2>7. \A d \in candidates : Rank(d.mod, p) <= Rank(w.mod, p)
    BY <1>2, <2>6
  <2>. QED BY <2>6, <2>7 DEF w
<1>. QED BY <1>3, <1>4

-----------------------------------------------------------------------------
(* The inductive invariant *)

TypeInv ==
    /\ content \in Contents /\ settings \in Settings
    /\ phase \in {"scan", "request", "generate", "order", "write", "neutralise", "done"}
    /\ folded \subseteq DOMAIN content
    /\ lines \in [Season \X Type -> Seq(MergedLine)]
    /\ IsFiniteSet(requests) /\ swaps \subseteq requests /\ opened \subseteq Season

\* the indexes hold what the inis that were read say
CoverageInv ==
    /\ covering = UNION {CoveringIn(ini) : ini \in folded}
    /\ known = UNION {SeasonalTargetsIn(ini) : ini \in folded}

\* requests were decided by the coverage there still is
RequestInv ==
    /\ phase \in {"scan", "request"} => requests = {}
    /\ \A q \in requests : /\ <<q.rec, q.season>> \in Bases
                           /\ q.grass = BorrowedGrass(q.rec, q.season)
                           /\ ~LeftAlone(q.rec, q.season)

\* Until the lines are ordered, they are those of inis that were read, and the last line of a
\* mod for a record is that of its ini.
RawInv ==
    phase \in {"scan", "request", "generate", "order"} =>
        \A s \in Season, t \in Type :
            /\ \A i \in DOMAIN lines[<<s, t>>] : <<lines[<<s, t>>][i].mod, s>> \in folded
            /\ \A r \in Record, m \in Mod :
                   <<m, s>> \in folded =>
                       LastIn(lines[<<s, t>>], SwappingBy(r, m))
                           = LastSwap(RelayedIn(<<m, s>>, t), r)

\* Then, no line is one of an overridden mod, and the last one for a record is the preferred.
SortedInv ==
    phase \in {"write", "neutralise", "done"} =>
        /\ \A s \in Season, t \in Type : \A i \in DOMAIN lines[<<s, t>>] :
               lines[<<s, t>>][i].mod \in Mod \ Overrides(t)
        /\ \A r \in SwapRecord, s \in Season : \A c \in Preferred(r, s) :
               LastSwap(lines[<<s, TypeOf[r]>>], r) = {c}

CoverInv == TypeInv /\ CoverageInv /\ RequestInv /\ RawInv /\ SortedInv

LEMMA LastInSubset ==
    ASSUME NEW T, NEW q \in Seq(T), NEW S, NEW R, R \subseteq S, NEW l \in LastIn(q, S), l \in R
    PROVE  l \in LastIn(q, R)
  BY DEF LastIn

LEMMA SameCoverage ==
    ASSUME UNCHANGED <<inputs, coverage>>
    PROVE  /\ \A ini, t : RelayedIn(ini, t)' = RelayedIn(ini, t)
           /\ \A t : Overrides(t)' = Overrides(t) /\ Priority(t)' = Priority(t)
           /\ \A r, s : /\ BorrowedGrass(r, s)' = BorrowedGrass(r, s)
                        /\ LeftAlone(r, s)' = LeftAlone(r, s)
                        /\ Preferred(r, s)' = Preferred(r, s)
           /\ \A ini : /\ CoveringIn(ini)' = CoveringIn(ini)
                       /\ SeasonalTargetsIn(ini)' = SeasonalTargetsIn(ini)
<1>1. content' = content /\ settings' = settings /\ folded' = folded
      /\ covering' = covering /\ known' = known
  BY DEF inputs, coverage
<1>2. \A ini, t : RelayedIn(ini, t)' = RelayedIn(ini, t)
  BY <1>1 DEF RelayedIn
<1>3. \A t : Overrides(t)' = Overrides(t) /\ Priority(t)' = Priority(t)
  BY <1>1 DEF Overrides, Priority
<1>4. \A r, s : CoveringMods(r, s)' = CoveringMods(r, s) /\ IsCovered(r, s)' = IsCovered(r, s)
  BY <1>1 DEF CoveringMods, IsCovered, ByEditorID, CoveringBy
<1>5. \A r, s : Respected(r, s)' = Respected(r, s)
  BY <1>3, <1>4 DEF Respected
<1>6. \A r, s : StillCovered(r, s)' = StillCovered(r, s)
  BY <1>4, <1>5 DEF StillCovered
<1>7. \A r, s : EffectiveTarget(r, s)' = EffectiveTarget(r, s)
  BY <1>3, <1>4, <1>5 DEF EffectiveTarget
<1>8. \A r, s : BorrowedGrass(r, s)' = BorrowedGrass(r, s)
  BY <1>4, <1>6, <1>7 DEF BorrowedGrass
<1>9. \A r, s : LeftAlone(r, s)' = LeftAlone(r, s)
  BY <1>4, <1>6, <1>8 DEF LeftAlone
<1>10. \A r, s : RespectedSwaps(r, s)' = RespectedSwaps(r, s)
  BY <1>1, <1>2, <1>3 DEF RespectedSwaps
<1>11. \A r, s : Preferred(r, s)' = Preferred(r, s)
  BY <1>3, <1>10 DEF Preferred
<1>12. \A ini : /\ CoveringIn(ini)' = CoveringIn(ini)
                /\ SeasonalTargetsIn(ini)' = SeasonalTargetsIn(ini)
  BY <1>1 DEF CoveringIn, SeasonalTargetsIn, Recognised
<1>. QED BY <1>2, <1>3, <1>8, <1>9, <1>11, <1>12

LEMMA SwapRecordType ==
    ASSUME NEW r \in SwapRecord
    PROVE  r \in Record /\ TypeOf[r] \in Type
  BY DEF SwapRecord

\* A swap of a respected mod is the last line for the record in an ini that was read.
LEMMA RespectedSwap ==
    ASSUME TypeInv, NEW r \in SwapRecord, NEW s \in Season, NEW c \in RespectedSwaps(r, s)
    PROVE  /\ c \in Swapping(r) /\ c.mod \in Mod \ Overrides(TypeOf[r])
           /\ <<c.mod, s>> \in folded /\ <<c.mod, s>> \in DOMAIN content
           /\ LastSwap(RelayedIn(<<c.mod, s>>, TypeOf[r]), r) = {c}
<1>. DEFINE t == TypeOf[r]
<1>1. PICK m \in Mod \ Overrides(t) : /\ <<m, s>> \in folded
                                      /\ c \in LastSwap(RelayedIn(<<m, s>>, t), r)
  BY DEF RespectedSwaps
<1>. DEFINE q == RelayedIn(<<m, s>>, t)
<1>2. <<m, s>> \in DOMAIN content /\ content \in Contents
  BY <1>1 DEF TypeInv
<1>3. q \in Seq(MergedLine)
  BY <1>2, RelayedLast
<1>4. c \in LastIn(q, Swapping(r)) /\ LastSwap(q, r) = LastIn(q, Swapping(r))
  BY <1>1, <1>3, LastSwapIsLastIn
<1>5. /\ c \in Swapping(r) /\ LastIn(q, Swapping(r)) = {c} /\ \E i \in DOMAIN q : q[i] = c
  <2>. HIDE DEF q
  <2>. QED BY <1>3, <1>4, LastInMember
<1>6. c.mod = m
  BY <1>2, <1>5, RelayedMod
<1>. QED BY <1>1, <1>2, <1>4, <1>5, <1>6

\* Once sorted, the line for a record that the priorities prefer is the last one for it.
LEMMA PreferredIsLast ==
    ASSUME TypeInv, RawInv, phase = "order",
           NEW r \in SwapRecord, NEW s \in Season, NEW c \in Preferred(r, s)
    PROVE  LastSwap(Ordered(lines[<<s, TypeOf[r]>>], TypeOf[r]), r) = {c}
<1>. DEFINE t == TypeOf[r]
            raw == lines[<<s, t>>]
            S == Swapping(r)
            rank(l) == Rank(l.mod, Priority(t))
<1>1. r \in Record /\ t \in Type /\ settings \in Settings
  BY SwapRecordType DEF TypeInv
<1>2. raw \in Seq(MergedLine)
  BY <1>1 DEF TypeInv
<1>3. \A i \in DOMAIN raw : <<raw[i].mod, s>> \in folded
  BY <1>1 DEF RawInv
<1>4. \A m \in Mod : <<m, s>> \in folded =>
          LastIn(raw, SwappingBy(r, m)) = LastSwap(RelayedIn(<<m, s>>, t), r)
  BY <1>1 DEF RawInv
<1>. HIDE DEF raw
<1>5. /\ c \in RespectedSwaps(r, s)
      /\ \A d \in RespectedSwaps(r, s) \ {c} : rank(d) < rank(c)
  BY DEF Preferred
<1>6. /\ c \in S /\ c.mod \in Mod \ Overrides(t) /\ <<c.mod, s>> \in folded
      /\ LastSwap(RelayedIn(<<c.mod, s>>, t), r) = {c}
  BY <1>5, RespectedSwap
<1>7. rank(c) \in 0 .. Len(Priority(t)) /\ Len(Priority(t)) \in Nat
  BY <1>1, SettingsType, RankType
<1>8. LastIn(raw, InGroup(S, t, rank(c))) # {}
  <2>1. c \in LastIn(raw, SwappingBy(r, c.mod))
    BY <1>4, <1>6
  <2>2. PICK i \in DOMAIN raw : raw[i] = c
    BY <1>2, <2>1, LastInMember
  <2>3. c \in InGroup(S, t, rank(c))
    BY <1>6 DEF InGroup, Group
  <2>. QED BY <1>2, <2>2, <2>3, LastInExists
<1>9. ASSUME NEW n \in 0 .. Len(Priority(t)), NEW l \in LastIn(raw, InGroup(S, t, n))
      PROVE  l \in RespectedSwaps(r, s) /\ rank(l) = n
  <2>1. l \in InGroup(S, t, n) /\ \E i \in DOMAIN raw : raw[i] = l
    BY <1>2, LastInMember
  <2>2. l \in S /\ l.mod \in Mod \ Overrides(t) /\ rank(l) = n
    BY <2>1 DEF InGroup, Group
  <2>3. <<l.mod, s>> \in folded
    BY <1>3, <2>1
  <2>4. SwappingBy(r, l.mod) \subseteq InGroup(S, t, n) /\ l \in SwappingBy(r, l.mod)
    BY <2>1, <2>2 DEF SwappingBy, InGroup
  <2>5. l \in LastIn(raw, SwappingBy(r, l.mod))
    BY <1>2, <2>4, LastInSubset
  <2>6. l \in LastSwap(RelayedIn(<<l.mod, s>>, t), r)
    BY <1>4, <2>2, <2>3, <2>5
  <2>. QED BY <2>2, <2>3, <2>6 DEF RespectedSwaps
<1>10. PICK n \in 0 .. Len(Priority(t)) :
          /\ LastIn(Ordered(raw, t), S) = LastIn(raw, InGroup(S, t, n))
          /\ LastIn(raw, InGroup(S, t, n)) # {}
          /\ \A k \in 0 .. Len(Priority(t)) : k > n => LastIn(raw, InGroup(S, t, k)) = {}
  <2>. HIDE DEF S, t, rank
  <2>. QED BY <1>1, <1>2, <1>7, <1>8, OrderedLast
<1>11. PICK l : l \in LastIn(raw, InGroup(S, t, n))
  BY <1>10
<1>12. l \in RespectedSwaps(r, s) /\ rank(l) = n
  BY <1>9, <1>11
<1>13. ~(rank(c) > n)
  BY <1>7, <1>8, <1>10
<1>14. l = c
  BY <1>5, <1>7, <1>12, <1>13
<1>15. LastIn(raw, InGroup(S, t, n)) = {c}
  BY <1>2, <1>11, <1>14, LastInMember
<1>16. Ordered(raw, t) \in Seq(MergedLine)
  BY <1>1, <1>2, OrderedLast
<1>17. LastSwap(Ordered(raw, t), r) = {c}
  BY <1>10, <1>15, <1>16, LastSwapIsLastIn
<1>. QED BY <1>17 DEF raw

\* Sorting keeps no line of an overridden mod.
LEMMA OrderedFilters ==
    ASSUME settings \in Settings, NEW raw \in Seq(MergedLine), NEW t,
           NEW i \in DOMAIN Ordered(raw, t)
    PROVE  Ordered(raw, t)[i].mod \in Mod \ Overrides(t)
<1>. DEFINE q == Ordered(raw, t)
            x == q[i]
<1>1. q \in Seq(MergedLine) /\ i \in DOMAIN q /\ q[i] \in {x}
  BY OrderedLast
<1>2. LastIn(q, {x}) # {}
  <2>. HIDE DEF q, x
  <2>. QED BY <1>1, LastInExists
<1>3. PICK n \in 0 .. Len(Priority(t)) : LastIn(raw, InGroup({x}, t, n)) # {}
  <2>. DEFINE R == {x}
  <2>. HIDE DEF x, R
  <2>1. \/ LastIn(Ordered(raw, t), R) = {}
        \/ \E n \in 0 .. Len(Priority(t)) : /\ LastIn(Ordered(raw, t), R)
                                                = LastIn(raw, InGroup(R, t, n))
                                            /\ LastIn(raw, InGroup(R, t, n)) # {}
    BY OrderedLast
  <2>2. \E n \in 0 .. Len(Priority(t)) : LastIn(raw, InGroup(R, t, n)) # {}
    BY <1>2, <2>1 DEF R
  <2>. QED BY <2>2 DEF R
<1>4. PICK l : l \in LastIn(raw, InGroup({x}, t, n))
  BY <1>3
<1>5. l \in InGroup({x}, t, n)
  BY <1>4, LastInMember
<1>6. x.mod \in Group(t, n)
  BY <1>5 DEF InGroup
<1>. QED BY <1>6 DEF Group

-----------------------------------------------------------------------------
(* The invariant holds *)

LEMMA CoverInit ==
    ASSUME Init
    PROVE  CoverInv
<1>1. << >> \in Seq(MergedLine)
  OBVIOUS
<1>2. TypeInv
  BY <1>1, FS_EmptySet DEF Init, TypeInv
<1>3. CoverageInv /\ RequestInv /\ SortedInv
  BY DEF Init, CoverageInv, RequestInv, SortedInv
<1>4. RawInv
  <2>1. \A s \in Season, t \in Type : lines[<<s, t>>] = << >>
    BY DEF Init
  <2>2. DOMAIN << >> = {} /\ folded = {}
    BY DEF Init
  <2>. QED BY <2>1, <2>2 DEF RawInv
<1>. QED BY <1>2, <1>3, <1>4 DEF CoverInv

\* What a step leaves of the invariant when it changes neither coverage nor lines.
LEMMA CoverSame ==
    ASSUME CoverInv, UNCHANGED <<inputs, coverage, lines>>,
           phase' \in {"scan", "request", "generate", "order", "write", "neutralise", "done"},
           phase' \in {"scan", "request", "generate", "order"}
               <=> phase \in {"scan", "request", "generate", "order"},
           IsFiniteSet(requests'), swaps' \subseteq requests', opened' \subseteq Season,
           phase' \in {"scan", "request"} => requests' = {},
           \A q \in requests' : /\ <<q.rec, q.season>> \in Bases
                                /\ q.grass = BorrowedGrass(q.rec, q.season)
                                /\ ~LeftAlone(q.rec, q.season)
    PROVE  CoverInv'
<1>1. content' = content /\ settings' = settings /\ folded' = folded /\ lines' = lines
      /\ covering' = covering /\ known' = known
  BY DEF inputs, coverage
<1>2. TypeInv'
  BY <1>1 DEF CoverInv, TypeInv
<1>3. CoverageInv'
  BY <1>1, SameCoverage DEF CoverInv, CoverageInv
<1>4. RequestInv'
  BY SameCoverage DEF RequestInv
<1>5. RawInv'
  <2>1. \A ini, t, r : LastSwap(RelayedIn(ini, t), r)' = LastSwap(RelayedIn(ini, t), r)
    BY SameCoverage DEF LastSwap
  <2>. QED BY <1>1, <2>1 DEF CoverInv, RawInv
<1>6. SortedInv'
  <2>1. phase' \in {"write", "neutralise", "done"} => phase \in {"write", "neutralise", "done"}
    BY DEF CoverInv, TypeInv
  <2>2. \A s, r : LastSwap(lines[<<s, TypeOf[r]>>], r)' = LastSwap(lines[<<s, TypeOf[r]>>], r)
    BY <1>1 DEF LastSwap
  <2>. QED BY <1>1, <2>1, <2>2, SameCoverage DEF CoverInv, SortedInv
<1>. QED BY <1>2, <1>3, <1>4, <1>5, <1>6 DEF CoverInv

LEMMA ReadIniKeeps ==
    ASSUME CoverInv, NEW ini \in DOMAIN content, ReadIni(ini)
    PROVE  CoverInv'
<1>1. /\ phase = "scan" /\ phase' = "scan" /\ ini \notin folded
      /\ content' = content /\ settings' = settings
      /\ folded' = folded \cup {ini}
      /\ covering' = covering \cup CoveringIn(ini)
      /\ known' = known \cup SeasonalTargetsIn(ini)
      /\ lines' = [k \in Season \X Type |->
                      IF k[1] = ini[2] THEN lines[k] \o RelayedIn(ini, k[2]) ELSE lines[k]]
      /\ requests' = requests /\ swaps' = swaps /\ opened' = opened
  BY DEF ReadIni, inputs, output
<1>2. content \in Contents /\ settings \in Settings /\ folded \subseteq DOMAIN content
      /\ IsFiniteSet(requests) /\ swaps \subseteq requests /\ requests = {}
      /\ opened \subseteq Season
  BY <1>1 DEF CoverInv, TypeInv, RequestInv
<1>3. \A k \in Season \X Type : lines[k] \in Seq(MergedLine)
  BY DEF CoverInv, TypeInv
<1>4. \A t : RelayedIn(ini, t) \in Seq(MergedLine)
  BY <1>2, RelayedLast
<1>5. /\ \A i, t : RelayedIn(i, t)' = RelayedIn(i, t)
      /\ \A i : CoveringIn(i)' = CoveringIn(i) /\ SeasonalTargetsIn(i)' = SeasonalTargetsIn(i)
  BY <1>1 DEF RelayedIn, CoveringIn, SeasonalTargetsIn, Recognised
<1>6. TypeInv'
  <2>1. \A k \in Season \X Type : lines'[k] \in Seq(MergedLine)
    <3>. TAKE k \in Season \X Type
    <3>1. lines[k] \o RelayedIn(ini, k[2]) \in Seq(MergedLine)
      BY <1>3, <1>4
    <3>. QED BY <1>1, <1>3, <3>1
  <2>2. lines' \in [Season \X Type -> Seq(MergedLine)]
    BY <1>1, <2>1
  <2>. QED BY <1>1, <1>2, <2>2 DEF TypeInv
<1>7. CoverageInv'
  BY <1>1, <1>5 DEF CoverInv, CoverageInv
<1>8. RequestInv' /\ SortedInv'
  BY <1>1, <1>2 DEF RequestInv, SortedInv
<1>9. RawInv'
  <2>. SUFFICES ASSUME NEW s \in Season, NEW t \in Type
                PROVE  /\ \A i \in DOMAIN lines'[<<s, t>>] :
                              <<lines'[<<s, t>>][i].mod, s>> \in folded'
                       /\ \A r \in Record, m \in Mod :
                              <<m, s>> \in folded' =>
                                  LastIn(lines'[<<s, t>>], SwappingBy(r, m))
                                      = LastSwap(RelayedIn(<<m, s>>, t), r)
    <3>1. \A i, h, r : LastSwap(RelayedIn(i, h), r)' = LastSwap(RelayedIn(i, h), r)
      BY <1>5 DEF LastSwap
    <3>. QED BY <3>1 DEF RawInv
  <2>. DEFINE old == lines[<<s, t>>]
              new == RelayedIn(ini, t)
  <2>1. old \in Seq(MergedLine) /\ new \in Seq(MergedLine)
    BY <1>3, <1>4
  <2>2. /\ \A i \in DOMAIN old : <<old[i].mod, s>> \in folded
        /\ \A r \in Record, m \in Mod : <<m, s>> \in folded =>
              LastIn(old, SwappingBy(r, m)) = LastSwap(RelayedIn(<<m, s>>, t), r)
    BY <1>1 DEF CoverInv, RawInv
  <2>3. lines'[<<s, t>>] = IF s = ini[2] THEN old \o new ELSE old
    BY <1>1
  <2>4. \A i \in DOMAIN new : new[i].mod = ini[1]
    BY <1>2, RelayedMod
  <2>5. ini = <<ini[1], ini[2]>> /\ ini[1] \in Mod
    BY <1>2, ContentType DEF Ini
  <2>. HIDE DEF old, new
  <2>6. CASE s # ini[2]
    <3>1. lines'[<<s, t>>] = old
      BY <2>3, <2>6
    <3>2. \A m \in Mod : <<m, s>> \in folded' => <<m, s>> \in folded
      BY <1>1, <2>5, <2>6
    <3>. QED BY <1>1, <2>2, <3>1, <3>2
  <2>7. CASE s = ini[2]
    <3>1. lines'[<<s, t>>] = old \o new
      BY <2>3, <2>7
    <3>2. \A i \in DOMAIN (old \o new) : <<(old \o new)[i].mod, s>> \in folded'
      <4>1. \A i \in DOMAIN (old \o new) : \/ i \in DOMAIN old /\ (old \o new)[i] = old[i]
                                           \/ /\ i - Len(old) \in DOMAIN new
                                              /\ (old \o new)[i] = new[i - Len(old)]
        BY <2>1
      <4>2. <<ini[1], s>> \in folded'
        BY <1>1, <2>5, <2>7
      <4>. QED BY <1>1, <2>2, <2>4, <4>1, <4>2
    <3>3. ASSUME NEW r \in Record, NEW m \in Mod, <<m, s>> \in folded'
          PROVE  LastIn(old \o new, SwappingBy(r, m)) = LastSwap(RelayedIn(<<m, s>>, t), r)
      <4>. DEFINE S == SwappingBy(r, m)
      <4>1. CASE m = ini[1]
        <5>1. <<m, s>> = ini
          BY <2>5, <2>7, <4>1
        <5>2. \A i \in DOMAIN old : old[i] \notin S
          BY <1>1, <2>2, <5>1 DEF SwappingBy
        <5>3. LastIn(old, S) = {}
          BY <2>1, <5>2, LastInEmpty
        <5>4. \A i \in DOMAIN new : new[i] \in S <=> new[i] \in Swapping(r)
          BY <2>4, <4>1 DEF SwappingBy
        <5>5. LastIn(new, S) = LastIn(new, Swapping(r))
          BY <5>4 DEF LastIn
        <5>6. LastIn(new, S) = LastSwap(RelayedIn(<<m, s>>, t), r)
          BY <2>1, <5>1, <5>5, LastSwapIsLastIn DEF new
        <5>7. LastIn(old \o new, S) = LastIn(new, S)
          <6>. HIDE DEF S
          <6>1. /\ LastIn(new, S) # {} => LastIn(old \o new, S) = LastIn(new, S)
                /\ LastIn(new, S) = {} => LastIn(old \o new, S) = LastIn(old, S)
            BY <2>1, LastInConcat
          <6>. QED BY <5>3, <6>1
        <5>. QED BY <5>6, <5>7
      <4>2. CASE m # ini[1]
        <5>1. <<m, s>> \in folded
          BY <1>1, <2>5, <3>3, <4>2
        <5>2. \A i \in DOMAIN new : new[i] \notin S
          BY <2>4, <4>2 DEF SwappingBy
        <5>3. LastIn(new, S) = {}
          BY <2>1, <5>2, LastInEmpty
        <5>4. LastIn(old \o new, S) = LastIn(old, S)
          <6>. HIDE DEF S
          <6>. QED BY <2>1, <5>3, LastInConcat
        <5>. QED BY <2>2, <5>1, <5>4
      <4>. QED BY <4>1, <4>2
    <3>. QED BY <3>1, <3>2, <3>3
  <2>. QED BY <2>6, <2>7
<1>. QED BY <1>6, <1>7, <1>8, <1>9 DEF CoverInv

LEMMA OrderLinesKeeps ==
    ASSUME CoverInv, OrderLines
    PROVE  CoverInv'
<1>1. /\ phase = "order" /\ phase' = "write"
      /\ lines' = [k \in Season \X Type |-> Ordered(lines[k], k[2])]
      /\ UNCHANGED <<inputs, coverage>> /\ requests' = requests /\ swaps' = swaps
      /\ opened' = opened
      /\ content' = content /\ settings' = settings /\ folded' = folded
      /\ covering' = covering /\ known' = known
  BY DEF OrderLines, inputs, coverage, output
<1>2. \A k \in Season \X Type : lines[k] \in Seq(MergedLine)
  BY DEF CoverInv, TypeInv
<1>3. settings \in Settings
  BY DEF CoverInv, TypeInv
<1>4. TypeInv'
  <2>1. \A k \in Season \X Type : Ordered(lines[k], k[2]) \in Seq(MergedLine)
    BY <1>2, <1>3, OrderedLast
  <2>2. lines' \in [Season \X Type -> Seq(MergedLine)]
    BY <1>1, <2>1
  <2>. QED BY <1>1, <2>2 DEF CoverInv, TypeInv
<1>5. CoverageInv'
  BY <1>1, SameCoverage DEF CoverInv, CoverageInv
<1>6. RequestInv'
  BY <1>1, SameCoverage DEF CoverInv, RequestInv
<1>7. RawInv'
  BY <1>1 DEF RawInv
<1>8. SortedInv'
  <2>1. \A s \in Season, t \in Type : lines'[<<s, t>>] = Ordered(lines[<<s, t>>], t)
    BY <1>1
  <2>2. ASSUME NEW s \in Season, NEW t \in Type, NEW i \in DOMAIN lines'[<<s, t>>]
        PROVE  lines'[<<s, t>>][i].mod \in Mod \ Overrides(t)
    BY <1>2, <1>3, <2>1, <2>2, OrderedFilters
  <2>3. ASSUME NEW r \in SwapRecord, NEW s \in Season, NEW c \in Preferred(r, s)
        PROVE  LastSwap(lines'[<<s, TypeOf[r]>>], r) = {c}
    <3>1. LastSwap(Ordered(lines[<<s, TypeOf[r]>>], TypeOf[r]), r) = {c}
      BY <1>1, PreferredIsLast DEF CoverInv
    <3>. QED BY <2>1, <3>1, SwapRecordType
  <2>4. \A s, r : LastSwap(lines[<<s, TypeOf[r]>>], r)' = LastSwap(lines'[<<s, TypeOf[r]>>], r)
    BY DEF LastSwap
  <2>5. /\ \A t : Overrides(t)' = Overrides(t)
        /\ \A r, s : Preferred(r, s)' = Preferred(r, s)
    BY <1>1, SameCoverage
  <2>6. \A s \in Season, t \in Type : \A i \in DOMAIN lines'[<<s, t>>] :
            lines'[<<s, t>>][i].mod \in Mod \ Overrides(t)'
    BY <2>2, <2>5
  <2>7. \A r \in SwapRecord, s \in Season : \A c \in Preferred(r, s)' :
            LastSwap(lines[<<s, TypeOf[r]>>], r)' = {c}
    BY <2>3, <2>4, <2>5
  <2>. QED BY <2>6, <2>7 DEF SortedInv
<1>. QED BY <1>4, <1>5, <1>6, <1>7, <1>8 DEF CoverInv

LEMMA MakeRequestsKeeps ==
    ASSUME CoverInv, NEW art \in SUBSET Bases, MakeRequests(art)
    PROVE  CoverInv'
<1>. DEFINE A == {p \in art : ~LeftAlone(p[1], p[2])}
            request(p) == [rec |-> p[1], season |-> p[2], grass |-> BorrowedGrass(p[1], p[2])]
            f == [p \in A |-> request(p)]
<1>1. /\ phase = "request" /\ phase' = "generate" /\ swaps' = swaps
      /\ requests' = {request(p) : p \in A}
      /\ UNCHANGED <<inputs, coverage, lines>> /\ opened' = opened
  BY DEF MakeRequests, output
<1>2. swaps = {} /\ opened \subseteq Season
  BY <1>1 DEF CoverInv, TypeInv, RequestInv
<1>3. A \subseteq Bases /\ \A p \in A : p = <<p[1], p[2]>> /\ ~LeftAlone(p[1], p[2])
  BY CoverageAssumption
<1>4. IsFiniteSet(requests')
  <2>1. IsFiniteSet(A)
    BY <1>3, CoverageAssumption, FS_Subset
  <2>2. f \in Surjection(A, requests')
    <3>1. f \in [A -> requests']
      BY <1>1
    <3>2. \A q \in requests' : \E p \in A : f[p] = q
      BY <1>1
    <3>. QED BY <3>1, <3>2 DEF Surjection
  <2>. QED BY <2>1, <2>2, FS_Surjection
<1>5. ASSUME NEW q \in requests'
      PROVE  /\ <<q.rec, q.season>> \in Bases
             /\ q.grass = BorrowedGrass(q.rec, q.season)
             /\ ~LeftAlone(q.rec, q.season)
  <2>1. PICK p \in A : q = request(p)
    BY <1>1
  <2>2. q.rec = p[1] /\ q.season = p[2] /\ q.grass = BorrowedGrass(p[1], p[2])
    BY <2>1
  <2>. QED BY <1>3, <2>2
<1>. HIDE DEF A, request
<1>. QED BY <1>1, <1>2, <1>4, <1>5, CoverSame

LEMMA CoverNext ==
    ASSUME CoverInv, [Next]_vars
    PROVE  CoverInv'
<1>1. CASE UNCHANGED vars
  BY <1>1, CoverSame DEF vars, output, CoverInv, TypeInv, RequestInv
<1>2. ASSUME NEW ini \in DOMAIN content, ReadIni(ini) PROVE CoverInv'
  BY <1>2, ReadIniKeeps
<1>3. CASE EndScan
  BY <1>3, CoverSame DEF EndScan, output, CoverInv, TypeInv, RequestInv
<1>4. ASSUME NEW art \in SUBSET Bases, MakeRequests(art) PROVE CoverInv'
  BY <1>4, MakeRequestsKeeps
<1>5. ASSUME NEW made \in SUBSET requests, GenerateDuplicates(made) PROVE CoverInv'
  BY <1>5, CoverSame DEF GenerateDuplicates, output, CoverInv, TypeInv, RequestInv
<1>6. CASE OrderLines
  BY <1>6, OrderLinesKeeps
<1>7. ASSUME NEW ok \in SUBSET Season, WriteIniFiles(ok) PROVE CoverInv'
  BY <1>7, CoverSame DEF WriteIniFiles, CoverInv, TypeInv, RequestInv
<1>8. ASSUME NEW ok \in SUBSET folded, WriteForeignIniOverrides(ok) PROVE CoverInv'
  BY <1>8, CoverSame DEF WriteForeignIniOverrides, CoverInv, TypeInv, RequestInv
<1>. QED BY <1>1, <1>2, <1>3, <1>4, <1>5, <1>6, <1>7, <1>8 DEF Next

\* The indexes, the requests and the merged lines agree with the inis that were read, in every
\* state that loadForeignSeasonCoverage, run and the writing of the inis reach.
THEOREM CoverInvariant == Spec => []CoverInv
  BY CoverInit, CoverNext, PTL DEF Spec

-----------------------------------------------------------------------------
(* Targets of other mods' swaps *)

LEMMA NoTargetResolved == ResolveForeignLTEXTarget(<<"empty">>) = {}
<1>1. \A k, r : <<"empty">> # <<k, r>>
  OBVIOUS
<1>. QED BY <1>1 DEF ResolveForeignLTEXTarget, Names

LEMMA CoverSeasonalTargets ==
    ASSUME CoverInv
    PROVE  SeasonalTargetsAreNoBase
<1>. SUFFICES ASSUME NEW q \in requests, q.rec \notin Nameless,
                     NEW ini \in folded, NEW i \in Recognised(ini),
                     content[ini][i].base[1] = "edid",
                     content[ini][i].target = <<"edid", q.rec>>
              PROVE  /\ CoveringMods(q.rec, q.season) # {}
                     /\ Respected(q.rec, q.season) = {} \/ q.grass # NoGrass
  BY DEF SeasonalTargetsAreNoBase
<1>1. q.grass = BorrowedGrass(q.rec, q.season) /\ ~LeftAlone(q.rec, q.season)
  BY DEF CoverInv, RequestInv
<1>2. <<q.rec, q.season>> \in SwapRecord \X Season
  BY CoverageAssumption DEF CoverInv, RequestInv
<1>3. q.rec \in known
  <2>1. content[ini][i].target[1] = "edid" /\ content[ini][i].target[2] = q.rec
    OBVIOUS
  <2>2. q.rec \in SeasonalTargetsIn(ini)
    BY <2>1 DEF SeasonalTargetsIn
  <2>. QED BY <2>2 DEF CoverInv, CoverageInv
<1>4. IsCovered(q.rec, q.season)
  BY <1>3 DEF IsCovered
<1>5. CASE ~StillCovered(q.rec, q.season)
  BY <1>5 DEF StillCovered
<1>6. CASE StillCovered(q.rec, q.season)
  <2>1. q.grass # NoGrass
    BY <1>1, <1>4, <1>6 DEF LeftAlone
  <2>2. ASSUME CoveringMods(q.rec, q.season) = {} PROVE FALSE
    <3>1. Respected(q.rec, q.season) = {}
      BY <2>2 DEF Respected
    <3>2. EffectiveTarget(q.rec, q.season) = <<"empty">>
      BY <2>2, <3>1 DEF EffectiveTarget
    <3>3. BorrowedGrass(q.rec, q.season) = {}
      BY <3>2, NoTargetResolved DEF BorrowedGrass, NoGrass
    <3>. QED BY <1>1, <2>1, <3>3 DEF NoGrass
  <2>. QED BY <2>1, <2>2
<1>. QED BY <1>5, <1>6

\* In every state of every run, what a foreign mod swaps another record to by EditorID is asked
\* for as a base only if a mod covers it and is overridden or leaves its texture as it is.
THEOREM SeasonalTargetsAreNotAskedFor == Spec => []SeasonalTargetsAreNoBase
  BY CoverInvariant, CoverSeasonalTargets, PTL

-----------------------------------------------------------------------------
(* The line the game shows *)

LEMMA SetToSeqIs ==
    ASSUME NEW W, IsFiniteSet(W)
    PROVE  /\ SetToSeq(W) \in Seq(W)
           /\ \A w \in W : \E i \in DOMAIN SetToSeq(W) : SetToSeq(W)[i] = w
<1>. DEFINE n == Cardinality(W)
            q == SetToSeq(W)
<1>1. n \in Nat /\ ExistsBijection(1 .. n, W)
  BY FS_CardinalityType
<1>2. \E f \in [1 .. n -> W] : IsInjective(f)
  BY <1>1 DEF ExistsBijection, Bijection, Injection
<1>3. q \in [1 .. n -> W] /\ IsInjective(q)
  BY <1>2 DEF SetToSeq
<1>4. q \in Injection(1 .. n, W)
  BY <1>3 DEF Injection
<1>5. Cardinality(1 .. n) = n
  <2>1. 1 \in Int /\ n \in Int
    BY <1>1
  <2>2. Cardinality(1 .. n) = IF 1 > n THEN 0 ELSE n - 1 + 1
    BY <2>1, FS_Interval
  <2>. QED BY <1>1, <2>2
<1>. HIDE DEF q
<1>6. q \in Surjection(1 .. n, W)
  BY <1>4, <1>5, FS_Injection
<1>7. q \in Seq(W) /\ DOMAIN q = 1 .. n
  <2>. HIDE DEF n
  <2>. QED BY <1>1, <1>3
<1>8. \A w \in W : \E i \in DOMAIN q : q[i] = w
  BY <1>6, <1>7 DEF Surjection
<1>. QED BY <1>7, <1>8 DEF q

\* Our lines are one for each duplicate that was made.
LEMMA OurLinesAre ==
    ASSUME CoverInv, NEW s, NEW t
    PROVE  /\ OurLines(s, t) \in Seq(MergedLine)
           /\ \A i \in DOMAIN OurLines(s, t) :
                 /\ OurLines(s, t)[i].mod = AutoSeasons
                 /\ \E w \in swaps : /\ w.season = s /\ TypeOf[w.rec] = t
                                     /\ OurLines(s, t)[i].base = <<"id", w.rec>>
           /\ \A w \in swaps : w.season = s /\ TypeOf[w.rec] = t =>
                 \E i \in DOMAIN OurLines(s, t) : IsSwapOf(OurLines(s, t)[i], w.rec)
<1>. DEFINE W == {w \in swaps : w.season = s /\ TypeOf[w.rec] = t}
            made == SetToSeq(W)
            line(w) == [mod |-> AutoSeasons, base |-> <<"id", w.rec>>,
                        target |-> <<"id", w.rec>>]
            ours == OurLines(s, t)
<1>1. W \subseteq requests /\ IsFiniteSet(requests)
  BY DEF CoverInv, TypeInv
<1>2. IsFiniteSet(W)
  <2>. HIDE DEF W
  <2>. QED BY <1>1, FS_Subset
<1>3. made \in Seq(W) /\ \A w \in W : \E i \in DOMAIN made : made[i] = w
  <2>. HIDE DEF W
  <2>. QED BY <1>2, SetToSeqIs
<1>4. \A w \in W : w.rec \in Record
  BY <1>1, CoverageAssumption DEF CoverInv, RequestInv, SwapRecord
<1>5. \A w \in W : line(w) \in MergedLine /\ <<"id", w.rec>> \in Ref
  BY <1>4 DEF MergedLine, Ref, Target, AutoSeasons
<1>6. ours = [i \in DOMAIN made |-> line(made[i])]
  BY DEF OurLines
<1>. HIDE DEF made, ours
<1>7. DOMAIN made = 1 .. Len(made) /\ Len(made) \in Nat /\ \A i \in DOMAIN made : made[i] \in W
  <2>. HIDE DEF W
  <2>. QED BY <1>3
<1>. HIDE DEF W
<1>8. ours \in Seq(MergedLine)
  <2>1. ours \in [1 .. Len(made) -> MergedLine]
    <3>. HIDE DEF line
    <3>. QED BY <1>5, <1>6, <1>7
  <2>. HIDE DEF line
  <2>. QED BY <1>7, <2>1
<1>9. ASSUME NEW i \in DOMAIN ours
      PROVE  /\ ours[i].mod = AutoSeasons
             /\ \E w \in swaps : /\ w.season = s /\ TypeOf[w.rec] = t
                                 /\ ours[i].base = <<"id", w.rec>>
  <2>1. made[i] \in W /\ ours[i] = line(made[i])
    BY <1>6, <1>7
  <2>. QED BY <2>1 DEF W
<1>10. ASSUME NEW w \in swaps, w.season = s, TypeOf[w.rec] = t
       PROVE  \E i \in DOMAIN ours : IsSwapOf(ours[i], w.rec)
  <2>1. w \in W
    BY <1>10 DEF W
  <2>2. PICK i \in DOMAIN made : made[i] = w
    BY <1>3, <2>1
  <2>3. i \in DOMAIN ours /\ ours[i] = line(w)
    BY <1>6, <2>2
  <2>4. IsSwapOf(line(w), w.rec)
    BY <1>5, <2>1 DEF IsSwapOf, Names
  <2>. QED BY <2>3, <2>4
<1>. QED BY <1>8, <1>9, <1>10 DEF ours

\* What is left of the foreign inis are relayed lines.
LEMMA InEffectTyped ==
    ASSUME CoverInv, NEW t \in Type, NEW s \in Season
    PROVE  /\ \A m \in Mod : InEffect(<<m, s>>, t) \in Seq(MergedLine)
           /\ [m \in Mod |-> InEffect(<<m, s>>, t)] \in Seq(Seq(MergedLine))
           /\ FlattenSeq([m \in Mod |-> InEffect(<<m, s>>, t)]) \in Seq(MergedLine)
<1>. DEFINE parts == [m \in Mod |-> InEffect(<<m, s>>, t)]
<1>1. content \in Contents
  BY DEF CoverInv, TypeInv
<1>2. \A m \in Mod : InEffect(<<m, s>>, t) \in Seq(MergedLine)
  <2>. TAKE m \in Mod
  <2>. DEFINE ini == <<m, s>>
  <2>1. ini \in DOMAIN content => RelayedIn(ini, t) \in Seq(MergedLine)
    BY <1>1, RelayedLast
  <2>2. << >> \in Seq(MergedLine)
    OBVIOUS
  <2>. QED BY <2>1, <2>2 DEF InEffect
<1>3. parts \in Seq(Seq(MergedLine))
  <2>1. parts \in [1 .. NumMods -> Seq(MergedLine)] /\ NumMods \in Nat
    BY <1>2, CoverageAssumption DEF Mod
  <2>. HIDE DEF parts
  <2>. QED BY <2>1
<1>4. FlattenSeq(parts) \in Seq(MergedLine)
  <2>. HIDE DEF parts
  <2>. QED BY <1>3, LastInFlatten
<1>. QED BY <1>2, <1>3, <1>4

\* A record that the merged ini has a swap for, relayed or ours, is shown with one.
LEMMA MergedIsShown ==
    ASSUME CoverInv, NEW r \in SwapRecord, NEW s \in Season, s \in opened,
           \/ LastSwap(lines[<<s, TypeOf[r]>>], r) # {}
           \/ \E w \in swaps : w.rec = r /\ w.season = s
    PROVE  Shown(r, s) # {}
<1>. DEFINE t == TypeOf[r]
            S == Swapping(r)
            foreign == FlattenSeq([m \in Mod |-> InEffect(<<m, s>>, t)])
            relayed == lines[<<s, t>>]
            ours == OurLines(s, t)
<1>1. t \in Type
  BY SwapRecordType
<1>2. relayed \in Seq(MergedLine)
  BY <1>1 DEF CoverInv, TypeInv
<1>3. /\ ours \in Seq(MergedLine)
      /\ \A w \in swaps : w.season = s /\ TypeOf[w.rec] = t =>
            \E i \in DOMAIN ours : IsSwapOf(ours[i], w.rec)
  <2>. HIDE DEF S, t
  <2>. QED BY OurLinesAre
<1>4. foreign \in Seq(MergedLine)
  BY <1>1, InEffectTyped
<1>5. Shown(r, s) = LastSwap(foreign \o (relayed \o ours), r)
  BY DEF Shown, Evaluated, Merged
<1>6. LastSwap(relayed, r) = LastIn(relayed, S)
  BY <1>2, LastSwapIsLastIn
<1>. HIDE DEF relayed, ours, foreign
<1>7. LastIn(relayed, S) # {} \/ LastIn(ours, S) # {}
  <2>1. CASE \E w \in swaps : w.rec = r /\ w.season = s
    <3>1. PICK i \in DOMAIN ours : IsSwapOf(ours[i], r)
      BY <1>3, <2>1
    <3>2. ours[i] \in S
      BY <1>3, <3>1 DEF Swapping
    <3>. HIDE DEF S
    <3>. QED BY <1>3, <3>2, LastInExists
  <2>. QED BY <1>6, <2>1 DEF relayed
<1>. HIDE DEF S
<1>8. relayed \o ours \in Seq(MergedLine) /\ LastIn(relayed \o ours, S) # {}
  BY <1>2, <1>3, <1>7, LastInConcat
<1>9. /\ foreign \o (relayed \o ours) \in Seq(MergedLine)
      /\ LastIn(foreign \o (relayed \o ours), S) # {}
  <2>. DEFINE merged == relayed \o ours
  <2>1. merged \in Seq(MergedLine) /\ LastIn(merged, S) # {}
    BY <1>8
  <2>. HIDE DEF merged
  <2>2. foreign \o merged \in Seq(MergedLine) /\ LastIn(foreign \o merged, S) # {}
    BY <1>4, <2>1, LastInConcat
  <2>. QED BY <2>2 DEF merged
<1>. QED BY <1>5, <1>9, LastSwapIsLastIn DEF S

\* What the game shows for a record is the last of our lines for it, or else the last of the
\* merged ini's, or else a line of an ini that was not emptied.
LEMMA ShownIs ==
    ASSUME CoverInv, NEW r \in SwapRecord, NEW s \in Season, NEW l \in Shown(r, s)
    PROVE  \/ /\ s \in opened /\ l.mod = AutoSeasons
              /\ \E w \in swaps : w.rec = r /\ w.season = s
           \/ /\ s \in opened /\ LastSwap(lines[<<s, TypeOf[r]>>], r) = {l}
              /\ \E i \in DOMAIN lines[<<s, TypeOf[r]>>] : lines[<<s, TypeOf[r]>>][i] = l
              /\ ~\E w \in swaps : w.rec = r /\ w.season = s
           \/ /\ <<l.mod, s>> \in DOMAIN content \ neutral
              /\ s \in opened => /\ LastSwap(lines[<<s, TypeOf[r]>>], r) = {}
                                 /\ ~\E w \in swaps : w.rec = r /\ w.season = s
<1>. DEFINE t == TypeOf[r]
            S == Swapping(r)
            parts == [m \in Mod |-> InEffect(<<m, s>>, t)]
            foreign == FlattenSeq(parts)
            relayed == lines[<<s, t>>]
            ours == OurLines(s, t)
            merged == IF s \in opened THEN relayed \o ours ELSE << >>
<1>1. t \in Type /\ content \in Contents
  BY SwapRecordType DEF CoverInv, TypeInv
<1>2. relayed \in Seq(MergedLine)
  BY <1>1 DEF CoverInv, TypeInv
<1>3. ours \in Seq(MergedLine)
  BY OurLinesAre
<1>4. \A m \in Mod : parts[m] \in Seq(MergedLine)
  BY <1>1, InEffectTyped
<1>5. parts \in Seq(Seq(MergedLine)) /\ DOMAIN parts = Mod
  BY <1>1, InEffectTyped
<1>6. foreign \in Seq(MergedLine)
  BY <1>1, InEffectTyped
<1>7. Shown(r, s) = LastSwap(foreign \o merged, r)
  BY DEF Shown, Evaluated, Merged
<1>. HIDE DEF relayed, ours, foreign
<1>8. /\ relayed \o ours \in Seq(MergedLine)
      /\ LastIn(ours, S) # {} => LastIn(relayed \o ours, S) = LastIn(ours, S)
      /\ LastIn(ours, S) = {} => LastIn(relayed \o ours, S) = LastIn(relayed, S)
  <2>. HIDE DEF S
  <2>. QED BY <1>2, <1>3, LastInConcat
<1>9. merged \in Seq(MergedLine)
  BY <1>8
<1>10. /\ foreign \o merged \in Seq(MergedLine)
       /\ LastIn(merged, S) # {} => LastIn(foreign \o merged, S) = LastIn(merged, S)
       /\ LastIn(merged, S) = {} => LastIn(foreign \o merged, S) = LastIn(foreign, S)
  <2>. HIDE DEF S, merged
  <2>. QED BY <1>6, <1>9, LastInConcat
<1>11. l \in LastIn(foreign \o merged, S)
  <2>. HIDE DEF S, merged
  <2>. QED BY <1>7, <1>10, LastSwapIsLastIn DEF S
<1>12. LastSwap(relayed, r) = LastIn(relayed, S)
  BY <1>2, LastSwapIsLastIn
<1>13. /\ \A i \in DOMAIN ours : /\ ours[i].mod = AutoSeasons
                                 /\ \E w \in swaps : /\ w.season = s /\ TypeOf[w.rec] = t
                                                     /\ ours[i].base = <<"id", w.rec>>
       /\ \A w \in swaps : w.season = s /\ TypeOf[w.rec] = t =>
             \E i \in DOMAIN ours : IsSwapOf(ours[i], w.rec)
  <2>. HIDE DEF S, parts, merged, t
  <2>. QED BY OurLinesAre DEF ours
<1>14. LastIn(ours, S) = {} => ~\E w \in swaps : w.rec = r /\ w.season = s
  <2>. SUFFICES ASSUME NEW w \in swaps, w.rec = r, w.season = s PROVE LastIn(ours, S) # {}
    OBVIOUS
  <2>1. PICK i \in DOMAIN ours : IsSwapOf(ours[i], r)
    BY <1>13
  <2>2. ours[i] \in S
    BY <1>3, <2>1 DEF Swapping
  <2>. HIDE DEF S
  <2>. QED BY <1>3, <2>2, LastInExists
<1>15. CASE s \in opened /\ LastIn(ours, S) # {}
  <2>1. l \in LastIn(ours, S)
    BY <1>8, <1>10, <1>11, <1>15
  <2>2. l \in S /\ \E i \in DOMAIN ours : ours[i] = l
    <3>. HIDE DEF S
    <3>. QED BY <1>3, <2>1, LastInMember
  <2>3. PICK w \in swaps : w.season = s /\ TypeOf[w.rec] = t /\ l.base = <<"id", w.rec>>
    BY <1>13, <2>2
  <2>4. w.rec = r
    BY <2>2, <2>3 DEF Swapping, IsSwapOf, Names
  <2>5. l.mod = AutoSeasons
    BY <1>13, <2>2
  <2>. QED BY <1>15, <2>3, <2>4, <2>5
<1>16. CASE s \in opened /\ LastIn(ours, S) = {} /\ LastIn(relayed, S) # {}
  <2>1. l \in LastIn(relayed, S)
    BY <1>8, <1>10, <1>11, <1>16
  <2>2. LastIn(relayed, S) = {l} /\ \E i \in DOMAIN relayed : relayed[i] = l
    <3>. HIDE DEF S
    <3>. QED BY <1>2, <2>1, LastInMember
  <2>. QED BY <1>12, <1>14, <1>16, <2>2 DEF relayed
<1>17. CASE s \in opened => LastIn(ours, S) = {} /\ LastIn(relayed, S) = {}
  <2>1. LastIn(merged, S) = {}
    <3>1. LastIn(<< >>, S) = {}
      BY DEF LastIn
    <3>. QED BY <1>8, <1>17, <3>1
  <2>2. l \in LastIn(foreign, S)
    BY <1>10, <1>11, <2>1
  <2>3. PICK m \in Mod : l \in LastIn(parts[m], S)
    <3>. HIDE DEF S, parts
    <3>1. \/ LastIn(FlattenSeq(parts), S) = {}
          \/ \E k \in DOMAIN parts : LastIn(FlattenSeq(parts), S) = LastIn(parts[k], S)
      BY <1>5, LastPart
    <3>. QED BY <1>5, <2>2, <3>1 DEF foreign
  <2>4. \E i \in DOMAIN parts[m] : parts[m][i] = l
    <3>. HIDE DEF S, parts
    <3>. QED BY <1>4, <2>3, LastInMember
  <2>5. <<m, s>> \in DOMAIN content \ neutral /\ parts[m] = RelayedIn(<<m, s>>, t)
    BY <2>4 DEF InEffect
  <2>6. l.mod = m
    <3>. DEFINE ini == <<m, s>>
    <3>1. ini[1] = m
      OBVIOUS
    <3>. HIDE DEF ini
    <3>. QED BY <1>1, <2>4, <2>5, <3>1, RelayedMod DEF ini
  <2>. QED BY <1>12, <1>14, <1>17, <2>5, <2>6 DEF relayed
<1>. QED BY <1>15, <1>16, <1>17

\* A line AutoSeasons made wins over whatever a foreign mod has for the record.
LEMMA CoverOursWin ==
    ASSUME CoverInv
    PROVE  OurSwapsWin
<1>. SUFFICES ASSUME NEW w \in swaps, w.season \in opened
              PROVE  /\ Shown(w.rec, w.season) # {}
                     /\ \A l \in Shown(w.rec, w.season) : l.mod = AutoSeasons
  BY DEF OurSwapsWin
<1>1. w \in requests /\ w.rec \in SwapRecord /\ w.season \in Season
  BY CoverageAssumption DEF CoverInv, TypeInv, RequestInv
<1>2. \E v \in swaps : v.rec = w.rec /\ v.season = w.season
  OBVIOUS
<1>3. ASSUME NEW l \in Shown(w.rec, w.season) PROVE l.mod = AutoSeasons
  BY <1>1, <1>2, ShownIs
<1>4. Shown(w.rec, w.season) # {}
  BY <1>1, <1>2, MergedIsShown
<1>. QED BY <1>3, <1>4

\* In every run, a record that was given a duplicate is shown as that duplicate, whether or not
\* the foreign inis could be emptied.
THEOREM DuplicatesAreShown == Spec => []OurSwapsWin
  BY CoverInvariant, CoverOursWin, PTL

LEMMA CoverSilent ==
    ASSUME CoverInv
    PROVE  OverriddenModsAreSilent
<1>. SUFFICES ASSUME phase = "done", NEW r \in SwapRecord, NEW s \in Season,
                     NEW l \in Shown(r, s), l.mod \in Overrides(TypeOf[r])
              PROVE  <<l.mod, s>> \notin neutral
  BY DEF OverriddenModsAreSilent
<1>1. TypeOf[r] \in Type
  BY SwapRecordType
<1>2. l.mod # AutoSeasons
  BY SettingsType, CoverageAssumption DEF CoverInv, TypeInv, Mod, AutoSeasons
<1>3. \A i \in DOMAIN lines[<<s, TypeOf[r]>>] : lines[<<s, TypeOf[r]>>][i].mod # l.mod
  BY <1>1 DEF CoverInv, SortedInv
<1>. QED BY <1>2, <1>3, ShownIs

\* In every run, no swap of a mod that is overridden for the record's type is shown once the
\* mod's ini has been emptied.
THEOREM OverriddenModsAreSilenced == Spec => []OverriddenModsAreSilent
  BY CoverInvariant, CoverSilent, PTL

-----------------------------------------------------------------------------
(* The winner of resolveEffectiveCoverage and the last line of the merged ini *)

\* A line under a recognised section is in the index, or one later in the ini with its key is.
LEMMA KeyCovered ==
    ASSUME CoverInv, NEW m \in Mod, NEW s \in Season, <<m, s>> \in folded, NEW t \in Type,
           NEW i \in DOMAIN content[<<m, s>>], content[<<m, s>>][i].section = t
    PROVE  \E e \in covering : /\ e.mod = m /\ e.season = s /\ e.section = t
                               /\ e.base = content[<<m, s>>][i].base
<1>. DEFINE ini == <<m, s>>
            q == content[ini]
            same == {j \in DOMAIN q : q[j].section = t /\ q[j].base = q[i].base}
            entry(j) == [mod |-> ini[1], season |-> ini[2], section |-> content[ini][j].section,
                         base |-> content[ini][j].base, target |-> content[ini][j].target]
<1>1. q \in Seq(Line)
  BY ContentType DEF CoverInv, TypeInv
<1>2. same \subseteq 0 .. Len(q) /\ Len(q) \in Nat /\ i \in same
  <2>. HIDE DEF ini
  <2>. QED BY <1>1 DEF ini
<1>3. PICK j \in same : \A k \in same : k <= j
  <2>. HIDE DEF same, q
  <2>. QED BY <1>2, GreatestOf
<1>4. j \in Recognised(ini)
  BY <1>3 DEF Recognised
<1>5. ASSUME NEW k \in Recognised(ini), k > j
      PROVE  \/ content[ini][k].section # content[ini][j].section
             \/ content[ini][k].base # content[ini][j].base
  <2>1. k \in DOMAIN q
    BY DEF Recognised
  <2>2. k \notin same
    <3>1. j \in Nat
      BY <1>2, <1>3
    <3>. HIDE DEF same
    <3>2. k \in same => k \in Nat /\ k <= j
      BY <1>2, <1>3
    <3>. QED BY <1>5, <3>1, <3>2
  <2>. QED BY <1>3, <2>1, <2>2
<1>6. entry(j) \in CoveringIn(ini)
  BY <1>4, <1>5 DEF CoveringIn
<1>7. entry(j) \in covering
  BY <1>6 DEF CoverInv, CoverageInv
<1>8. entry(j).mod = m /\ entry(j).season = s /\ entry(j).section = t
      /\ entry(j).base = q[i].base
  BY <1>3
<1>. QED BY <1>7, <1>8

\* the line an entry of the index stands for
LineOf(e) == [mod |-> e.mod, base |-> e.base, target |-> e.target]

LEMMA CoveringType ==
    ASSUME CoverInv, NEW r, NEW s, NEW e \in CoveringMods(r, s)
    PROVE  /\ e \in covering /\ e.season = s /\ e.section = TypeOf[r] /\ Names(e.base, r)
           /\ e.mod \in Mod /\ <<e.mod, s>> \in folded
           /\ \E i \in Recognised(<<e.mod, s>>) :
                 /\ content[<<e.mod, s>>][i].section = TypeOf[r]
                 /\ content[<<e.mod, s>>][i].base = e.base
                 /\ content[<<e.mod, s>>][i].target = e.target
                 /\ \A j \in Recognised(<<e.mod, s>>) :
                        j > i => \/ content[<<e.mod, s>>][j].section # TypeOf[r]
                                 \/ content[<<e.mod, s>>][j].base # e.base
<1>1. e \in covering /\ e.season = s /\ e.section = TypeOf[r] /\ Names(e.base, r)
  BY DEF CoveringMods, ByEditorID, CoveringBy, Names
<1>2. PICK ini \in folded : e \in CoveringIn(ini)
  BY <1>1 DEF CoverInv, CoverageInv
<1>3. PICK i \in Recognised(ini) :
         /\ e = [mod |-> ini[1], season |-> ini[2], section |-> content[ini][i].section,
                 base |-> content[ini][i].base, target |-> content[ini][i].target]
         /\ \A j \in Recognised(ini) :
                j > i => \/ content[ini][j].section # content[ini][i].section
                         \/ content[ini][j].base # content[ini][i].base
  BY <1>2 DEF CoveringIn
<1>4. ini[1] \in Mod /\ ini = <<ini[1], ini[2]>>
  BY ContentType DEF CoverInv, TypeInv, Ini
<1>5. ini = <<e.mod, s>> /\ e.mod \in Mod
  BY <1>1, <1>3, <1>4
<1>. QED BY <1>1, <1>2, <1>3, <1>5

\* Every respected mod that swaps a record covers it.
LEMMA SwapCovered ==
    ASSUME CoverInv, NEW r \in SwapRecord, NEW s \in Season, ~Mixed(r, s),
           NEW c \in RespectedSwaps(r, s)
    PROVE  \E e \in Respected(r, s) : e.mod = c.mod
<1>. DEFINE t == TypeOf[r]
            ini == <<c.mod, s>>
<1>1. /\ c.mod \in Mod \ Overrides(t) /\ ini \in folded /\ ini \in DOMAIN content
      /\ LastSwap(RelayedIn(ini, t), r) = {c} /\ t \in Type /\ content \in Contents
  BY RespectedSwap, SwapRecordType DEF CoverInv, TypeInv
<1>2. PICK i \in DOMAIN content[ini] : Relays(ini, t, i, c) /\ c \in Swapping(r)
  <2>. HIDE DEF ini
  <2>1. RelayedIn(ini, t) \in Seq(MergedLine)
    BY <1>1, RelayedLast
  <2>2. c \in LastIn(RelayedIn(ini, t), Swapping(r))
    BY <1>1, <2>1, LastSwapIsLastIn
  <2>. QED BY <1>1, <2>2, RelayedLast
<1>3. /\ content[ini][i].section = t /\ content[ini][i].base = c.base /\ Names(c.base, r)
  BY <1>2 DEF Relays, AsMerged, Swapping, IsSwapOf
<1>4. PICK e \in covering : /\ e.mod = c.mod /\ e.season = s /\ e.section = t /\ e.base = c.base
  BY <1>1, <1>3, KeyCovered
<1>5. e \in CoveringBy("id", r, s) \/ (e \in ByEditorID(r, s))
  BY <1>3, <1>4 DEF Names, CoveringBy, ByEditorID
<1>6. e \in CoveringMods(r, s)
  BY <1>5 DEF CoveringMods, Mixed
<1>. QED BY <1>1, <1>4, <1>6 DEF Respected

\* What covers a record by a swap is the last swap of its ini for the record.
LEMMA CoveringIsLast ==
    ASSUME CoverInv, NEW r \in SwapRecord, NEW s \in Season, ~Mixed(r, s),
           NEW e \in Respected(r, s), e.target \in Ref
    PROVE  LineOf(e) \in RespectedSwaps(r, s)
<1>. DEFINE t == TypeOf[r]
            ini == <<e.mod, s>>
            x == LineOf(e)
            S == Swapping(r)
<1>1. /\ e \in CoveringMods(r, s) /\ e.mod \notin Overrides(t)
      /\ t \in Type /\ r \in Record /\ content \in Contents /\ folded \subseteq DOMAIN content
  BY SwapRecordType DEF Respected, CoverInv, TypeInv
<1>2. /\ e \in covering /\ e.season = s /\ e.section = t /\ Names(e.base, r)
      /\ e.mod \in Mod /\ ini \in folded
  BY <1>1, CoveringType
<1>3. PICK i \in Recognised(ini) :
         /\ content[ini][i].section = t /\ content[ini][i].base = e.base
         /\ content[ini][i].target = e.target
         /\ \A j \in Recognised(ini) :
                j > i => content[ini][j].section # t \/ content[ini][j].base # e.base
  BY <1>1, CoveringType
<1>4. ini \in DOMAIN content /\ i \in DOMAIN content[ini]
  BY <1>1, <1>2 DEF Recognised
<1>5. x \in S
  <2>1. e.base \in Ref
    BY <1>1, <1>2 DEF Names, Ref
  <2>. QED BY <1>2, <2>1 DEF S, Swapping, IsSwapOf, LineOf, MergedLine, Target
<1>6. Relays(ini, t, i, x)
  <2>1. e.target # <<"nopipe">>
    BY DEF Ref
  <2>. QED BY <1>3, <2>1 DEF Relays, AsMerged, LineOf
<1>7. ASSUME NEW j \in DOMAIN content[ini], j > i, NEW y \in S, Relays(ini, t, j, y)
      PROVE  FALSE
  <2>1. content[ini][j].section = t /\ content[ini][j].base = y.base /\ Names(y.base, r)
    BY <1>7 DEF Relays, AsMerged, Swapping, IsSwapOf
  <2>2. y.base # e.base
    BY <1>1, <1>3, <1>7, <2>1 DEF Recognised
  <2>3. PICK f \in covering : /\ f.mod = e.mod /\ f.season = s /\ f.section = t
                              /\ f.base = y.base
    BY <1>1, <1>2, <2>1, KeyCovered
  <2>4. CASE e.base = <<"id", r>>
    BY <1>2, <2>1, <2>2, <2>3, <2>4 DEF Names, Mixed, CoveringBy, ByEditorID
  <2>5. CASE e.base = <<"edid", r>> /\ r \notin Nameless
    BY <1>2, <2>1, <2>2, <2>3, <2>5 DEF Names, Mixed, CoveringBy, ByEditorID
  <2>. QED BY <1>2, <2>4, <2>5 DEF Names
<1>8. x \in LastSwap(RelayedIn(ini, t), r)
  <2>. HIDE DEF ini, x, S
  <2>1. RelayedIn(ini, t) \in Seq(MergedLine)
    BY <1>1, <1>4, RelayedLast
  <2>2. x \in LastIn(RelayedIn(ini, t), S)
    BY <1>1, <1>4, <1>5, <1>6, <1>7, RelayedLast
  <2>. QED BY <2>1, <2>2, LastSwapIsLastIn DEF S
<1>. QED BY <1>1, <1>2, <1>8 DEF RespectedSwaps

\* A request for a record that a respected mod swaps has the grass of the preferred swap.
LEMMA RequestKeeps ==
    ASSUME CoverInv, NEW r \in SwapRecord, NEW s \in Season, ~Mixed(r, s), ~LeftAlone(r, s),
           NEW c \in Preferred(r, s)
    PROVE  /\ BorrowedGrass(r, s) = ResolveForeignLTEXTarget(c.target)
           /\ \A x \in BorrowedGrass(r, s) : DiffuseOf[x] = DiffuseOf[r]
<1>. DEFINE t == TypeOf[r]
            w == PickWinner(Respected(r, s), Priority(t))
            rank(l) == Rank(l.mod, Priority(t))
<1>1. /\ c \in RespectedSwaps(r, s)
      /\ \A d \in RespectedSwaps(r, s) \ {c} : rank(d) < rank(c)
  BY DEF Preferred
<1>2. PICK f \in Respected(r, s) : f.mod = c.mod
  BY <1>1, SwapCovered
<1>3. \A e \in Respected(r, s) : e \in CoveringMods(r, s) /\ e.mod \in Mod
  BY CoveringType DEF Respected
<1>4. Priority(t) \in Seq(Mod)
  BY SettingsType DEF CoverInv, TypeInv
<1>5. w \in Respected(r, s) /\ rank(f) <= rank(w)
  BY <1>2, <1>3, <1>4, WinnerRanksHighest
<1>6. rank(w) \in Nat /\ rank(c) \in Nat
  BY <1>4, RankType
<1>7. EffectiveTarget(r, s) = w.target /\ StillCovered(r, s)
  BY <1>2 DEF EffectiveTarget, StillCovered
<1>. HIDE DEF w
<1>8. IsCovered(r, s)
  BY <1>2, <1>3 DEF IsCovered, CoveringMods
<1>9. BorrowedGrass(r, s) # {}
  BY <1>7, <1>8 DEF LeftAlone, NoGrass
<1>10. BorrowedGrass(r, s) = {x \in ResolveForeignLTEXTarget(w.target) :
                                 DiffuseOf[x] = DiffuseOf[r]}
  BY <1>7, <1>9 DEF BorrowedGrass, NoGrass
<1>11. PICK y \in ResolveForeignLTEXTarget(w.target) : DiffuseOf[y] = DiffuseOf[r]
  BY <1>9, <1>10
<1>12. \A x \in ResolveForeignLTEXTarget(w.target) : x = y
  BY DEF ResolveForeignLTEXTarget, Names
<1>13. w.target \in Ref
  BY DEF ResolveForeignLTEXTarget, Names, Ref
<1>14. LineOf(w) \in RespectedSwaps(r, s)
  BY <1>5, <1>13, CoveringIsLast
<1>15. LineOf(w) = c
  <2>1. rank(LineOf(w)) = rank(w)
    BY DEF LineOf
  <2>2. ~(rank(w) < rank(c))
    BY <1>2, <1>5, <1>6
  <2>. QED BY <1>1, <1>14, <2>1, <2>2
<1>16. w.target = c.target
  BY <1>15 DEF LineOf
<1>. QED BY <1>10, <1>11, <1>12, <1>16

LEMMA CoverRespected ==
    ASSUME CoverInv
    PROVE  RespectedSwapsKept
<1>. SUFFICES ASSUME phase = "done", NEW r \in SwapRecord, NEW s \in opened, ~Mixed(r, s),
                     NEW c \in Preferred(r, s), s \in Season
              PROVE  Shown(r, s) # {} /\ \A l \in Shown(r, s) :
                     \/ l = c
                     \/ /\ l.mod = AutoSeasons
                        /\ \E w \in swaps :
                              /\ w.rec = r /\ w.season = s
                              /\ w.grass = ResolveForeignLTEXTarget(c.target)
                              /\ \A x \in w.grass : DiffuseOf[x] = DiffuseOf[r]
  BY DEF RespectedSwapsKept, Keeps, CoverInv, TypeInv
<1>1. LastSwap(lines[<<s, TypeOf[r]>>], r) = {c}
  BY DEF CoverInv, SortedInv
<1>4. Shown(r, s) # {}
  BY <1>1, MergedIsShown
<1>. SUFFICES ASSUME NEW l \in Shown(r, s)
              PROVE  \/ l = c
                     \/ /\ l.mod = AutoSeasons
                        /\ \E w \in swaps :
                              /\ w.rec = r /\ w.season = s
                              /\ w.grass = ResolveForeignLTEXTarget(c.target)
                              /\ \A x \in w.grass : DiffuseOf[x] = DiffuseOf[r]
  BY <1>4
<1>2. CASE l.mod = AutoSeasons /\ \E w \in swaps : w.rec = r /\ w.season = s
  <2>1. PICK w \in swaps : w.rec = r /\ w.season = s
    BY <1>2
  <2>2. w.grass = BorrowedGrass(r, s) /\ ~LeftAlone(r, s)
    BY <2>1 DEF CoverInv, TypeInv, RequestInv
  <2>3. /\ w.grass = ResolveForeignLTEXTarget(c.target)
        /\ \A x \in w.grass : DiffuseOf[x] = DiffuseOf[r]
    BY <2>2, RequestKeeps
  <2>. QED BY <1>2, <2>1, <2>3
<1>3. CASE LastSwap(lines[<<s, TypeOf[r]>>], r) = {l}
  BY <1>1, <1>3
<1>. QED BY <1>1, <1>2, <1>3, ShownIs

\* In every run, what the game shows for a record that inis name in one way is the swap the
\* user's priorities prefer, or a duplicate with the grass of that swap: never nothing.
THEOREM RespectedSwapsAreKept == Spec => []RespectedSwapsKept
  BY CoverInvariant, CoverRespected, PTL

=============================================================================
