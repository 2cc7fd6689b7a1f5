------------------------------ MODULE ParseProofs -----------------------------
(***************************************************************************)
(* Theorems about the operators that read messages: what a loop keeps of a *)
(* sequence, the first place where a field is, the server name of a hello  *)
(* cut off anywhere, that a forged answer repeats the question of its      *)
(* query, and that JA4 sees neither order nor GREASE.                      *)
(***************************************************************************)
EXTENDS ClientHello, DnsPoison, FiniteSetTheorems, FunctionTheorems,
        SequenceTheorems, WellFoundedInduction, TLAPS

-----------------------------------------------------------------------------
(* Least elements stand in for induction: a counterexample would be least. *)
LEMMA LeastElement ==
  ASSUME NEW S \in SUBSET Nat, S # {}
  PROVE  \E m \in S : \A n \in S : m <= n
<1> DEFINE Less == {ss \in Nat \X Nat : ss[1] < ss[2]}
<1>1. IsWellFoundedOn(Less, Nat)
  BY NatLessThanWellFounded DEF OpToRel
<1>2. \A m, n \in Nat : <<n, m>> \in Less <=> n < m
  OBVIOUS
<1> HIDE DEF Less
<1>3. PICK m \in S : \A n \in S : ~(<<n, m>> \in Less)
  BY <1>1, WFMin
<1>4. \A n \in S : ~(n < m)
  BY <1>2, <1>3
<1> QED
  BY <1>4

LEMMA MinIsLeast ==
  ASSUME NEW S \in SUBSET Nat, S # {}
  PROVE  Min(S) \in S /\ \A n \in S : Min(S) <= n
BY LeastElement DEF Min

(* Where SelectInSeq finds a field. *)
First(b, f) == SelectInSeq(b, LAMBDA a : a.f = f)

LEMMA FirstFound ==
  ASSUME NEW b, Len(b) \in Nat, NEW f
  PROVE  \/ First(b, f) = 0 /\ \A i \in 1..Len(b) : b[i].f # f
         \/ /\ First(b, f) \in 1..Len(b) /\ b[First(b, f)].f = f
            /\ \A i \in 1..(First(b, f) - 1) : b[i].f # f
<1> DEFINE I == {i \in 1..Len(b) : b[i].f = f}
<1>1. First(b, f) = IF I # {} THEN Min(I) ELSE 0
  BY DEF First, SelectInSeq
<1>2. CASE I = {}
  BY <1>1, <1>2
<1>3. CASE I # {}
  <2>1. I \in SUBSET Nat
    OBVIOUS
  <2> HIDE DEF I
  <2>2. First(b, f) \in I /\ \A n \in I : First(b, f) <= n
    BY <1>1, <1>3, <2>1, MinIsLeast
  <2>3. First(b, f) \in 1..Len(b) /\ b[First(b, f)].f = f
    BY <2>2 DEF I
  <2>4. ASSUME NEW i \in 1..(First(b, f) - 1)
        PROVE  b[i].f # f
    <3>1. i \in 1..Len(b) /\ ~(First(b, f) <= i)
      BY <2>3
    <3> QED
      BY <2>2, <3>1 DEF I
  <2> QED
    BY <2>3, <2>4
<1> QED
  BY <1>2, <1>3

(* The first place is the only one of its kind. *)
LEMMA FirstUnique ==
  ASSUME NEW b, Len(b) \in Nat, NEW f, NEW h \in 1..Len(b), b[h].f = f,
         \A i \in 1..(h - 1) : b[i].f # f
  PROVE  First(b, f) = h
<1>1. First(b, f) \in 1..Len(b) /\ b[First(b, f)].f = f
      /\ \A i \in 1..(First(b, f) - 1) : b[i].f # f
  BY FirstFound
<1>2. ~(First(b, f) < h) /\ ~(h < First(b, f))
  BY <1>1
<1> QED
  BY <1>1, <1>2

LEMMA IntervalSize ==
  ASSUME NEW n \in Nat
  PROVE  IsFiniteSet(1..n) /\ Cardinality(1..n) = n
<1>1. 1 \in Int /\ n \in Int
  OBVIOUS
<1>2. IsFiniteSet(1..n) /\ Cardinality(1..n) = IF 1 > n THEN 0 ELSE n - 1 + 1
  BY <1>1, FS_Interval
<1> QED
  BY <1>2

-----------------------------------------------------------------------------
(* Picked *)
LEMMA PickedDomain ==
  ASSUME NEW s, NEW I, IsFiniteSet(I)
  PROVE  /\ DOMAIN Picked(s, I) = 1..Cardinality(I) /\ Cardinality(I) \in Nat
         /\ Len(Picked(s, I)) = Cardinality(I)
<1>1. Cardinality(I) \in Nat
  BY FS_CardinalityType
<1> QED
  BY <1>1 DEF Picked

(* The first element picked stands at the least position. *)
LEMMA PickedHead ==
  ASSUME NEW s, NEW I \in SUBSET Nat, IsFiniteSet(I), I # {}
  PROVE  /\ 1 \in DOMAIN Picked(s, I)
         /\ \E i \in I : Picked(s, I)[1] = s[i]
<1>1. Cardinality(I) \in Nat /\ Cardinality(I) # 0
  BY FS_CardinalityType, FS_EmptySet
<1>2. PICK m \in I : \A n \in I : m <= n
  BY LeastElement
<1>3. {j \in I : j < m} = {}
  <2>1. \A j \in I : ~(j < m)
    BY <1>2
  <2> QED
    BY <2>1
<1>4. Cardinality({j \in I : j < m}) = 0
  BY <1>3, FS_EmptySet
<1>5. Nth(I, 0) \in I
  BY <1>4 DEF Nth
<1>6. 1 \in 1..Cardinality(I) /\ 1 - 1 = 0
  BY <1>1
<1>7. Picked(s, I)[1] = s[Nth(I, 0)]
  BY <1>6 DEF Picked
<1> QED
  BY <1>5, <1>6, <1>7 DEF Picked

(* If every position is picked the sequence is what it was. *)
LEMMA PickedAll ==
  ASSUME NEW S, NEW s \in Seq(S)
  PROVE  Picked(s, DOMAIN s) = s
<1> DEFINE n == Len(s)
<1>1. n \in Nat /\ DOMAIN s = 1..n /\ s = [k \in 1..n |-> s[k]]
  OBVIOUS
<1> HIDE DEF n
<1>2. Cardinality(1..n) = n
  BY <1>1, IntervalSize
<1>3. ASSUME NEW k \in 1..n
      PROVE  Nth(1..n, k - 1) = k
  <2>1. \A i \in 1..n : {j \in 1..n : j < i} = 1..(i - 1) /\ i - 1 \in Nat
    BY <1>1
  <2>2. \A i \in 1..n : Cardinality(1..(i - 1)) = i - 1
    BY <1>1, <2>1, IntervalSize
  <2>3. ASSUME NEW i \in 1..n
        PROVE  Cardinality({j \in 1..n : j < i}) = k - 1 <=> i = k
    <3>1. Cardinality({j \in 1..n : j < i}) = i - 1
      BY <2>1, <2>2
    <3> QED
      BY <1>1, <3>1
  <2> QED
    BY <2>3 DEF Nth
<1>4. Picked(s, 1..n) = [k \in 1..n |-> s[k]]
  BY <1>2, <1>3 DEF Picked
<1> QED
  BY <1>1, <1>4

-----------------------------------------------------------------------------
Places(b, f) == {i \in 1..Len(b) : b[i].f = f}

(* The values of the fields of one kind: as many as there are fields. *)
LEMMA ValuesOf ==
  ASSUME NEW b, Len(b) \in Nat, DOMAIN b = 1..Len(b), NEW f
  PROVE  /\ Len(Values(b, f)) = Cardinality(Places(b, f))
         /\ Values(b, f) = <<>> <=> Places(b, f) = {}
         /\ Places(b, f) # {} => \E i \in Places(b, f) : Values(b, f)[1] = b[i].v
<1> DEFINE I == Places(b, f)
<1>1. IsFiniteSet(I) /\ I \in SUBSET Nat
  <2>1. IsFiniteSet(1..Len(b)) /\ I \in SUBSET (1..Len(b))
    BY FS_Interval DEF Places
  <2> QED
    BY <2>1, FS_Subset
<1> DEFINE p == Picked(b, I)
<1>2. DOMAIN p = 1..Cardinality(I) /\ Cardinality(I) \in Nat
  BY <1>1, PickedDomain
<1>3. Values(b, f) = [i \in DOMAIN p |-> p[i].v]
  BY DEF Values, Places
<1> HIDE DEF p
<1>4. Len(Values(b, f)) = Cardinality(I) /\ DOMAIN Values(b, f) = 1..Cardinality(I)
  BY <1>2, <1>3
<1>5. Cardinality(I) = 0 <=> I = {}
  BY <1>1, FS_EmptySet
<1>6. Values(b, f) = <<>> <=> Cardinality(I) = 0
  <2>1. DOMAIN p = {} <=> Cardinality(I) = 0
    <3>1. Cardinality(I) # 0 => 1 \in 1..Cardinality(I)
      BY <1>2
    <3>2. 1..0 = {}
      OBVIOUS
    <3> QED
      BY <1>2, <3>1, <3>2
  <2>2. DOMAIN p = {} => Values(b, f) = <<>>
    BY <1>3
  <2>3. Values(b, f) = <<>> => Len(Values(b, f)) = 0
    OBVIOUS
  <2> QED
    BY <1>4, <2>1, <2>2, <2>3
<1>7. ASSUME I # {}
      PROVE  \E i \in I : Values(b, f)[1] = b[i].v
  <2>1. 1 \in DOMAIN p /\ \E i \in I : p[1] = b[i]
    BY <1>1, <1>7, PickedHead DEF p
  <2> QED
    BY <1>3, <2>1
<1> QED
  BY <1>4, <1>5, <1>6, <1>7

(* The pieces of a name agree on it, so a hello that is cut off has that   *)
(* name or none, and the one with all of them has it (ja3.go:77-83).       *)
LEMMA ServerNameOf ==
  ASSUME NEW b, Len(b) \in Nat, DOMAIN b = 1..Len(b), NEW name, NEW n,
         \A i \in Places(b, "sni") : b[i].v.name = name /\ b[i].v.of = n
  PROVE  /\ ServerName(Values(b, "sni")) \in {NoName, name}
         /\ (Places(b, "sni") # {} /\ Cardinality(Places(b, "sni")) = n)
              => ServerName(Values(b, "sni")) = name
<1> DEFINE parts == Values(b, "sni")
           I == Places(b, "sni")
<1>1. /\ Len(parts) = Cardinality(I)
      /\ parts = <<>> <=> I = {}
      /\ I # {} => \E i \in I : parts[1] = b[i].v
  BY ValuesOf
<1> HIDE DEF parts
<1>2. CASE I = {}
  BY <1>1, <1>2 DEF ServerName, parts
<1>3. CASE I # {}
  <2>1. parts # <<>> /\ parts[1].name = name /\ parts[1].of = n
    BY <1>1, <1>3
  <2> QED
    BY <1>1, <2>1 DEF ServerName, parts
<1> QED
  BY <1>2, <1>3

-----------------------------------------------------------------------------
(* Labels without dots, joined, are the sequence of their only pieces. *)
LEMMA FlattenSingles ==
  ASSUME NEW s, NEW n \in Nat, s = [i \in 1..n |-> <<s[i][1]>>]
  PROVE  FlattenSeq(s) = [i \in 1..n |-> s[i][1]]
<1>1. Len(s) = n /\ \A i \in 1..n : s[i] = <<s[i][1]>>
  OBVIOUS
<1>2. CASE n = 0
  BY <1>1, <1>2 DEF FlattenSeq
<1>3. CASE n # 0
  <2> DEFINE Step(F) == [i \in 1..n |-> IF i = 1 THEN s[i] ELSE F[i - 1] \o s[i]]
             G == [i \in 1..n |-> [k \in 1..i |-> s[k][1]]]
             H == CHOOSE F : F = Step(F)
  <2>1. FlattenSeq(s) = H[n]
    BY <1>1, <1>3 DEF FlattenSeq
  <2>2. \A i \in 1..n : G[i] = [k \in 1..i |-> s[k][1]]
    OBVIOUS
  <2>3. ASSUME NEW i \in 1..n, i # 1
        PROVE  G[i] = G[i - 1] \o s[i]
    <3>1. i - 1 \in 1..n /\ i \in Nat /\ i - 1 \in Nat
      BY <2>3
    <3> DEFINE p == [k \in 1..(i - 1) |-> s[k][1]]
               a == s[i][1]
    <3>2. G[i] = [k \in 1..i |-> s[k][1]] /\ G[i - 1] = p /\ s[i] = <<a>>
      BY <1>1, <2>2, <3>1
    <3>3. p \o <<a>> = [k \in 1..i |-> IF k <= i - 1 THEN p[k] ELSE a]
      <4> DEFINE S == {s[k][1] : k \in 1..n}
      <4>1. p \in Seq(S) /\ Len(p) = i - 1 /\ <<a>> \in Seq(S) /\ Len(<<a>>) = 1 /\ <<a>>[1] = a
        <5>1. \A k \in 1..(i - 1) : s[k][1] \in S
          BY <3>1
        <5>2. a \in S
          OBVIOUS
        <5> HIDE DEF S
        <5>3. p \in Seq(S)
          <6> DEFINE m == i - 1
          <6>1. m \in Nat /\ p \in [1..m -> S]
            BY <3>1, <5>1
          <6> HIDE DEF m, p
          <6> QED
            BY <6>1
        <5>4. Len(p) = i - 1
          BY <3>1
        <5> HIDE DEF p, a
        <5>5. <<a>> \in Seq(S) /\ Len(<<a>>) = 1 /\ <<a>>[1] = a
          BY <5>2
        <5> QED
          BY <5>3, <5>4, <5>5
      <4> HIDE DEF S, p, a
      <4>2. /\ p \o <<a>> \in Seq(S) /\ Len(p \o <<a>>) = Len(p) + 1
            /\ \A k \in 1..(Len(p) + 1) :
                 (p \o <<a>>)[k] = IF k <= Len(p) THEN p[k] ELSE <<a>>[k - Len(p)]
        BY <4>1, ConcatProperties
      <4>3. i - 1 + 1 = i /\ \A k \in 1..i : ~(k <= i - 1) => k - (i - 1) = 1
        BY <3>1
      <4>4. p \o <<a>> = [k \in 1..i |-> (p \o <<a>>)[k]]
        <5> DEFINE q == p \o <<a>>
        <5>1. q \in Seq(S) /\ Len(q) = i
          BY <4>1, <4>2, <4>3
        <5> HIDE DEF q
        <5>2. q = [k \in 1..i |-> q[k]]
          BY <5>1
        <5> QED
          BY <5>2 DEF q
      <4>5. \A k \in 1..i : (p \o <<a>>)[k] = IF k <= i - 1 THEN p[k] ELSE a
        BY <4>1, <4>2, <4>3
      <4> QED
        BY <4>4, <4>5
    <3>4. \A k \in 1..i : (IF k <= i - 1 THEN p[k] ELSE a) = s[k][1]
      <4>1. \A k \in 1..i : k <= i - 1 => k \in 1..(i - 1)
        BY <3>1
      <4>2. \A k \in 1..i : ~(k <= i - 1) => k = i
        BY <3>1
      <4> QED
        BY <4>1, <4>2
    <3> HIDE DEF p, a, G
    <3> QED
      BY <3>2, <3>3, <3>4
  <2>4. G[1] = s[1]
    <3>1. 1 \in 1..n
      BY <1>3
    <3>2. [k \in 1..1 |-> s[k][1]] = <<s[1][1]>>
      OBVIOUS
    <3> QED
      BY <1>1, <2>2, <3>1, <3>2
  <2>5. G = Step(G)
    <3>1. \A i \in 1..n : G[i] = IF i = 1 THEN s[i] ELSE G[i - 1] \o s[i]
      BY <2>3, <2>4
    <3>2. G = [i \in 1..n |-> G[i]]
      OBVIOUS
    <3> HIDE DEF G
    <3> QED
      BY <3>1, <3>2
  <2>6. H = Step(H)
    <3> HIDE DEF Step, G
    <3> QED
      BY <2>5
  <2> HIDE DEF H, G
  <2>7. \A i \in 1..n : H[i] = IF i = 1 THEN s[i] ELSE H[i - 1] \o s[i]
    BY <2>6
  <2>8. \A i \in 1..n : H[i] = G[i]
    <3> DEFINE Bad == {i \in 1..n : H[i] # G[i]}
    <3> SUFFICES ASSUME Bad # {} PROVE FALSE
      OBVIOUS
    <3>0. Bad \in SUBSET Nat
      OBVIOUS
    <3> HIDE DEF Bad
    <3>1. PICK m \in Bad : \A i \in Bad : m <= i
      BY <3>0, LeastElement
    <3>2. m \in 1..n /\ H[m] # G[m]
      BY DEF Bad
    <3>3. m # 1
      BY <2>4, <2>7, <3>2
    <3>4. m - 1 \in 1..n /\ ~(m <= m - 1)
      BY <3>2, <3>3
    <3>5. H[m - 1] = G[m - 1]
      BY <3>1, <3>4 DEF Bad
    <3> QED
      BY <2>3, <2>7, <3>2, <3>3, <3>5
  <2>9. n \in 1..n
    BY <1>3
  <2> QED
    BY <2>1, <2>2, <2>8, <2>9 DEF G
<1> QED
  BY <1>2, <1>3

(* Labels without dots come out of joining and splitting as they went in   *)
(* (parse.go:145-157, block.go:240-263).                                   *)
THEOREM LabelsSurvive ==
  ASSUME NEW labels, labels \in Seq(Seq(STRING)),
         \A i \in DOMAIN labels : Len(labels[i]) = 1 /\ labels[i] # <<NoBytes>>
  PROVE  EncodeQName(FlattenSeq(labels)) = labels
<1> DEFINE n == Len(labels)
           name == [i \in 1..n |-> labels[i][1]]
<1>1. n \in Nat /\ DOMAIN labels = 1..n /\ labels = [i \in 1..n |-> labels[i]]
  OBVIOUS
<1>2. \A i \in 1..n : labels[i] = <<labels[i][1]>> /\ labels[i][1] \in STRING
  <2> TAKE i \in 1..n
  <2>1. labels[i] \in Seq(STRING) /\ Len(labels[i]) = 1
    BY <1>1
  <2> QED
    BY <2>1
<1>3. \A i \in 1..n : labels[i][1] # NoBytes
  BY <1>1, <1>2
<1>4. FlattenSeq(labels) = name
  BY <1>1, <1>2, FlattenSingles
<1>5. name \in Seq(STRING) /\ DOMAIN name = 1..n /\ \A i \in 1..n : name[i] = labels[i][1]
  BY <1>1, <1>2
<1> HIDE DEF name
<1>6. {i \in DOMAIN name : name[i] # NoBytes} = DOMAIN name
  BY <1>3, <1>5
<1>7. Picked(name, DOMAIN name) = name
  BY <1>5, PickedAll
<1>8. EncodeQName(name) = [i \in 1..n |-> <<name[i]>>]
  BY <1>5, <1>6, <1>7 DEF EncodeQName
<1> QED
  BY <1>1, <1>2, <1>4, <1>5, <1>8

-----------------------------------------------------------------------------
(* What is hashed sorted does not depend on the order of the hello. *)
LEMMA SameCount ==
  ASSUME NEW A, NEW B, NEW p, IsFiniteSet(A),
         \A i \in A : p[i] \in B,
         \A i, j \in A : p[i] = p[j] => i = j,
         \A j \in B : \E i \in A : p[i] = j
  PROVE  Cardinality(A) = Cardinality(B)
<1> DEFINE q == [i \in A |-> p[i]]
<1>1. q \in [A -> B] /\ (\A i, j \in A : q[i] = q[j] => i = j)
      /\ (\A j \in B : \E i \in A : q[i] = j)
  OBVIOUS
<1> HIDE DEF q
<1>2. q \in Bijection(A, B)
  BY <1>1, Fun_IsBij
<1> QED
  BY <1>2, FS_Bijection DEF ExistsBijection

LEMMA BelowGrows ==
  ASSUME NEW I \in SUBSET Nat, IsFiniteSet(I), NEW i \in I
  PROVE  /\ IsFiniteSet({j \in I : j < i})
         /\ Cardinality({j \in I : j < i}) \in 0..(Cardinality(I) - 1)
         /\ \A k \in I : i < k => Cardinality({j \in I : j < i}) < Cardinality({j \in I : j < k})
<1> DEFINE Below(k) == {j \in I : j < k}
<1>1. IsFiniteSet(Below(i)) /\ Cardinality(Below(i)) \in Nat /\ Cardinality(I) \in Nat
  BY FS_Subset, FS_CardinalityType
<1>2. ASSUME NEW S \in SUBSET I, Below(i) \subseteq S, i \in S
      PROVE  Cardinality(Below(i)) < Cardinality(S)
  <2>1. IsFiniteSet(S) /\ Cardinality(S) \in Nat
    BY FS_Subset, FS_CardinalityType
  <2>2. Below(i) # S
    <3>1. ~(i < i)
      OBVIOUS
    <3> QED
      BY <1>2, <3>1
  <2> HIDE DEF Below
  <2>3. /\ Cardinality(Below(i)) <= Cardinality(S)
        /\ Cardinality(S) = Cardinality(Below(i)) => S = Below(i)
    BY <1>2, <2>1, FS_Subset
  <2> QED
    BY <1>1, <2>1, <2>2, <2>3
<1>3. Cardinality(Below(i)) < Cardinality(I)
  BY <1>2
<1>4. ASSUME NEW k \in I, i < k
      PROVE  Cardinality(Below(i)) < Cardinality(Below(k))
  <2>1. \A j \in I : j < i => j < k
    BY <1>4
  <2>2. Below(k) \in SUBSET I /\ Below(i) \subseteq Below(k) /\ i \in Below(k)
    BY <1>4, <2>1
  <2> QED
    BY <1>2, <2>2
<1>5. Cardinality(Below(i)) \in 0..(Cardinality(I) - 1)
  <2> HIDE DEF Below
  <2> QED
    BY <1>1, <1>3
<1> QED
  BY <1>1, <1>4, <1>5

(* Nth numbers the elements of a set. *)
LEMMA NthNumbers ==
  ASSUME NEW I \in SUBSET Nat, IsFiniteSet(I)
  PROVE  /\ \A k \in 1..Cardinality(I) : Nth(I, k - 1) \in I
         /\ \A k, m \in 1..Cardinality(I) : Nth(I, k - 1) = Nth(I, m - 1) => k = m
         /\ \A i \in I : \E k \in 1..Cardinality(I) : Nth(I, k - 1) = i
<1> DEFINE n == Cardinality(I)
           rank == [i \in I |-> Cardinality({j \in I : j < i}) + 1]
<1>1. n \in Nat
  BY FS_CardinalityType
<1>2. \A i \in I : rank[i] = Cardinality({j \in I : j < i}) + 1
  OBVIOUS
<1>3. \A i \in I : Cardinality({j \in I : j < i}) \in 0..(n - 1)
  BY BelowGrows
<1>4. \A i \in I : rank[i] \in 1..n
  BY <1>1, <1>2, <1>3
<1>5. \A i, k \in I : i < k => rank[i] < rank[k]
  <2>1. \A i, k \in I : i < k => Cardinality({j \in I : j < i}) < Cardinality({j \in I : j < k})
    BY BelowGrows
  <2> QED
    BY <1>2, <1>3, <2>1
<1> DEFINE R == {rank[i] : i \in I}
<1> HIDE DEF rank
<1>6. \A i, k \in I : rank[i] = rank[k] => i = k
  <2>1. \A i, k \in I : i < k \/ k < i \/ i = k
    OBVIOUS
  <2> QED
    BY <1>4, <1>5, <2>1
<1>7. R = 1..n
  <2>1. R \in SUBSET (1..n)
    BY <1>4
  <2>2. Cardinality(I) = Cardinality(R)
    <3>1. \A i \in I : rank[i] \in R
      OBVIOUS
    <3>2. \A j \in R : \E i \in I : rank[i] = j
      OBVIOUS
    <3> HIDE DEF R
    <3> QED
      BY <1>6, <3>1, <3>2, SameCount
  <2> HIDE DEF R
  <2>3. IsFiniteSet(1..n) /\ Cardinality(1..n) = n
    BY <1>1, IntervalSize
  <2> QED
    BY <2>1, <2>2, <2>3, FS_Subset
<1>8. ASSUME NEW k \in 1..n
      PROVE  Nth(I, k - 1) \in I /\ rank[Nth(I, k - 1)] = k
  <2>1. PICK i \in I : rank[i] = k
    BY <1>7
  <2>2. \A j \in I : rank[j] = k <=> Cardinality({m \in I : m < j}) = k - 1
    BY <1>1, <1>2, <1>3
  <2> QED
    BY <2>1, <2>2 DEF Nth
<1>9. \A k, m \in 1..n : Nth(I, k - 1) = Nth(I, m - 1) => k = m
  BY <1>8
<1>10. \A i \in I : Nth(I, rank[i] - 1) = i
  BY <1>4, <1>6, <1>8
<1> QED
  BY <1>4, <1>8, <1>9, <1>10

(* The bag of what is picked counts positions. *)
CountIn(s, I) == [x \in {s[i] : i \in I} |-> Cardinality({i \in I : s[i] = x})]

LEMMA BagOfPicked ==
  ASSUME NEW s, NEW I \in SUBSET Nat, IsFiniteSet(I)
  PROVE  ToBag(Picked(s, I)) = CountIn(s, I)
<1> DEFINE n == Cardinality(I)
           p == [k \in 1..n |-> Nth(I, k - 1)]
           t == Picked(s, I)
<1>1. /\ \A k \in 1..n : p[k] \in I
      /\ \A k, m \in 1..n : p[k] = p[m] => k = m
      /\ \A i \in I : \E k \in 1..n : p[k] = i
  BY NthNumbers
<1>2. DOMAIN t = 1..n /\ \A k \in 1..n : t[k] = s[p[k]]
  BY DEF Picked
<1>3. n \in Nat /\ IsFiniteSet(1..n)
  BY FS_CardinalityType, IntervalSize
<1> HIDE DEF n, p, t
<1>4. Range(t) = {s[i] : i \in I}
  <2>1. Range(t) = {t[k] : k \in 1..n}
    BY <1>2 DEF Range
  <2>2. \A k \in 1..n : t[k] \in {s[i] : i \in I}
    BY <1>1, <1>2
  <2>3. \A i \in I : s[i] \in {t[k] : k \in 1..n}
    BY <1>1, <1>2
  <2> QED
    BY <2>1, <2>2, <2>3
<1>5. ASSUME NEW x
      PROVE  Cardinality({k \in DOMAIN t : t[k] = x}) = Cardinality({i \in I : s[i] = x})
  <2> DEFINE A == {k \in DOMAIN t : t[k] = x}
             B == {i \in I : s[i] = x}
  <2>1. IsFiniteSet(A)
    BY <1>2, <1>3, FS_Subset
  <2>2. \A k \in A : p[k] \in B
    BY <1>1, <1>2
  <2>3. \A k, m \in A : p[k] = p[m] => k = m
    BY <1>1, <1>2
  <2>4. \A i \in B : \E k \in A : p[k] = i
    BY <1>1, <1>2
  <2> HIDE DEF A, B
  <2>5. Cardinality(A) = Cardinality(B)
    BY <2>1, <2>2, <2>3, <2>4, SameCount
  <2> QED
    BY <2>5 DEF A, B
<1>6. ToBag(t) = [x \in {s[i] : i \in I} |-> Cardinality({i \in I : s[i] = x})]
  BY <1>4, <1>5 DEF ToBag
<1> QED
  BY <1>6 DEF t, CountIn

(* t has at the positions J what s has at the positions I. *)
Rearranged(s, I, t, J) == \E p \in Bijection(I, J) : \A i \in I : t[p[i]] = s[i]

LEMMA SameCounts ==
  ASSUME NEW s, NEW I, IsFiniteSet(I), NEW t, NEW J, Rearranged(s, I, t, J)
  PROVE  CountIn(s, I) = CountIn(t, J)
<1>1. PICK p \in Bijection(I, J) : \A i \in I : t[p[i]] = s[i]
  BY DEF Rearranged
<1>2. /\ \A i \in I : p[i] \in J
      /\ \A i, k \in I : p[i] = p[k] => i = k
      /\ \A j \in J : \E i \in I : p[i] = j
  BY Fun_BijectionProperties
<1>3. {s[i] : i \in I} = {t[j] : j \in J}
  <2>1. \A i \in I : s[i] \in {t[j] : j \in J}
    BY <1>1, <1>2
  <2>2. \A j \in J : t[j] \in {s[i] : i \in I}
    BY <1>1, <1>2
  <2> QED
    BY <2>1, <2>2
<1>4. ASSUME NEW x
      PROVE  Cardinality({i \in I : s[i] = x}) = Cardinality({j \in J : t[j] = x})
  <2> DEFINE A == {i \in I : s[i] = x}
             B == {j \in J : t[j] = x}
  <2>1. IsFiniteSet(A)
    BY FS_Subset
  <2>2. \A i \in A : p[i] \in B
    BY <1>1, <1>2
  <2>3. \A i, k \in A : p[i] = p[k] => i = k
    BY <1>2
  <2>4. \A j \in B : \E i \in A : p[i] = j
    BY <1>1, <1>2
  <2> HIDE DEF A, B
  <2>5. Cardinality(A) = Cardinality(B)
    BY <2>1, <2>2, <2>3, <2>4, SameCount
  <2> QED
    BY <2>5 DEF A, B
<1> QED
  BY <1>3, <1>4 DEF CountIn

(* A rearrangement of what is not GREASE leaves the bag of what is hashed. *)
Plain(s) == {i \in DOMAIN s : ~IsGREASE(s[i])}

LEMMA WithoutRearranged ==
  ASSUME NEW s \in Seq(Nat), NEW t \in Seq(Nat), NEW T, Rearranged(s, Plain(s), t, Plain(t))
  PROVE  ToBag(Without(s, T)) = ToBag(Without(t, T))
<1> DEFINE Kept(r) == {i \in DOMAIN r : ~IsGREASE(r[i]) /\ r[i] \notin T}
<1>1. ASSUME NEW r \in Seq(Nat)
      PROVE  /\ Kept(r) \in SUBSET Nat /\ IsFiniteSet(Kept(r))
             /\ \A i : i \in Kept(r) <=> i \in Plain(r) /\ r[i] \notin T
  <2>1. DOMAIN r = 1..Len(r) /\ Len(r) \in Nat
    OBVIOUS
  <2>2. IsFiniteSet(DOMAIN r) /\ DOMAIN r \in SUBSET Nat
    BY <2>1, IntervalSize
  <2>3. IsFiniteSet(Kept(r))
    BY <2>2, FS_Subset
  <2> QED
    BY <2>2, <2>3 DEF Plain
<1>2. PICK p \in Bijection(Plain(s), Plain(t)) : \A i \in Plain(s) : t[p[i]] = s[i]
  BY DEF Rearranged
<1>3. /\ \A i \in Plain(s) : p[i] \in Plain(t)
      /\ \A i, k \in Plain(s) : p[i] = p[k] => i = k
      /\ \A j \in Plain(t) : \E i \in Plain(s) : p[i] = j
  BY Fun_BijectionProperties
<1>4. /\ \A i : i \in Kept(s) <=> i \in Plain(s) /\ s[i] \notin T
      /\ \A i : i \in Kept(t) <=> i \in Plain(t) /\ t[i] \notin T
      /\ IsFiniteSet(Kept(s)) /\ IsFiniteSet(Kept(t))
      /\ Kept(s) \in SUBSET Nat /\ Kept(t) \in SUBSET Nat
  BY <1>1
<1>5. Without(s, T) = Picked(s, Kept(s)) /\ Without(t, T) = Picked(t, Kept(t))
  BY DEF Without
<1> HIDE DEF Kept
<1>6. Rearranged(s, Kept(s), t, Kept(t))
  <2> DEFINE q == [i \in Kept(s) |-> p[i]]
  <2>1. q \in [Kept(s) -> Kept(t)]
    BY <1>2, <1>3, <1>4
  <2>2. \A i, k \in Kept(s) : q[i] = q[k] => i = k
    BY <1>3, <1>4
  <2>3. \A j \in Kept(t) : \E i \in Kept(s) : q[i] = j
    BY <1>2, <1>3, <1>4
  <2>4. \A i \in Kept(s) : t[q[i]] = s[i]
    BY <1>2, <1>4
  <2> HIDE DEF q
  <2>5. q \in Bijection(Kept(s), Kept(t))
    BY <2>1, <2>2, <2>3, Fun_IsBij
  <2> QED
    BY <2>4, <2>5 DEF Rearranged
<1>7. CountIn(s, Kept(s)) = CountIn(t, Kept(t))
  BY <1>4, <1>6, SameCounts
<1>8. /\ ToBag(Picked(s, Kept(s))) = CountIn(s, Kept(s))
      /\ ToBag(Picked(t, Kept(t))) = CountIn(t, Kept(t))
  BY <1>4, BagOfPicked
<1> QED
  BY <1>5, <1>7, <1>8

(* Two hellos of one software: another order of cipher suites, extensions  *)
(* and signature algorithms, and other GREASE values among the first two.  *)
SameSoftware(c, d) ==
  /\ \A h \in {c, d} : {h.ciphers, h.exts, h.sigAlgs} \subseteq Seq(Nat)
  /\ Rearranged(c.ciphers, Plain(c.ciphers), d.ciphers, Plain(d.ciphers))
  /\ Rearranged(c.exts, Plain(c.exts), d.exts, Plain(d.exts))
  /\ Rearranged(c.sigAlgs, DOMAIN c.sigAlgs, d.sigAlgs, DOMAIN d.sigAlgs)
  /\ Ja4Version(c) = Ja4Version(d) /\ c.alpn = d.alpn /\ (c.sni = NoName <=> d.sni = NoName)

(* The JA4 of a software does not change from hello to hello, though     *)
(* browsers permute extensions and draw GREASE values (ja3.go:186-234).    *)
THEOREM FingerprintIsStable ==
  ASSUME NEW c, NEW d, SameSoftware(c, d)
  PROVE  JA4(c) = JA4(d)
<1>0. /\ \A h \in {c, d} : h.ciphers \in Seq(Nat) /\ h.exts \in Seq(Nat) /\ h.sigAlgs \in Seq(Nat)
      /\ Rearranged(c.ciphers, Plain(c.ciphers), d.ciphers, Plain(d.ciphers))
      /\ Rearranged(c.exts, Plain(c.exts), d.exts, Plain(d.exts))
      /\ Rearranged(c.sigAlgs, DOMAIN c.sigAlgs, d.sigAlgs, DOMAIN d.sigAlgs)
      /\ Ja4Version(c) = Ja4Version(d) /\ c.alpn = d.alpn /\ (c.sni = NoName <=> d.sni = NoName)
  BY DEF SameSoftware
<1>1. ToBag(Without(c.ciphers, {})) = ToBag(Without(d.ciphers, {}))
  BY <1>0, WithoutRearranged
<1>2. ToBag(Without(c.exts, {0, 16})) = ToBag(Without(d.exts, {0, 16}))
  BY <1>0, WithoutRearranged
<1>3. ToBag(c.sigAlgs) = ToBag(d.sigAlgs)
  <2>1. ASSUME NEW s \in Seq(Nat)
        PROVE  ToBag(s) = CountIn(s, DOMAIN s) /\ IsFiniteSet(DOMAIN s)
    <3>1. DOMAIN s = 1..Len(s) /\ Len(s) \in Nat
      OBVIOUS
    <3>2. IsFiniteSet(DOMAIN s) /\ DOMAIN s \in SUBSET Nat
      BY <3>1, IntervalSize
    <3> QED
      BY <3>2, PickedAll, BagOfPicked
  <2> QED
    BY <1>0, <2>1, SameCounts
<1>4. (c.sni # NoName) = (d.sni # NoName)
  BY <1>0
<1> QED
  BY <1>0, <1>1, <1>2, <1>3, <1>4 DEF JA4
===============================================================================
