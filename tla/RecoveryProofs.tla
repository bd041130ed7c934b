--------------------------- MODULE RecoveryProofs ---------------------------
(***************************************************************************)
(* Safety of Recovery for every set of nodes, flows and loop-free paths,   *)
(* and whatever breaks, is lost or crashes.                                *)
(***************************************************************************)
EXTENDS Recovery, WellFoundedInduction, FiniteSetTheorems, SequenceTheorems, TLAPS

LEMMA LeastNat ==
  ASSUME NEW T, T \subseteq Nat, T # {}
  PROVE  \E x \in T : \A y \in T : x <= y
<1>. DEFINE R == OpToRel(<, Nat)
<1>1. PICK x \in T : \A y \in T : <<y, x>> \notin R
  <2>1. IsWellFoundedOn(R, Nat)
    BY NatLessThanWellFounded
  <2>. HIDE DEF R
  <2>. QED
    BY <2>1, WFMin
<1>2. \A y \in T : ~ (y < x)
  BY <1>1 DEF OpToRel
<1>. QED
  BY <1>2

LEMMA SeqPlaces ==
  ASSUME NEW S, NEW l \in Seq(S)
  PROVE  /\ Len(l) \in Nat /\ DOMAIN l = 1 .. Len(l)
         /\ \A i \in 1 .. Len(l) : l[i] \in S
  BY LenProperties

LEMMA PlacesSeq ==
  ASSUME NEW S, NEW n \in Nat, NEW l, DOMAIN l = 1 .. n, l = [i \in 1 .. n |-> l[i]],
         \A i \in 1 .. n : l[i] \in S
  PROVE  l \in Seq(S) /\ Len(l) = n
<1>1. l \in [1 .. n -> S]
  OBVIOUS
<1>2. l \in Seq(S)
  BY <1>1, SeqDef
<1>3. DOMAIN l = 1 .. Len(l) /\ Len(l) \in Nat
  BY <1>2, SeqPlaces
<1>. QED
  BY <1>2, <1>3

LEMMA ConcatIs ==
  ASSUME NEW S, NEW a \in Seq(S), NEW b \in Seq(S)
  PROVE  /\ a \o b \in Seq(S) /\ Len(a \o b) = Len(a) + Len(b)
         /\ \A i \in 1 .. Len(a) : (a \o b)[i] = a[i]
         /\ \A i \in 1 .. Len(b) : (a \o b)[Len(a) + i] = b[i]
<1>1. Len(a) \in Nat /\ Len(b) \in Nat
  BY SeqPlaces
<1>2. /\ a \o b \in Seq(S) /\ Len(a \o b) = Len(a) + Len(b)
      /\ \A i \in 1 .. Len(a) + Len(b) : (a \o b)[i] = IF i <= Len(a) THEN a[i] ELSE b[i - Len(a)]
  BY ConcatProperties
<1>3. ASSUME NEW i \in 1 .. Len(b) PROVE (a \o b)[Len(a) + i] = b[i]
  <2>1. Len(a) + i \in 1 .. Len(a) + Len(b) /\ ~ (Len(a) + i <= Len(a)) /\ (Len(a) + i) - Len(a) = i
    BY <1>1
  <2>. QED
    BY <1>2, <2>1
<1>4. ASSUME NEW i \in 1 .. Len(a) PROVE (a \o b)[i] = a[i]
  <2>1. i \in 1 .. Len(a) + Len(b) /\ i <= Len(a)
    BY <1>1
  <2>. QED
    BY <1>2, <2>1
<1>. QED
  BY <1>2, <1>3, <1>4
-----------------------------------------------------------------------------
(* What Picked picks.                                                      *)

Upon(I, i) == Cardinality({j \in I : j <= i})

LEMMA UponIs ==
  ASSUME NEW n \in Nat, NEW I, I \subseteq 1 .. n
  PROVE  /\ IsFiniteSet(I) /\ Cardinality(I) \in Nat
         /\ \A i \in 0 .. n : Upon(I, i) \in Nat
         /\ Upon(I, 0) = 0 /\ Upon(I, n) = Cardinality(I)
         /\ \A i \in 1 .. n : Upon(I, i) = IF i \in I THEN Upon(I, i - 1) + 1 ELSE Upon(I, i - 1)
         /\ \A i, j \in 0 .. n : i <= j => Upon(I, i) <= Upon(I, j)
<1>0. \A i \in I : i \in Nat /\ 1 <= i /\ i <= n
  OBVIOUS
<1>1. IsFiniteSet(1 .. n)
  BY FS_Interval
<1>2. \A J : J \subseteq 1 .. n => IsFiniteSet(J) /\ Cardinality(J) \in Nat
  BY <1>1, FS_Subset, FS_CardinalityType
<1>3. ASSUME NEW i PROVE IsFiniteSet({j \in I : j <= i}) /\ Upon(I, i) \in Nat
  BY <1>2 DEF Upon
<1>4. {j \in I : j <= 0} = {} /\ {j \in I : j <= n} = I
  <2>1. \A j \in I : ~ (j <= 0) /\ j <= n
    BY <1>0
  <2>. QED
    BY <2>1, Zenon
<1>5. Upon(I, 0) = 0 /\ Upon(I, n) = Cardinality(I)
  BY <1>4, FS_EmptySet DEF Upon
<1>6. ASSUME NEW i \in 1 .. n
      PROVE  Upon(I, i) = IF i \in I THEN Upon(I, i - 1) + 1 ELSE Upon(I, i - 1)
  <2>1. CASE i \in I
    <3>1. {j \in I : j <= i} = {j \in I : j <= i - 1} \cup {i} /\ i \notin {j \in I : j <= i - 1}
      <4>1. \A j \in I : /\ j <= i <=> (j <= i - 1 \/ j = i)
                         /\ j <= i - 1 => j # i
        BY <1>0
      <4>. QED
        BY <2>1, <4>1, Zenon
    <3>2. IsFiniteSet({j \in I : j <= i - 1})
      BY <1>3
    <3>. QED
      BY <2>1, <3>1, <3>2, FS_AddElement DEF Upon
  <2>2. CASE i \notin I
    <3>1. {j \in I : j <= i} = {j \in I : j <= i - 1}
      <4>1. \A j \in I : j # i => (j <= i <=> j <= i - 1)
        BY <1>0
      <4>2. \A j \in I : j # i
        BY <2>2
      <4>. QED
        BY <4>1, <4>2, Zenon
    <3>. QED
      BY <2>2, <3>1 DEF Upon
  <2>. QED
    BY <2>1, <2>2
<1>7. ASSUME NEW i \in 0 .. n, NEW j \in 0 .. n, i <= j
      PROVE  Upon(I, i) <= Upon(I, j)
  <2>1. {k \in I : k <= i} \subseteq {k \in I : k <= j}
    <3>1. \A k \in I : k <= i => k <= j
      BY <1>0, <1>7
    <3>. QED
      BY <3>1, Zenon
  <2>. QED
    BY <1>3, <2>1, FS_Subset DEF Upon
<1>. QED
  BY <1>2, <1>3, <1>5, <1>6, <1>7

\* at lists the places in I; p are the members of l there.
Orders(at, I) ==
  /\ at \in [1 .. Cardinality(I) -> I]
  /\ \A k, m \in 1 .. Cardinality(I) : k < m => at[k] < at[m]
  /\ \A i \in I : \E k \in 1 .. Cardinality(I) : at[k] = i
Lists(at, I, l, p) == Orders(at, I) /\ p = [k \in 1 .. Cardinality(I) |-> l[at[k]]]

LEMMA PickedIs ==
  ASSUME NEW n \in Nat, NEW I, I \subseteq 1 .. n, NEW l
  PROVE  /\ Cardinality(I) \in Nat
         /\ \E at : Lists(at, I, l, Picked(l, I))
<1>. DEFINE c == Cardinality(I)
            th(k) == CHOOSE i \in I : Upon(I, i) = k
            at == [k \in 1 .. c |-> th(k)]
<1>1. /\ IsFiniteSet(I) /\ c \in Nat
      /\ \A i \in 0 .. n : Upon(I, i) \in Nat
      /\ Upon(I, 0) = 0 /\ Upon(I, n) = c
      /\ \A i \in 1 .. n : Upon(I, i) = IF i \in I THEN Upon(I, i - 1) + 1 ELSE Upon(I, i - 1)
      /\ \A i, j \in 0 .. n : i <= j => Upon(I, i) <= Upon(I, j)
  BY UponIs
<1>2. Picked(l, I) = [k \in 1 .. c |-> l[th(k)]]
  BY DEF Picked, Upon
<1>. HIDE DEF c
<1>3. ASSUME NEW k \in 1 .. c
      PROVE  th(k) \in I /\ Upon(I, th(k)) = k
  <2>. DEFINE T == {i \in 0 .. n : Upon(I, i) >= k}
  <2>1. n \in T /\ T \subseteq Nat
    BY <1>1
  <2>. HIDE DEF T
  <2>2. PICK i \in T : \A j \in T : i <= j
    BY <2>1, LeastNat
  <2>3. i \in 1 .. n /\ Upon(I, i) >= k
    BY <1>1, <2>2 DEF T
  <2>4. i - 1 \in 0 .. n /\ ~ (i <= i - 1)
    BY <2>3
  <2>5. ~ (Upon(I, i - 1) >= k)
    BY <2>2, <2>4 DEF T
  <2>6. i \in I /\ Upon(I, i) = k
    BY <1>1, <2>3, <2>4, <2>5
  <2>. QED
    BY <2>6
<1>. HIDE DEF th
<1>4. \A k \in 1 .. c : at[k] \in I /\ Upon(I, at[k]) = k
  BY <1>3
<1>5. at \in [1 .. c -> I]
  BY <1>4
<1>6. Picked(l, I) = [k \in 1 .. c |-> l[at[k]]]
  BY <1>2
<1>. HIDE DEF at
<1>7. ASSUME NEW k \in 1 .. c, NEW m \in 1 .. c, k < m
      PROVE  at[k] < at[m]
  <2>1. at[k] \in 0 .. n /\ at[m] \in 0 .. n
    <3>1. \A i \in I : i \in 0 .. n
      OBVIOUS
    <3>. QED
      BY <1>4, <3>1
  <2>2. at[m] <= at[k] => m <= k
    BY <1>1, <1>4, <2>1
  <2>. QED
    BY <1>1, <1>7, <2>1, <2>2
<1>8. ASSUME NEW i \in I
      PROVE  \E k \in 1 .. c : at[k] = i
  <2>1. i \in 1 .. n /\ i \in 0 .. n /\ i - 1 \in 0 .. n /\ n \in 0 .. n
    OBVIOUS
  <2>2. Upon(I, i) = Upon(I, i - 1) + 1 /\ Upon(I, i) <= c
    BY <1>1, <2>1
  <2>3. Upon(I, i) \in 1 .. c
    BY <1>1, <2>1, <2>2
  <2>4. at[Upon(I, i)] \in I /\ Upon(I, at[Upon(I, i)]) = Upon(I, i)
    BY <1>4, <2>3
  <2>5. \A j \in I : j < i => Upon(I, j) < Upon(I, i)
    <3>1. SUFFICES ASSUME NEW j \in I, j < i PROVE Upon(I, j) < Upon(I, i)
      OBVIOUS
    <3>2. j \in 0 .. n /\ j <= i - 1
      BY <3>1
    <3>3. Upon(I, j) <= Upon(I, i - 1)
      BY <1>1, <2>1, <3>2
    <3>. QED
      BY <1>1, <2>1, <2>2, <3>2, <3>3
  <2>6. \A j \in I : i < j => Upon(I, i) < Upon(I, j)
    <3>1. SUFFICES ASSUME NEW j \in I, i < j PROVE Upon(I, i) < Upon(I, j)
      OBVIOUS
    <3>2. j \in 1 .. n /\ j \in 0 .. n /\ j - 1 \in 0 .. n /\ i <= j - 1
      BY <3>1
    <3>3. Upon(I, i) <= Upon(I, j - 1) /\ Upon(I, j) = Upon(I, j - 1) + 1
      BY <1>1, <2>1, <3>2
    <3>. QED
      BY <1>1, <2>1, <3>2, <3>3
  <2>7. at[Upon(I, i)] = i
    <3>1. at[Upon(I, i)] \in Nat /\ i \in Nat
      <4>1. \A j \in I : j \in Nat
        OBVIOUS
      <4>. QED
        BY <2>4, <4>1
    <3>2. ~ (at[Upon(I, i)] < i) /\ ~ (i < at[Upon(I, i)])
      <4>1. Upon(I, i) \in Nat
        BY <1>1, <2>1
      <4>2. ~ (Upon(I, i) < Upon(I, i))
        BY <4>1
      <4>. QED
        BY <2>4, <2>5, <2>6, <4>2
    <3>. QED
      BY <3>1, <3>2
  <2>. QED
    BY <2>3, <2>7
<1>9. Lists(at, I, l, Picked(l, I))
  BY <1>5, <1>6, <1>7, <1>8 DEF Lists, Orders, c
<1>10. Cardinality(I) \in Nat
  BY <1>1 DEF c
<1>. QED
  BY <1>9, <1>10

(* The same, member by member.                                             *)
Picks(p, l, I) ==
  /\ Cardinality(I) \in Nat /\ Len(p) = Cardinality(I)
  /\ \A k \in 1 .. Len(p) : \E i \in I : p[k] = l[i]
  /\ \A i \in I : \E k \in 1 .. Len(p) : p[k] = l[i]
  /\ \A k, m \in 1 .. Len(p) :
       k < m => \E i, j \in I : i < j /\ p[k] = l[i] /\ p[m] = l[j]

LEMMA PickedAre ==
  ASSUME NEW n \in Nat, NEW I, I \subseteq 1 .. n, NEW l, NEW S, \A i \in I : l[i] \in S
  PROVE  Picked(l, I) \in Seq(S) /\ Picks(Picked(l, I), l, I)
<1>1. Cardinality(I) \in Nat
  BY PickedIs
<1>2. PICK at : Lists(at, I, l, Picked(l, I))
  BY PickedIs
<1>3. /\ at \in [1 .. Cardinality(I) -> I]
      /\ \A k, m \in 1 .. Cardinality(I) : k < m => at[k] < at[m]
      /\ \A i \in I : \E k \in 1 .. Cardinality(I) : at[k] = i
  BY <1>2 DEF Lists, Orders
<1>. DEFINE p == Picked(l, I)
<1>4. /\ DOMAIN p = 1 .. Cardinality(I) /\ p = [k \in 1 .. Cardinality(I) |-> p[k]]
      /\ \A k \in 1 .. Cardinality(I) : p[k] = l[at[k]] /\ at[k] \in I
  BY <1>2, <1>3 DEF Lists
<1>. HIDE DEF p
<1>5. \A k \in 1 .. Cardinality(I) : p[k] \in S
  BY <1>4
<1>6. p \in Seq(S) /\ Len(p) = Cardinality(I)
  BY <1>1, <1>4, <1>5, PlacesSeq
<1>7. \A i \in I : \E k \in 1 .. Cardinality(I) : p[k] = l[i]
  BY <1>3, <1>4
<1>8. ASSUME NEW k \in 1 .. Cardinality(I), NEW m \in 1 .. Cardinality(I), k < m
      PROVE  \E i, j \in I : i < j /\ p[k] = l[i] /\ p[m] = l[j]
  BY <1>3, <1>4, <1>8
<1>9. Picks(p, l, I)
  BY <1>1, <1>4, <1>6, <1>7, <1>8 DEF Picks
<1>. QED
  BY <1>6, <1>9 DEF p

LEMMA InitialPlaces ==
  ASSUME NEW n \in Nat, NEW I, I \subseteq 1 .. n,
         \A i \in I : \A j \in 1 .. i : j \in I
  PROVE  Cardinality(I) \in 0 .. n /\ I = 1 .. Cardinality(I)
<1>0. \A i \in I : i \in Nat /\ 1 <= i /\ i <= n
  OBVIOUS
<1>1. IsFiniteSet(1 .. n) /\ Cardinality(1 .. n) = n
  BY FS_Interval
<1>2. CASE I = 1 .. n
  BY <1>1, <1>2
<1>3. CASE I # 1 .. n
  <2>. DEFINE T == {i \in Nat : i \in 1 .. n /\ i \notin I}
  <2>1. T # {} /\ T \subseteq Nat
    <3>1. PICK i \in 1 .. n : i \notin I
      BY <1>3
    <3>. QED
      BY <3>1
  <2>2. \A i \in T : i \in 1 .. n /\ i \notin I
    OBVIOUS
  <2>3. \A i \in 1 .. n : i \notin I => i \in T
    OBVIOUS
  <2>. HIDE DEF T
  <2>4. PICK m \in T : \A i \in T : m <= i
    BY <2>1, LeastNat
  <2>5. m \in 1 .. n /\ m \notin I /\ m - 1 \in 0 .. n
    BY <2>2, <2>4
  <2>6. \A i \in 1 .. m - 1 : i \in I
    BY <2>3, <2>4, <2>5
  <2>7. \A i \in I : i \in 1 .. m - 1
    <3>1. SUFFICES ASSUME NEW i \in I PROVE i \in 1 .. m - 1
      OBVIOUS
    <3>2. i \in Nat /\ 1 <= i /\ ~ (m <= i)
      BY <1>0, <2>5
    <3>. QED
      BY <2>5, <3>2
  <2>8. I = 1 .. m - 1
    BY <2>6, <2>7
  <2>9. Cardinality(1 .. m - 1) = m - 1
    BY <2>5, FS_Interval
  <2>. QED
    BY <2>5, <2>8, <2>9
<1>. QED
  BY <1>2, <1>3
-----------------------------------------------------------------------------
(* Paths.                                                                  *)

LEMMA PathIs ==
  ASSUME NEW f \in Flow
  PROVE  /\ f.dst \in Nat /\ Path[f] \in Seq(Node) /\ Len(Path[f]) \in Nat
         /\ 1 \in 1 .. Len(Path[f]) /\ Path[f][1] = f.src
         /\ \A i \in 1 .. Len(Path[f]) : Path[f][i] \in Node
         /\ \A i, j \in 1 .. Len(Path[f]) : Path[f][i] = Path[f][j] => i = j
<1>1. /\ f.dst \in Nat /\ Path[f] \in Seq(Node) /\ Path[f] # <<>>
      /\ Path[f][1] = f.src
      /\ \A i, j \in 1 .. Len(Path[f]) : Path[f][i] = Path[f][j] => i = j
  BY RecoveryAssumption DEF RecoveryAssumption
<1>2. Len(Path[f]) \in Nat /\ \A i \in 1 .. Len(Path[f]) : Path[f][i] \in Node
  BY <1>1, SeqPlaces
<1>3. Len(Path[f]) # 0
  BY <1>1, EmptySeq
<1>. QED
  BY <1>1, <1>2, <1>3

LEMMA PosIs ==
  ASSUME NEW f \in Flow, NEW n, On(n, f)
  PROVE  /\ Pos(n, f) \in 1 .. Len(Path[f]) /\ Path[f][Pos(n, f)] = n
         /\ \A i \in 1 .. Len(Path[f]) : Path[f][i] = n => i = Pos(n, f)
         /\ n \in Node
<1>1. Pos(n, f) \in 1 .. Len(Path[f]) /\ Path[f][Pos(n, f)] = n
  BY DEF On, Pos
<1>. QED
  BY <1>1, PathIs

LEMMA SourceOn ==
  ASSUME NEW f \in Flow
  PROVE  On(f.src, f) /\ f.src \in Node
  BY PathIs DEF On

LEMMA LastHopIs ==
  ASSUME NEW f \in Flow, NEW n, On(n, f), n # f.src
  PROVE  /\ LastHop(n, f) \in Node /\ On(LastHop(n, f), f)
         /\ NextHop(LastHop(n, f), f) = n /\ n \in Node
<1>. DEFINE p == Pos(n, f)
            m == Path[f][p - 1]
<1>1. /\ p \in 1 .. Len(Path[f]) /\ Path[f][p] = n /\ n \in Node
      /\ Len(Path[f]) \in Nat /\ Path[f] \in Seq(Node \cup {Null})
  <2>1. Node \subseteq Node \cup {Null}
    OBVIOUS
  <2>. QED
    BY <2>1, PosIs, PathIs, SeqMonotonic
<1>. HIDE DEF p
<1>2. p # 1
  BY <1>1, PathIs
<1>3. p - 1 \in 1 .. Len(Path[f])
  BY <1>1, <1>2
<1>4. LastHop(n, f) = m
  BY DEF LastHop, p
<1>5. On(m, f) /\ m \in Node
  BY <1>3, PathIs DEF On
<1>6. Pos(m, f) = p - 1
  BY <1>3, <1>5, PosIs
<1>. HIDE DEF m
<1>7. NextHop(m, f) = Append(Path[f], Null)[p]
  <2>1. Pos(m, f) + 1 = p
    BY <1>1, <1>6
  <2>. QED
    BY <2>1 DEF NextHop
<1>8. Append(Path[f], Null)[p] = n
  BY <1>1, AppendProperties
<1>. QED
  BY <1>1, <1>4, <1>5, <1>7, <1>8

LEMMA NextHopIs ==
  ASSUME NEW f \in Flow, NEW m, On(m, f), NextHop(m, f) \in Node
  PROVE  /\ On(NextHop(m, f), f) /\ NextHop(m, f) # f.src
         /\ LastHop(NextHop(m, f), f) = m /\ m \in Node
<1>. DEFINE p == Pos(m, f)
            n == NextHop(m, f)
<1>1. /\ p \in 1 .. Len(Path[f]) /\ Path[f][p] = m /\ m \in Node
      /\ Len(Path[f]) \in Nat /\ Path[f] \in Seq(Node \cup {Null})
  <2>1. Node \subseteq Node \cup {Null}
    OBVIOUS
  <2>. QED
    BY <2>1, PosIs, PathIs, SeqMonotonic
<1>2. n = Append(Path[f], Null)[p + 1]
  BY DEF NextHop
<1>. HIDE DEF p
<1>3. p + 1 \in 1 .. Len(Path[f])
  <2>1. p # Len(Path[f])
    <3>1. ASSUME p = Len(Path[f]) PROVE FALSE
      <4>1. Append(Path[f], Null)[Len(Path[f]) + 1] = Null
        BY <1>1, AppendProperties
      <4>. QED
        BY <1>2, <3>1, <4>1, RecoveryAssumption DEF RecoveryAssumption
    <3>. QED
      BY <3>1
  <2>. QED
    BY <1>1, <2>1
<1>4. n = Path[f][p + 1]
  BY <1>1, <1>2, <1>3, AppendProperties
<1>. HIDE DEF n
<1>5. On(n, f)
  BY <1>3, <1>4 DEF On
<1>6. Pos(n, f) = p + 1
  BY <1>3, <1>4, <1>5, PosIs
<1>7. n # f.src
  <2>1. p + 1 # 1
    BY <1>1
  <2>. QED
    BY <1>3, <1>4, <2>1, PathIs
<1>8. LastHop(n, f) = m
  <2>1. LastHop(n, f) = Path[f][(p + 1) - 1]
    BY <1>6, <1>7 DEF LastHop
  <2>2. (p + 1) - 1 = p
    BY <1>1
  <2>. QED
    BY <1>1, <2>1, <2>2
<1>. QED
  BY <1>1, <1>5, <1>7, <1>8 DEF n
-----------------------------------------------------------------------------
(* Lists of broken links.                                                  *)

Links == [flow : Flow, last : Node \cup {Null}, state : {"ACTIVE", "INVALID"},
          heard : BOOLEAN]
LinksAt(n) ==
  {k \in Links : /\ On(n, k.flow) /\ k.last = LastHop(n, k.flow)
                 /\ k.heard => NextHop(n, k.flow) \in Node}

LEMMA LinkIs ==
  ASSUME NEW n, NEW k, k \in LinksAt(n)
  PROVE  /\ k.flow \in Flow /\ k.flow.dst \in Nat /\ On(n, k.flow) /\ k.heard \in BOOLEAN
         /\ k.last = LastHop(n, k.flow) /\ k.state \in {"ACTIVE", "INVALID"}
         /\ k.heard => NextHop(n, k.flow) \in Node
  BY PathIs DEF LinksAt, Links

LEMMA NewLink ==
  ASSUME NEW n, NEW f \in Flow, On(n, f), NEW heard \in BOOLEAN,
         heard => NextHop(n, f) \in Node
  PROVE  Link(n, f, heard) \in LinksAt(n)
<1>1. LastHop(n, f) \in Node \cup {Null}
  BY LastHopIs DEF LastHop
<1>. QED
  BY <1>1 DEF Link, LinksAt, Links

Sorted(l) ==
  \A i, j \in 1 .. Len(l) :
    i < j => l[i].flow.dst <= l[j].flow.dst /\ l[i].flow # l[j].flow

LEMMA ListIs ==
  ASSUME NEW n, NEW l \in Seq(LinksAt(n))
  PROVE  /\ Len(l) \in Nat
         /\ \A i \in 1 .. Len(l) : /\ l[i] \in LinksAt(n) /\ l[i].flow \in Flow
                                   /\ l[i].flow.dst \in Nat
<1>1. Len(l) \in Nat /\ \A i \in 1 .. Len(l) : l[i] \in LinksAt(n)
  BY SeqPlaces
<1>. QED
  BY <1>1, LinkIs

LEMMA PlacesTo ==
  ASSUME NEW n, NEW l \in Seq(LinksAt(n)), Sorted(l), NEW d
  PROVE  LinksTo(l, d) = {i \in 1 .. Len(l) : l[i].flow.dst = d}
<1>1. Len(l) \in Nat /\ \A i \in 1 .. Len(l) : l[i].flow.dst \in Nat
  BY ListIs
<1>2. ASSUME NEW i \in 1 .. Len(l), l[i].flow.dst = d
      PROVE  i \in Upto(l, d)
  <2>1. ASSUME NEW j \in 1 .. i PROVE l[j].flow.dst <= d
    <3>1. j \in 1 .. Len(l) /\ (j < i \/ j = i)
      BY <1>1
    <3>. QED
      BY <1>1, <1>2, <3>1 DEF Sorted
  <2>. QED
    BY <2>1 DEF Upto
<1>3. \A i \in LinksTo(l, d) : i \in 1 .. Len(l) /\ l[i].flow.dst = d
  BY DEF LinksTo, Upto
<1>4. \A i \in 1 .. Len(l) : l[i].flow.dst = d => i \in LinksTo(l, d)
  BY <1>2 DEF LinksTo
<1>. QED
  BY <1>3, <1>4

LEMMA PlacesOf ==
  ASSUME NEW n, NEW l \in Seq(LinksAt(n)), Sorted(l), NEW f
  PROVE  LinkOf(l, f) = {i \in 1 .. Len(l) : l[i].flow = f}
<1>1. LinksTo(l, f.dst) = {i \in 1 .. Len(l) : l[i].flow.dst = f.dst}
  BY PlacesTo
<1>. QED
  BY <1>1 DEF LinkOf

(* Places of a sorted list, picked: sorted again.                          *)
SameFlows(a, l, I) == \A i \in I : a[i].flow = l[i].flow
LEMMA PickSorted ==
  ASSUME NEW n, NEW l \in Seq(LinksAt(n)), Sorted(l), NEW p, NEW a, NEW I,
         I \subseteq 1 .. Len(l), Picks(p, a, I), SameFlows(a, l, I)
  PROVE  Sorted(p) /\ Len(p) = Cardinality(I)
<1>1. ASSUME NEW k \in 1 .. Len(p), NEW m \in 1 .. Len(p), k < m
      PROVE  p[k].flow.dst <= p[m].flow.dst /\ p[k].flow # p[m].flow
  <2>1. PICK i \in I, j \in I : i < j /\ p[k] = a[i] /\ p[m] = a[j]
    BY <1>1 DEF Picks
  <2>2. i \in 1 .. Len(l) /\ j \in 1 .. Len(l)
    OBVIOUS
  <2>. QED
    BY <2>1, <2>2 DEF Sorted, SameFlows
<1>. QED
  BY <1>1 DEF Sorted, Picks

Inserted(n, l, k, p) ==
  /\ p \in Seq(LinksAt(n)) /\ Sorted(p) /\ Len(p) = Len(l) + 1
  /\ \A i \in 1 .. Len(l) : \E j \in 1 .. Len(p) : p[j] = l[i]
  /\ \E j \in 1 .. Len(p) : p[j] = k
  /\ \A j \in 1 .. Len(p) : p[j] = k \/ \E i \in 1 .. Len(l) : p[j] = l[i]

LEMMA InsertIs ==
  ASSUME NEW n, NEW l \in Seq(LinksAt(n)), Sorted(l), NEW k \in LinksAt(n),
         \A i \in 1 .. Len(l) : l[i].flow # k.flow
  PROVE  Inserted(n, l, k, InsertLink(l, k))
<1>. DEFINE less == {i \in 1 .. Len(l) : \A j \in 1 .. i : l[j].flow.dst < k.flow.dst}
            c == Cardinality(less)
            front == SubSeq(l, 1, c)
            back == SubSeq(l, c + 1, Len(l))
            p == front \o <<k>> \o back
<1>1. /\ Len(l) \in Nat
      /\ \A i \in 1 .. Len(l) : l[i] \in LinksAt(n) /\ l[i].flow.dst \in Nat
      /\ k.flow.dst \in Nat
  BY ListIs, LinkIs
<1>2. \A i \in less : \A j \in 1 .. i : j \in less
  <2>1. SUFFICES ASSUME NEW i \in less, NEW j \in 1 .. i PROVE j \in less
    OBVIOUS
  <2>2. i \in 1 .. Len(l) /\ \A m \in 1 .. i : l[m].flow.dst < k.flow.dst
    OBVIOUS
  <2>3. j \in 1 .. Len(l) /\ \A m \in 1 .. j : m \in 1 .. i
    BY <1>1, <2>2
  <2>. QED
    BY <2>2, <2>3
<1>3. c \in 0 .. Len(l) /\ less = 1 .. c
  <2>1. less \subseteq 1 .. Len(l)
    OBVIOUS
  <2>. HIDE DEF less
  <2>. QED
    BY <1>1, <1>2, <2>1, InitialPlaces
<1>4. \A i \in 1 .. c : l[i].flow.dst < k.flow.dst
  <2>1. ASSUME NEW i \in 1 .. c PROVE l[i].flow.dst < k.flow.dst
    <3>1. i \in less /\ i \in 1 .. i
      BY <1>3
    <3>. QED
      BY <3>1
  <2>. QED
    BY <2>1
<1>5. \A i \in c + 1 .. Len(l) : k.flow.dst <= l[i].flow.dst
  <2>1. SUFFICES ASSUME NEW i \in c + 1 .. Len(l) PROVE k.flow.dst <= l[i].flow.dst
    OBVIOUS
  <2>2. i \in 1 .. Len(l) /\ i \notin 1 .. c
    BY <1>1, <1>3
  <2>3. PICK j \in 1 .. i : ~ (l[j].flow.dst < k.flow.dst)
    BY <1>3, <2>2
  <2>4. j \in 1 .. Len(l) /\ (j < i \/ j = i)
    BY <1>1, <2>2
  <2>. QED
    BY <1>1, <2>2, <2>3, <2>4 DEF Sorted
<1>6. p = InsertLink(l, k)
  BY DEF InsertLink
<1>. HIDE DEF less, c
<1>7. /\ front \in Seq(LinksAt(n)) /\ Len(front) = c
      /\ \A i \in 1 .. c : front[i] = l[i]
  <2>1. c \in Int /\ c <= Len(l) /\ 1 \in Int /\ \A i \in 1 .. c : i \in 1 .. Len(l)
    BY <1>1, <1>3
  <2>2. /\ front \in Seq(LinksAt(n))
        /\ Len(front) = IF 1 <= c THEN c - 1 + 1 ELSE 0
        /\ \A i \in 1 .. c - 1 + 1 : front[i] = l[1 + i - 1]
    BY <1>1, <2>1, SubSeqProperties
  <2>. QED
    BY <1>1, <1>3, <2>1, <2>2
<1>8. /\ back \in Seq(LinksAt(n)) /\ Len(back) = Len(l) - c
      /\ \A i \in 1 .. Len(l) - c : back[i] = l[c + i]
  <2>1. /\ c + 1 \in Int /\ Len(l) \in Int /\ 1 <= c + 1
        /\ \A i \in c + 1 .. Len(l) : i \in 1 .. Len(l)
    BY <1>1, <1>3
  <2>2. /\ back \in Seq(LinksAt(n))
        /\ Len(back) = IF c + 1 <= Len(l) THEN Len(l) - (c + 1) + 1 ELSE 0
        /\ \A i \in 1 .. Len(l) - (c + 1) + 1 : back[i] = l[(c + 1) + i - 1]
    BY <1>1, <2>1, SubSeqProperties
  <2>3. \A i \in 1 .. Len(l) - c : (c + 1) + i - 1 = c + i
    BY <1>1, <1>3
  <2>4. Len(l) - (c + 1) + 1 = Len(l) - c
    BY <1>1, <1>3
  <2>5. Len(back) = Len(l) - c
    <3>1. CASE c + 1 <= Len(l)
      BY <2>2, <2>4, <3>1
    <3>2. CASE ~ (c + 1 <= Len(l))
      <4>1. Len(l) - c = 0
        BY <1>1, <1>3, <3>2
      <4>. QED
        BY <2>2, <3>2, <4>1
    <3>. QED
      BY <3>1, <3>2
  <2>6. \A i \in 1 .. Len(l) - c : back[i] = l[(c + 1) + i - 1]
    BY <2>2, <2>4
  <2>. QED
    BY <2>2, <2>3, <2>5, <2>6
<1>. HIDE DEF front, back
<1>9. <<k>> \in Seq(LinksAt(n)) /\ Len(<<k>>) = 1 /\ <<k>>[1] = k
  OBVIOUS
<1>. DEFINE fk == front \o <<k>>
<1>10. /\ fk \in Seq(LinksAt(n)) /\ Len(fk) = c + 1 /\ fk[c + 1] = k
       /\ \A i \in 1 .. c : fk[i] = l[i]
  <2>1. 1 \in 1 .. Len(<<k>>)
    BY <1>9
  <2>2. /\ fk \in Seq(LinksAt(n)) /\ Len(fk) = Len(front) + Len(<<k>>)
        /\ \A i \in 1 .. Len(front) : fk[i] = front[i]
        /\ \A i \in 1 .. Len(<<k>>) : fk[Len(front) + i] = <<k>>[i]
    BY <1>7, <1>9, ConcatIs
  <2>. QED
    BY <1>7, <1>9, <2>1, <2>2
<1>. HIDE DEF fk
<1>11. /\ p \in Seq(LinksAt(n)) /\ Len(p) = Len(l) + 1
       /\ \A i \in 1 .. c + 1 : p[i] = fk[i]
       /\ \A i \in 1 .. Len(l) - c : p[c + 1 + i] = back[i]
  <2>1. p = fk \o back
    BY DEF fk
  <2>2. /\ fk \o back \in Seq(LinksAt(n)) /\ Len(fk \o back) = Len(fk) + Len(back)
        /\ \A i \in 1 .. Len(fk) : (fk \o back)[i] = fk[i]
        /\ \A i \in 1 .. Len(back) : (fk \o back)[Len(fk) + i] = back[i]
    <3>1. fk \in Seq(LinksAt(n)) /\ back \in Seq(LinksAt(n))
      BY <1>8, <1>10
    <3>. QED
      BY <3>1, ConcatIs
  <2>3. (c + 1) + (Len(l) - c) = Len(l) + 1
    BY <1>1, <1>3
  <2>. HIDE DEF p
  <2>. QED
    BY <1>8, <1>10, <2>1, <2>2, <2>3
<1>. HIDE DEF p
<1>12. /\ \A i \in 1 .. c : p[i] = l[i]
       /\ p[c + 1] = k
       /\ \A i \in c + 1 .. Len(l) : p[i + 1] = l[i]
  <2>1. ASSUME NEW i \in c + 1 .. Len(l) PROVE p[i + 1] = l[i]
    <3>1. i - c \in 1 .. Len(l) - c /\ c + 1 + (i - c) = i + 1 /\ c + (i - c) = i
      BY <1>1, <1>3
    <3>. QED
      BY <1>8, <1>11, <3>1
  <2>2. c + 1 \in 1 .. c + 1 /\ \A i \in 1 .. c : i \in 1 .. c + 1
    BY <1>3
  <2>. QED
    BY <1>10, <1>11, <2>1, <2>2
<1>13. \A i \in 1 .. Len(l) : \E j \in 1 .. Len(l) + 1 : p[j] = l[i]
  <2>1. SUFFICES ASSUME NEW i \in 1 .. Len(l) PROVE \E j \in 1 .. Len(l) + 1 : p[j] = l[i]
    OBVIOUS
  <2>2. \/ i \in 1 .. c /\ i \in 1 .. Len(l) + 1
        \/ i \in c + 1 .. Len(l) /\ i + 1 \in 1 .. Len(l) + 1
    BY <1>1, <1>3
  <2>. QED
    BY <1>12, <2>2
<1>14. \E j \in 1 .. Len(l) + 1 : p[j] = k
  <2>1. c + 1 \in 1 .. Len(l) + 1
    BY <1>1, <1>3
  <2>. QED
    BY <1>12, <2>1
<1>15. \A j \in 1 .. Len(l) + 1 :
         \/ j = c + 1 /\ p[j] = k
         \/ j \in 1 .. c /\ j \in 1 .. Len(l) /\ p[j] = l[j]
         \/ /\ j - 1 \in c + 1 .. Len(l) /\ j - 1 \in 1 .. Len(l) /\ p[j] = l[j - 1]
  <2>1. SUFFICES ASSUME NEW j \in 1 .. Len(l) + 1
                 PROVE  \/ j = c + 1 /\ p[j] = k
                        \/ j \in 1 .. c /\ j \in 1 .. Len(l) /\ p[j] = l[j]
                        \/ /\ j - 1 \in c + 1 .. Len(l) /\ j - 1 \in 1 .. Len(l)
                           /\ p[j] = l[j - 1]
    OBVIOUS
  <2>2. \/ j = c + 1
        \/ j \in 1 .. c /\ j \in 1 .. Len(l)
        \/ j - 1 \in c + 1 .. Len(l) /\ j - 1 \in 1 .. Len(l) /\ (j - 1) + 1 = j
    BY <1>1, <1>3
  <2>. QED
    BY <1>12, <2>2
<1>16. Sorted(p)
  <2>1. SUFFICES ASSUME NEW i \in 1 .. Len(l) + 1, NEW j \in 1 .. Len(l) + 1, i < j
                 PROVE  p[i].flow.dst <= p[j].flow.dst /\ p[i].flow # p[j].flow
    BY <1>11 DEF Sorted
  <2>2. CASE i = c + 1 /\ p[i] = k
    <3>1. j - 1 \in c + 1 .. Len(l) /\ j - 1 \in 1 .. Len(l) /\ p[j] = l[j - 1]
      BY <1>1, <1>3, <1>15, <2>1, <2>2
    <3>. QED
      BY <1>5, <2>2, <3>1
  <2>3. CASE i \in 1 .. c /\ i \in 1 .. Len(l) /\ p[i] = l[i]
    <3>1. CASE j = c + 1 /\ p[j] = k
      <4>1. l[i].flow.dst < k.flow.dst
        BY <1>4, <2>3
      <4>2. l[i].flow.dst <= k.flow.dst
        BY <1>1, <2>3, <4>1
      <4>. QED
        BY <2>3, <3>1, <4>2
    <3>2. CASE j \in 1 .. c /\ j \in 1 .. Len(l) /\ p[j] = l[j]
      BY <2>1, <2>3, <3>2 DEF Sorted
    <3>3. CASE j - 1 \in c + 1 .. Len(l) /\ j - 1 \in 1 .. Len(l) /\ p[j] = l[j - 1]
      <4>1. i < j - 1
        BY <1>3, <2>3, <3>3
      <4>. QED
        BY <2>3, <3>3, <4>1 DEF Sorted
    <3>. QED
      BY <1>15, <3>1, <3>2, <3>3
  <2>4. CASE i - 1 \in c + 1 .. Len(l) /\ i - 1 \in 1 .. Len(l) /\ p[i] = l[i - 1]
    <3>1. j - 1 \in 1 .. Len(l) /\ p[j] = l[j - 1] /\ i - 1 < j - 1
      BY <1>1, <1>3, <1>15, <2>1, <2>4
    <3>. QED
      BY <2>4, <3>1 DEF Sorted
  <2>. QED
    BY <1>15, <2>2, <2>3, <2>4
<1>17. \A j \in 1 .. Len(l) + 1 : p[j] = k \/ \E i \in 1 .. Len(l) : p[j] = l[i]
  BY <1>15
<1>. QED
  BY <1>6, <1>11, <1>13, <1>14, <1>16, <1>17 DEF Inserted

LEMMA IntervalIs ==
  ASSUME NEW n \in Nat
  PROVE  IsFiniteSet(1 .. n) /\ Cardinality(1 .. n) = n
  BY FS_Interval

LEMMA WithoutIs ==
  ASSUME NEW n, NEW l \in Seq(LinksAt(n)), Sorted(l), NEW I, I \subseteq 1 .. Len(l)
  PROVE  /\ Without(l, I) \in Seq(LinksAt(n)) /\ Sorted(Without(l, I))
         /\ Cardinality(I) \in Nat /\ Len(Without(l, I)) = Len(l) - Cardinality(I)
         /\ \A k \in 1 .. Len(Without(l, I)) :
              \E i \in (1 .. Len(l)) \ I : Without(l, I)[k] = l[i]
         /\ \A i \in (1 .. Len(l)) \ I :
              \E k \in 1 .. Len(Without(l, I)) : Without(l, I)[k] = l[i]
<1>. DEFINE J == (1 .. Len(l)) \ I
            p == Picked(l, J)
<1>1. Len(l) \in Nat /\ \A i \in 1 .. Len(l) : l[i] \in LinksAt(n)
  BY ListIs
<1>2. J \subseteq 1 .. Len(l) /\ \A i \in J : l[i] \in LinksAt(n)
  BY <1>1
<1>3. IsFiniteSet(1 .. Len(l)) /\ Cardinality(1 .. Len(l)) = Len(l)
  BY <1>1, IntervalIs
<1>4. Cardinality(I) \in Nat
  BY <1>3, FS_Subset, FS_CardinalityType
<1>5. Cardinality(J) = Len(l) - Cardinality(I)
  <2>. DEFINE all == 1 .. Len(l)
  <2>1. all \cap I = I /\ IsFiniteSet(all) /\ Cardinality(all) = Len(l) /\ J = all \ I
    BY <1>3
  <2>. HIDE DEF all, J
  <2>2. Cardinality(all \ I) = Cardinality(all) - Cardinality(all \cap I)
    BY <2>1, FS_Difference
  <2>. QED
    BY <2>1, <2>2
<1>6. p = Without(l, I)
  BY DEF Without
<1>. HIDE DEF J
<1>7. p \in Seq(LinksAt(n)) /\ Picks(p, l, J)
  BY <1>1, <1>2, PickedAre
<1>8. Sorted(p) /\ Len(p) = Cardinality(J)
  <2>1. SameFlows(l, l, J)
    BY DEF SameFlows
  <2>. QED
    BY <1>2, <1>7, <2>1, PickSorted
<1>. HIDE DEF p
<1>9. /\ \A k \in 1 .. Len(p) : \E i \in J : p[k] = l[i]
      /\ \A i \in J : \E k \in 1 .. Len(p) : p[k] = l[i]
  BY <1>7 DEF Picks
<1>. QED
  BY <1>4, <1>5, <1>6, <1>7, <1>8, <1>9 DEF J

Alike(a, b) == a.flow = b.flow /\ a.heard = b.heard
Flushed(n, l, due, r) ==
  /\ r.list \in Seq(LinksAt(n)) /\ Sorted(r.list) /\ Len(r.list) <= Len(l)
  /\ r.ok \in BOOLEAN /\ r.due \subseteq due
  /\ \A k \in 1 .. Len(r.list) : \E i \in 1 .. Len(l) : Alike(r.list[k], l[i])
  /\ due = {} => /\ r.ok
                 /\ \A i \in 1 .. Len(l) : \E k \in 1 .. Len(r.list) :
                      r.list[k].flow = l[i].flow

LEMMA FlushIs ==
  ASSUME NEW n, NEW l \in Seq(LinksAt(n)), Sorted(l), NEW due
  PROVE  Flushed(n, l, due, FlushBrkList(l, due))
<1>. DEFINE places == 1 .. Len(l)
            Step(i) == IF l[i].flow \notin due THEN i + 1
                       ELSE IF l[i].state = "ACTIVE" THEN i + 3 ELSE i + 2
            seen == {i \in places : \A C \in SUBSET places :
                       (1 \in C /\ \A j \in C : Step(j) \in C \/ Step(j) > Len(l))
                         => i \in C}
            past == {i \in seen : l[i].flow \in due}
            marked == {i \in past : l[i].state = "ACTIVE"}
            gone == {i \in places : i \in past \ marked \/ i - 1 \in marked}
            after == [i \in places |-> IF i \in marked
                                       THEN [l[i] EXCEPT !.state = "INVALID"] ELSE l[i]]
            p == Picked(after, places \ gone)
            ok == \A i \in past : Step(i) <= Len(l) + 1
            left == due \ {l[i].flow : i \in marked}
<1>1. FlushBrkList(l, due) = [list |-> p, ok |-> ok, due |-> left]
  BY DEF FlushBrkList
<1>2. ok \in BOOLEAN /\ left \subseteq due
  OBVIOUS
<1>3. due = {} => past = {} /\ marked = {}
  OBVIOUS
<1>. HIDE DEF seen, past
<1>4. due = {} => gone = {} /\ ok
  BY <1>3
<1>. HIDE DEF marked, ok, left
<1>5. Len(l) \in Nat /\ \A i \in places : l[i] \in LinksAt(n)
  BY ListIs
<1>6. ASSUME NEW i \in places
      PROVE  after[i] \in LinksAt(n) /\ Alike(after[i], l[i])
  <2>1. l[i] \in LinksAt(n)
    BY <1>5
  <2>2. CASE i \in marked
    <3>1. after[i] = [l[i] EXCEPT !.state = "INVALID"]
      BY <2>2
    <3>. QED
      BY <2>1, <3>1 DEF LinksAt, Links, Alike
  <2>3. CASE i \notin marked
    BY <2>1, <2>3 DEF Alike
  <2>. QED
    BY <2>2, <2>3
<1>. HIDE DEF after
<1>. DEFINE I == places \ gone
<1>7. I \subseteq 1 .. Len(l) /\ \A i \in I : after[i] \in LinksAt(n)
  BY <1>6
<1>8. due = {} => \A i \in places : i \in I
  BY <1>4
<1>9. IsFiniteSet(1 .. Len(l)) /\ Cardinality(1 .. Len(l)) = Len(l)
  BY <1>5, IntervalIs
<1>10. p = Picked(after, I)
  OBVIOUS
<1>. HIDE DEF I, gone
<1>11. Cardinality(I) <= Len(l)
  BY <1>7, <1>9, FS_Subset
<1>12. p \in Seq(LinksAt(n)) /\ Picks(p, after, I)
  BY <1>5, <1>7, <1>10, PickedAre
<1>13. \A i \in I : after[i].flow = l[i].flow /\ Alike(after[i], l[i])
  BY <1>6, <1>7 DEF Alike
<1>14. Sorted(p) /\ Len(p) = Cardinality(I)
  <2>1. SameFlows(after, l, I)
    BY <1>13 DEF SameFlows
  <2>2. I \subseteq 1 .. Len(l) /\ Picks(p, after, I)
    BY <1>7, <1>12
  <2>. HIDE DEF p
  <2>. QED
    BY <2>1, <2>2, PickSorted
<1>. HIDE DEF p
<1>15. /\ \A k \in 1 .. Len(p) : \E i \in I : p[k] = after[i]
       /\ \A i \in I : \E k \in 1 .. Len(p) : p[k] = after[i]
  BY <1>12 DEF Picks
<1>16. \A k \in 1 .. Len(p) : \E i \in 1 .. Len(l) : Alike(p[k], l[i])
  <2>1. SUFFICES ASSUME NEW k \in 1 .. Len(p)
                 PROVE  \E i \in 1 .. Len(l) : Alike(p[k], l[i])
    OBVIOUS
  <2>2. PICK i \in I : p[k] = after[i]
    BY <1>15
  <2>. QED
    BY <1>7, <1>13, <2>2
<1>17. due = {} => \A i \in 1 .. Len(l) : \E k \in 1 .. Len(p) : p[k].flow = l[i].flow
  <2>1. SUFFICES ASSUME due = {}, NEW i \in 1 .. Len(l)
                 PROVE  \E k \in 1 .. Len(p) : p[k].flow = l[i].flow
    OBVIOUS
  <2>2. i \in I
    BY <1>8, <2>1
  <2>3. PICK k \in 1 .. Len(p) : p[k] = after[i]
    BY <1>15, <2>2
  <2>. QED
    BY <1>13, <2>2, <2>3
<1>. DEFINE r == FlushBrkList(l, due)
<1>18. r.list = p /\ r.ok = ok /\ r.due = left
  BY <1>1
<1>. HIDE DEF r
<1>19. /\ p \in Seq(LinksAt(n)) /\ Sorted(p) /\ Len(p) <= Len(l)
       /\ due = {} => ok
  BY <1>4, <1>11, <1>12, <1>14
<1>20. Flushed(n, l, due, r)
  BY <1>2, <1>16, <1>17, <1>18, <1>19, Zenon DEF Flushed
<1>. QED
  BY <1>20 DEF r
-----------------------------------------------------------------------------
(* Noting breaks.                                                          *)

Messages == [kind : {"rerr", "rcvp", "rrdp"}, flow : Flow]
Packets(n) ==
  {p \in [to : Node, message : Messages] :
     /\ On(n, p.message.flow) /\ n # p.message.flow.src
     /\ p.to = LastHop(n, p.message.flow)}

LEMMA PacketIs ==
  ASSUME NEW f \in Flow, NEW n, On(n, f), n # f.src, NEW kind \in {"rerr", "rcvp", "rrdp"}
  PROVE  /\ Packet(n, kind, f) \in Packets(n)
         /\ Packet(n, kind, f).message = Message(kind, f)
         /\ Packet(n, kind, f).to = LastHop(n, f)
  BY LastHopIs DEF Packet, Packets, Message, Messages

\* What n has done when it noted the breaks of some of F, starting from list l.
Noted(n, l, F, heard, over, r) ==
  /\ r.list \in Seq(LinksAt(n)) /\ Sorted(r.list)
  /\ r.ok \in BOOLEAN /\ r.new \in Nat /\ Len(r.list) <= Len(l) + r.new
  /\ r.ms \in Seq(Packets(n))
  /\ \A i \in 1 .. Len(r.list) : r.list[i].heard =>
       (heard /\ r.list[i].flow \in F) \/ \E j \in 1 .. Len(l) : Alike(r.list[i], l[j])
  /\ over = {} =>
       /\ r.due = {} /\ r.ok
       /\ \A j \in 1 .. Len(l) : \E i \in 1 .. Len(r.list) : r.list[i].flow = l[j].flow
       /\ \A i \in 1 .. Len(r.ms) :
            /\ r.ms[i].message.kind = "rerr"
            /\ \E k \in 1 .. Len(r.list) : r.list[k].flow = r.ms[i].message.flow

LEMMA NoteStep ==
  ASSUME NEW n, NEW l \in Seq(LinksAt(n)), NEW F, NEW heard \in BOOLEAN, NEW over, NEW r,
         Noted(n, l, F, heard, over, r),
         NEW f \in Flow, f \in F, On(n, f), heard => NextHop(n, f) \in Node
  PROVE  Noted(n, l, F, heard, over, Note(n, r, f, heard))
<1>. DEFINE k == Link(n, f, heard)
            known == LinkOf(r.list, f) # {}
            noted == IF known THEN r.list ELSE InsertLink(r.list, k)
            new == IF known THEN r.new ELSE r.new + 1
            due == r.due \ {f}
            left == FlushBrkList(noted, due)
            ms == IF n = f.src THEN r.ms ELSE Append(r.ms, Packet(n, "rerr", f))
            s == [list |-> left.list, ok |-> left.ok, due |-> left.due, new |-> new, ms |-> ms]
<1>1. Note(n, r, f, heard) = IF ~ r.ok THEN r ELSE s
  BY DEF Note
<1>2. /\ r.list \in Seq(LinksAt(n)) /\ Sorted(r.list)
      /\ r.ok \in BOOLEAN /\ r.new \in Nat /\ Len(r.list) <= Len(l) + r.new
      /\ r.ms \in Seq(Packets(n))
  BY DEF Noted
<1>3. /\ Len(r.list) \in Nat /\ Len(l) \in Nat /\ Len(r.ms) \in Nat
      /\ \A i \in 1 .. Len(r.list) : r.list[i] \in LinksAt(n)
  BY <1>2, ListIs, SeqPlaces
<1>4. k \in LinksAt(n) /\ k.flow = f /\ k.heard = heard
  <2>1. k \in LinksAt(n)
    BY NewLink
  <2>. QED
    BY <2>1 DEF Link
<1>5. LinkOf(r.list, f) = {i \in 1 .. Len(r.list) : r.list[i].flow = f}
  BY <1>2, PlacesOf
<1>. HIDE DEF k, s
<1>6. /\ noted \in Seq(LinksAt(n)) /\ Sorted(noted) /\ Len(noted) <= Len(l) + new
      /\ new \in Nat /\ Len(noted) \in Nat
      /\ \A i \in 1 .. Len(r.list) : \E j \in 1 .. Len(noted) : noted[j].flow = r.list[i].flow
      /\ \E j \in 1 .. Len(noted) : noted[j].flow = f
      /\ \A j \in 1 .. Len(noted) :
           noted[j] = k \/ \E i \in 1 .. Len(r.list) : noted[j] = r.list[i]
  <2>1. CASE known
    <3>1. noted = r.list /\ new = r.new
      BY <2>1
    <3>2. \E j \in 1 .. Len(r.list) : r.list[j].flow = f
      BY <1>5, <2>1
    <3>. QED
      BY <1>2, <1>3, <3>1, <3>2
  <2>2. CASE ~ known
    <3>1. noted = InsertLink(r.list, k) /\ new = r.new + 1
      BY <2>2
    <3>2. \A i \in 1 .. Len(r.list) : r.list[i].flow # k.flow
      BY <1>4, <1>5, <2>2
    <3>. HIDE DEF noted, new
    <3>6. Inserted(n, r.list, k, noted)
      <4>1. r.list \in Seq(LinksAt(n)) /\ Sorted(r.list) /\ k \in LinksAt(n)
        BY <1>2, <1>4
      <4>. QED
        BY <3>1, <3>2, <4>1, InsertIs
    <3>3. /\ noted \in Seq(LinksAt(n)) /\ Sorted(noted)
          /\ Len(noted) = Len(r.list) + 1
          /\ \A i \in 1 .. Len(r.list) : \E j \in 1 .. Len(noted) : noted[j] = r.list[i]
          /\ \E j \in 1 .. Len(noted) : noted[j] = k
          /\ \A j \in 1 .. Len(noted) :
               noted[j] = k \/ \E i \in 1 .. Len(r.list) : noted[j] = r.list[i]
      BY <3>6 DEF Inserted
    <3>4. Len(noted) <= Len(l) + new /\ new \in Nat /\ Len(noted) \in Nat
      BY <1>2, <1>3, <3>1, <3>3
    <3>5. \A i \in 1 .. Len(r.list) : \E j \in 1 .. Len(noted) : noted[j].flow = r.list[i].flow
      BY <3>3
    <3>. QED
      BY <1>4, <3>3, <3>4, <3>5
  <2>. QED
    BY <2>1, <2>2
<1>. HIDE DEF noted, new
<1>7. Flushed(n, noted, due, left)
  BY <1>6, FlushIs
<1>. HIDE DEF left
<1>8. /\ left.list \in Seq(LinksAt(n)) /\ Sorted(left.list) /\ Len(left.list) <= Len(noted)
      /\ left.ok \in BOOLEAN /\ left.due \subseteq due
      /\ \A i \in 1 .. Len(left.list) : \E j \in 1 .. Len(noted) : Alike(left.list[i], noted[j])
      /\ due = {} => /\ left.ok
                     /\ \A i \in 1 .. Len(noted) : \E j \in 1 .. Len(left.list) :
                          left.list[j].flow = noted[i].flow
  BY <1>7 DEF Flushed
<1>9. Len(left.list) \in Nat /\ Len(left.list) <= Len(l) + new
  <2>1. Len(left.list) \in Nat
    BY <1>8, SeqPlaces
  <2>. QED
    BY <1>3, <1>6, <1>8, <2>1
<1>10. \A i \in 1 .. Len(left.list) : left.list[i].heard =>
         \/ heard /\ left.list[i].flow \in F
         \/ \E j \in 1 .. Len(l) : Alike(left.list[i], l[j])
  <2>1. SUFFICES ASSUME NEW i \in 1 .. Len(left.list), left.list[i].heard
                 PROVE  \/ heard /\ left.list[i].flow \in F
                        \/ \E j \in 1 .. Len(l) : Alike(left.list[i], l[j])
    OBVIOUS
  <2>2. PICK j \in 1 .. Len(noted) : Alike(left.list[i], noted[j])
    BY <1>8
  <2>3. CASE noted[j] = k
    BY <1>4, <2>1, <2>2, <2>3 DEF Alike
  <2>4. CASE \E m \in 1 .. Len(r.list) : noted[j] = r.list[m]
    <3>1. PICK m \in 1 .. Len(r.list) : noted[j] = r.list[m]
      BY <2>4
    <3>2. r.list[m].heard /\ Alike(left.list[i], r.list[m])
      BY <2>1, <2>2, <3>1 DEF Alike
    <3>3. \/ heard /\ r.list[m].flow \in F
          \/ \E x \in 1 .. Len(l) : Alike(r.list[m], l[x])
      BY <3>2 DEF Noted
    <3>. QED
      BY <3>2, <3>3 DEF Alike
  <2>. QED
    BY <1>6, <2>3, <2>4
<1>11. ms \in Seq(Packets(n))
       /\ \A i \in 1 .. Len(ms) :
            \/ i \in 1 .. Len(r.ms) /\ ms[i] = r.ms[i]
            \/ ms[i].message = Message("rerr", f)
  <2>1. CASE n = f.src
    BY <1>2, <2>1
  <2>2. CASE n # f.src
    <3>. DEFINE p == Packet(n, "rerr", f)
    <3>1. p \in Packets(n) /\ p.message = Message("rerr", f)
      BY <2>2, PacketIs
    <3>2. ms = Append(r.ms, p)
      BY <2>2
    <3>. HIDE DEF p, ms
    <3>3. /\ ms \in Seq(Packets(n)) /\ Len(ms) = Len(r.ms) + 1
          /\ \A i \in 1 .. Len(r.ms) : ms[i] = r.ms[i]
          /\ ms[Len(r.ms) + 1] = p
      BY <1>2, <3>1, <3>2, AppendProperties
    <3>4. \A i \in 1 .. Len(ms) : i \in 1 .. Len(r.ms) \/ i = Len(r.ms) + 1
      BY <1>3, <3>3
    <3>. QED
      BY <3>1, <3>3, <3>4
  <2>. QED
    BY <2>1, <2>2
<1>. HIDE DEF ms
<1>12. ASSUME over = {}
       PROVE  /\ left.due = {} /\ left.ok
              /\ \A j \in 1 .. Len(l) : \E i \in 1 .. Len(left.list) :
                   left.list[i].flow = l[j].flow
              /\ \A i \in 1 .. Len(ms) :
                   /\ ms[i].message.kind = "rerr"
                   /\ \E j \in 1 .. Len(left.list) : left.list[j].flow = ms[i].message.flow
  <2>1. /\ r.due = {}
        /\ \A j \in 1 .. Len(l) : \E i \in 1 .. Len(r.list) : r.list[i].flow = l[j].flow
        /\ \A i \in 1 .. Len(r.ms) :
             /\ r.ms[i].message.kind = "rerr"
             /\ \E j \in 1 .. Len(r.list) : r.list[j].flow = r.ms[i].message.flow
    BY <1>12 DEF Noted
  <2>2. due = {} /\ left.due = {}
    BY <1>8, <2>1
  <2>. HIDE DEF due
  <2>3. /\ left.ok
        /\ \A i \in 1 .. Len(noted) : \E j \in 1 .. Len(left.list) :
             left.list[j].flow = noted[i].flow
    BY <1>8, <2>2
  <2>4. \A i \in 1 .. Len(r.list) : \E j \in 1 .. Len(left.list) :
          left.list[j].flow = r.list[i].flow
    BY <1>6, <2>3
  <2>5. \E j \in 1 .. Len(left.list) : left.list[j].flow = f
    <3>1. PICK i \in 1 .. Len(noted) : noted[i].flow = f
      BY <1>6
    <3>. QED
      BY <2>3, <3>1
  <2>6. ASSUME NEW i \in 1 .. Len(ms)
        PROVE  /\ ms[i].message.kind = "rerr"
               /\ \E j \in 1 .. Len(left.list) : left.list[j].flow = ms[i].message.flow
    <3>1. CASE i \in 1 .. Len(r.ms) /\ ms[i] = r.ms[i]
      <4>1. /\ r.ms[i].message.kind = "rerr"
            /\ \E j \in 1 .. Len(r.list) : r.list[j].flow = r.ms[i].message.flow
        BY <2>1, <3>1
      <4>2. PICK j \in 1 .. Len(r.list) : r.list[j].flow = r.ms[i].message.flow
        BY <4>1
      <4>3. PICK x \in 1 .. Len(left.list) : left.list[x].flow = r.list[j].flow
        BY <2>4, <4>2
      <4>. QED
        BY <3>1, <4>1, <4>2, <4>3
    <3>2. CASE ms[i].message = Message("rerr", f)
      <4>1. ms[i].message.kind = "rerr" /\ ms[i].message.flow = f
        BY <3>2 DEF Message
      <4>. QED
        BY <2>5, <4>1
    <3>. QED
      BY <1>11, <3>1, <3>2
  <2>7. \A j \in 1 .. Len(l) : \E i \in 1 .. Len(left.list) : left.list[i].flow = l[j].flow
    <3>1. SUFFICES ASSUME NEW j \in 1 .. Len(l)
                   PROVE  \E i \in 1 .. Len(left.list) : left.list[i].flow = l[j].flow
      OBVIOUS
    <3>2. PICK i \in 1 .. Len(r.list) : r.list[i].flow = l[j].flow
      BY <2>1
    <3>3. PICK x \in 1 .. Len(left.list) : left.list[x].flow = r.list[i].flow
      BY <2>4
    <3>. QED
      BY <3>2, <3>3
  <2>. QED
    BY <2>2, <2>3, <2>6, <2>7
<1>13. /\ s.list = left.list /\ s.ok = left.ok /\ s.due = left.due
       /\ s.new = new /\ s.ms = ms
  BY DEF s
<1>14. Noted(n, l, F, heard, over, s)
  <2>1. /\ s.list \in Seq(LinksAt(n)) /\ Sorted(s.list)
        /\ s.ok \in BOOLEAN /\ s.new \in Nat /\ Len(s.list) <= Len(l) + s.new
        /\ s.ms \in Seq(Packets(n))
    BY <1>6, <1>8, <1>9, <1>11, <1>13
  <2>2. \A i \in 1 .. Len(s.list) : s.list[i].heard =>
          (heard /\ s.list[i].flow \in F) \/ \E j \in 1 .. Len(l) : Alike(s.list[i], l[j])
    BY <1>10, <1>13
  <2>3. over = {} =>
          /\ s.due = {} /\ s.ok
          /\ \A j \in 1 .. Len(l) : \E i \in 1 .. Len(s.list) : s.list[i].flow = l[j].flow
          /\ \A i \in 1 .. Len(s.ms) :
               /\ s.ms[i].message.kind = "rerr"
               /\ \E j \in 1 .. Len(s.list) : s.list[j].flow = s.ms[i].message.flow
    BY <1>12, <1>13
  <2>. QED
    BY <2>1, <2>2, <2>3 DEF Noted
<1>. QED
  BY <1>1, <1>14

\* What NoteAll computes one after the other.
Start(n, over) == [list |-> brk[n], ok |-> TRUE, due |-> over, new |-> 0, ms |-> <<>>]
After(n, q, heard, over, k, g) ==
  g = [i \in 0 .. k |-> IF i = 0 THEN Start(n, over) ELSE Note(n, g[i - 1], q[i], heard)]

LEMMA AfterExists ==
  ASSUME NEW n, NEW q, NEW heard, NEW over, NEW k \in Nat
  PROVE  \E g : After(n, q, heard, over, k, g)
<1>. DEFINE T == {m \in Nat : ~ \E g : After(n, q, heard, over, m, g)}
<1>1. SUFFICES ASSUME T # {} PROVE FALSE
  OBVIOUS
<1>2. T \subseteq Nat /\ \A m \in T : ~ \E g : After(n, q, heard, over, m, g)
  OBVIOUS
<1>3. \A m \in Nat : m \notin T => \E g : After(n, q, heard, over, m, g)
  OBVIOUS
<1>. HIDE DEF T
<1>4. PICK m \in T : \A j \in T : m <= j
  BY <1>1, <1>2, LeastNat
<1>5. m \in Nat
  BY <1>2
<1>6. CASE m = 0
  <2>. DEFINE g == [i \in 0 .. m |-> Start(n, over)]
  <2>1. \A i \in 0 .. m : i = 0
    BY <1>6
  <2>2. g = [i \in 0 .. m |-> IF i = 0 THEN Start(n, over) ELSE Note(n, g[i - 1], q[i], heard)]
    BY <2>1
  <2>3. After(n, q, heard, over, m, g)
    BY <2>2 DEF After
  <2>. QED
    BY <1>2, <2>3
<1>7. CASE m # 0
  <2>1. m - 1 \in Nat /\ ~ (m <= m - 1)
    BY <1>5, <1>7
  <2>2. PICK g : After(n, q, heard, over, m - 1, g)
    BY <1>3, <1>4, <2>1
  <2>3. \A i \in 0 .. m - 1 :
          g[i] = IF i = 0 THEN Start(n, over) ELSE Note(n, g[i - 1], q[i], heard)
    BY <2>2 DEF After
  <2>. DEFINE h == [i \in 0 .. m |-> IF i = m THEN Note(n, g[m - 1], q[m], heard) ELSE g[i]]
  <2>4. ASSUME NEW i \in 0 .. m
        PROVE  h[i] = IF i = 0 THEN Start(n, over) ELSE Note(n, h[i - 1], q[i], heard)
    <3>1. CASE i = m
      <4>1. m - 1 \in 0 .. m /\ m - 1 # m /\ m # 0
        BY <1>5, <1>7
      <4>2. h[m - 1] = g[m - 1] /\ h[m] = Note(n, g[m - 1], q[m], heard)
        BY <3>1, <4>1
      <4>. HIDE DEF h
      <4>. QED
        BY <3>1, <4>1, <4>2
    <3>2. CASE i # m
      <4>1. i \in 0 .. m - 1 /\ (i # 0 => i - 1 \in 0 .. m /\ i - 1 # m)
        BY <1>5, <3>2
      <4>2. h[i] = g[i] /\ (i # 0 => h[i - 1] = g[i - 1])
        BY <3>2, <4>1
      <4>. HIDE DEF h
      <4>. QED
        BY <2>3, <4>1, <4>2
    <3>. QED
      BY <3>1, <3>2
  <2>5. h = [i \in 0 .. m |-> h[i]]
    OBVIOUS
  <2>. HIDE DEF h
  <2>6. h = [i \in 0 .. m |-> IF i = 0 THEN Start(n, over) ELSE Note(n, h[i - 1], q[i], heard)]
    BY <2>4, <2>5
  <2>7. After(n, q, heard, over, m, h)
    BY <2>6 DEF After
  <2>. QED
    BY <1>2, <2>7
<1>. QED
  BY <1>6, <1>7

LEMMA NoteAllIs ==
  ASSUME NEW n, NEW l \in Seq(LinksAt(n)), l = brk[n], Sorted(l),
         NEW q, Len(q) \in Nat, NEW heard \in BOOLEAN, NEW over,
         \A i \in 1 .. Len(q) :
           q[i] \in Flow /\ On(n, q[i]) /\ (heard => NextHop(n, q[i]) \in Node)
  PROVE  Noted(n, l, {q[i] : i \in 1 .. Len(q)}, heard, over, NoteAll(n, q, heard, over))
<1>. DEFINE F == {q[i] : i \in 1 .. Len(q)}
            after == CHOOSE g : After(n, q, heard, over, Len(q), g)
<1>1. After(n, q, heard, over, Len(q), after)
  BY AfterExists
<1>2. NoteAll(n, q, heard, over) = after[Len(q)]
  BY DEF NoteAll, After, Start
<1>3. \A i \in 1 .. Len(q) : q[i] \in F
  OBVIOUS
<1>. HIDE DEF after, F
<1>4. \A i \in 0 .. Len(q) :
        after[i] = IF i = 0 THEN Start(n, over) ELSE Note(n, after[i - 1], q[i], heard)
  BY <1>1 DEF After
<1>5. Noted(n, l, F, heard, over, Start(n, over))
  <2>. DEFINE s == Start(n, over)
  <2>1. s.list = l /\ s.ok = TRUE /\ s.due = over /\ s.new = 0 /\ s.ms = <<>>
    BY DEF Start
  <2>. HIDE DEF s
  <2>2. Len(l) \in Nat /\ Len(l) <= Len(l) + 0
    <3>1. Len(l) \in Nat
      BY ListIs
    <3>. QED
      BY <3>1
  <2>3. <<>> \in Seq(Packets(n)) /\ Len(<<>>) = 0 /\ \A i \in 1 .. 0 : FALSE
    OBVIOUS
  <2>4. \A i \in 1 .. Len(l) : Alike(l[i], l[i])
    BY DEF Alike
  <2>5. s.list \in Seq(LinksAt(n)) /\ Sorted(s.list)
    BY <2>1
  <2>9. s.ok \in BOOLEAN /\ s.new \in Nat
    <3>1. s.ok \in BOOLEAN
      BY <2>1, Zenon
    <3>2. s.new \in Nat
      BY <2>1
    <3>. QED
      BY <3>1, <3>2
  <2>10. Len(s.list) <= Len(l) + s.new
    BY <2>1, <2>2
  <2>6. s.ms \in Seq(Packets(n)) /\ \A i \in 1 .. Len(s.ms) : FALSE
    BY <2>1, <2>3
  <2>7. \A i \in 1 .. Len(s.list) : \E j \in 1 .. Len(l) : Alike(s.list[i], l[j])
    BY <2>1, <2>4
  <2>8. \A j \in 1 .. Len(l) : \E i \in 1 .. Len(s.list) : s.list[i].flow = l[j].flow
    BY <2>1
  <2>11. Noted(n, l, F, heard, over, s)
    BY <2>1, <2>5, <2>6, <2>7, <2>8, <2>9, <2>10 DEF Noted
  <2>. QED
    BY <2>11 DEF s
<1>. DEFINE T == {i \in 0 .. Len(q) : ~ Noted(n, l, F, heard, over, after[i])}
<1>6. T = {}
  <2>1. SUFFICES ASSUME T # {} PROVE FALSE
    OBVIOUS
  <2>2. T \subseteq Nat /\ \A i \in T : i \in 0 .. Len(q) /\ ~ Noted(n, l, F, heard, over, after[i])
    OBVIOUS
  <2>3. \A i \in 0 .. Len(q) : i \notin T => Noted(n, l, F, heard, over, after[i])
    OBVIOUS
  <2>. HIDE DEF T
  <2>4. PICK m \in T : \A j \in T : m <= j
    BY <2>1, <2>2, LeastNat
  <2>5. m \in 0 .. Len(q)
    BY <2>2
  <2>6. CASE m = 0
    BY <1>4, <1>5, <2>2, <2>5, <2>6
  <2>7. CASE m # 0
    <3>1. m - 1 \in 0 .. Len(q) /\ ~ (m <= m - 1) /\ m \in 1 .. Len(q)
      BY <2>5, <2>7
    <3>2. Noted(n, l, F, heard, over, after[m - 1])
      BY <2>3, <2>4, <3>1
    <3>. DEFINE r == after[m - 1]
                f == q[m]
    <3>3. f \in Flow /\ f \in F /\ On(n, f) /\ (heard => NextHop(n, f) \in Node)
      BY <1>3, <3>1
    <3>4. Noted(n, l, F, heard, over, r)
      BY <3>2
    <3>5. after[m] = Note(n, r, f, heard)
      BY <1>4, <2>5, <2>7
    <3>. HIDE DEF r, f
    <3>6. Noted(n, l, F, heard, over, Note(n, r, f, heard))
      BY <3>3, <3>4, NoteStep
    <3>. QED
      BY <2>2, <3>5, <3>6
  <2>. QED
    BY <2>6, <2>7
<1>7. Len(q) \in 0 .. Len(q)
  OBVIOUS
<1>8. Noted(n, l, F, heard, over, after[Len(q)])
  BY <1>6, <1>7
<1>. QED
  BY <1>2, <1>8 DEF F
-----------------------------------------------------------------------------
(* Sending.                                                                *)

MessagesAt(n) == {m \in Messages : On(n, m.flow) /\ NextHop(n, m.flow) \in Node}

LEMMA PacketTo ==
  ASSUME NEW n \in Node, NEW p \in Packets(n)
  PROVE  /\ p.message.flow \in Flow /\ p.to \in Node /\ p.message \in MessagesAt(p.to)
         /\ NextHop(p.to, p.message.flow) = n
<1>1. /\ p.message \in Messages /\ p.message.flow \in Flow
      /\ On(n, p.message.flow) /\ n # p.message.flow.src
      /\ p.to = LastHop(n, p.message.flow)
  BY DEF Packets, Messages
<1>2. /\ p.to \in Node /\ On(p.to, p.message.flow)
      /\ NextHop(p.to, p.message.flow) = n
  BY <1>1, LastHopIs
<1>. QED
  BY <1>1, <1>2 DEF MessagesAt

\* Messages ms of n turn the queues t into t2; n itself is left with rest.
Before(n, t, rest, m) == IF m = n THEN rest ELSE t[m]
Passes(n, t, rest, ms, t2) ==
  \A m \in Node :
    /\ t2[m] \in Seq(MessagesAt(m)) /\ Len(t2[m]) \in Nat
    /\ Len(Before(n, t, rest, m)) <= Len(t2[m])
    /\ \A i \in 1 .. Len(Before(n, t, rest, m)) : t2[m][i] = Before(n, t, rest, m)[i]
    /\ \A j \in 1 .. Len(t2[m]) : j > Len(Before(n, t, rest, m)) =>
         \E i \in 1 .. Len(ms) : ms[i].to = m /\ t2[m][j] = ms[i].message
Arrive(n, t, rest, ms, t2) ==
  \A i \in 1 .. Len(ms) : \E j \in 1 .. Len(t2[ms[i].to]) :
    j > Len(Before(n, t, rest, ms[i].to)) /\ t2[ms[i].to][j] = ms[i].message

QueuesOK(t) == t = [n \in Node |-> t[n]] /\ \A n \in Node : t[n] \in Seq(MessagesAt(n))

Sent(n, t, rest, ms, got, gone) ==
  [m \in Node |-> (IF m = n THEN rest ELSE t[m])
                     \o Picked([i \in 1 .. Len(ms) |-> ms[i].message],
                               {i \in got : ms[i].to = m /\ m \notin gone})]

LEMMA Sending ==
  ASSUME NEW n \in Node, NEW t, QueuesOK(t), NEW rest \in Seq(MessagesAt(n)),
         NEW ms \in Seq(Packets(n)), NEW got \in SUBSET (1 .. Len(ms)), NEW gone,
         NEW t2, t2 = Sent(n, t, rest, ms, got, gone)
  PROVE  /\ Passes(n, t, rest, ms, t2) /\ QueuesOK(t2)
         /\ gone = {} /\ got = 1 .. Len(ms) => Arrive(n, t, rest, ms, t2)
<1>. DEFINE content == [i \in 1 .. Len(ms) |-> ms[i].message]
            I(m) == {i \in got : ms[i].to = m /\ m \notin gone}
            more(m) == Picked(content, I(m))
<1>1. Len(ms) \in Nat /\ \A i \in 1 .. Len(ms) : ms[i] \in Packets(n)
  BY SeqPlaces
<1>2. \A m : /\ I(m) \subseteq 1 .. Len(ms)
             /\ \A i \in I(m) : ms[i].to = m /\ content[i] = ms[i].message
  OBVIOUS
<1>3. gone = {} /\ got = 1 .. Len(ms) => \A i \in 1 .. Len(ms) : i \in I(ms[i].to)
  OBVIOUS
<1>4. \A m \in Node : t2[m] = Before(n, t, rest, m) \o more(m)
  BY DEF Before, Sent
<1>5. t2 = [m \in Node |-> t2[m]]
  BY DEF Sent
<1>. HIDE DEF I, content
<1>6. ASSUME NEW m \in Node
      PROVE  \A i \in I(m) : content[i] \in MessagesAt(m)
  BY <1>1, <1>2, PacketTo
<1>7. ASSUME NEW m \in Node
      PROVE  more(m) \in Seq(MessagesAt(m)) /\ Picks(more(m), content, I(m))
  BY <1>1, <1>2, <1>6, PickedAre
<1>. HIDE DEF more
<1>8. ASSUME NEW m \in Node
      PROVE  /\ Before(n, t, rest, m) \in Seq(MessagesAt(m))
             /\ Len(Before(n, t, rest, m)) \in Nat
  <2>1. Before(n, t, rest, m) \in Seq(MessagesAt(m))
    BY DEF Before, QueuesOK
  <2>. QED
    BY <2>1, SeqPlaces
<1>9. ASSUME NEW m \in Node
      PROVE  /\ t2[m] \in Seq(MessagesAt(m)) /\ Len(more(m)) \in Nat
             /\ Len(t2[m]) = Len(Before(n, t, rest, m)) + Len(more(m))
             /\ \A i \in 1 .. Len(Before(n, t, rest, m)) : t2[m][i] = Before(n, t, rest, m)[i]
             /\ \A i \in 1 .. Len(more(m)) :
                  t2[m][Len(Before(n, t, rest, m)) + i] = more(m)[i]
  <2>. DEFINE a == Before(n, t, rest, m)
              b == more(m)
  <2>1. a \in Seq(MessagesAt(m)) /\ b \in Seq(MessagesAt(m)) /\ t2[m] = a \o b
    BY <1>4, <1>7, <1>8
  <2>. HIDE DEF a, b
  <2>2. /\ a \o b \in Seq(MessagesAt(m)) /\ Len(a \o b) = Len(a) + Len(b)
        /\ \A i \in 1 .. Len(a) : (a \o b)[i] = a[i]
        /\ \A i \in 1 .. Len(b) : (a \o b)[Len(a) + i] = b[i]
    BY <2>1, ConcatIs
  <2>3. Len(b) \in Nat
    BY <2>1, SeqPlaces
  <2>. QED
    BY <2>1, <2>2, <2>3 DEF a, b
<1>10. ASSUME NEW m \in Node
       PROVE  /\ Len(t2[m]) \in Nat /\ Len(Before(n, t, rest, m)) <= Len(t2[m])
              /\ \A j \in 1 .. Len(t2[m]) : j > Len(Before(n, t, rest, m)) =>
                   \E i \in 1 .. Len(ms) : ms[i].to = m /\ t2[m][j] = ms[i].message
  <2>. DEFINE a == Len(Before(n, t, rest, m))
              b == Len(more(m))
  <2>3. a \in Nat
    BY <1>8
  <2>4. b \in Nat /\ Len(t2[m]) = a + b
    BY <1>9
  <2>5. \A i \in 1 .. b : t2[m][a + i] = more(m)[i]
    BY <1>9
  <2>. HIDE DEF a, b
  <2>1. Len(t2[m]) \in Nat /\ a <= Len(t2[m])
    BY <2>3, <2>4
  <2>2. ASSUME NEW j \in 1 .. Len(t2[m]), j > a
        PROVE  \E i \in 1 .. Len(ms) : ms[i].to = m /\ t2[m][j] = ms[i].message
    <3>. DEFINE k == j - a
    <3>1. k \in 1 .. b /\ a + k = j
      BY <2>2, <2>3, <2>4
    <3>. HIDE DEF k
    <3>2. t2[m][j] = more(m)[k]
      BY <2>5, <3>1
    <3>3. PICK i \in I(m) : more(m)[k] = content[i]
      BY <1>7, <3>1 DEF Picks, b
    <3>. QED
      BY <1>2, <3>2, <3>3
  <2>. QED
    BY <2>1, <2>2 DEF a
<1>11. Passes(n, t, rest, ms, t2)
  BY <1>9, <1>10 DEF Passes
<1>12. ASSUME gone = {}, got = 1 .. Len(ms)
       PROVE  Arrive(n, t, rest, ms, t2)
  <2>1. SUFFICES ASSUME NEW i \in 1 .. Len(ms)
                 PROVE  \E j \in 1 .. Len(t2[ms[i].to]) :
                          /\ j > Len(Before(n, t, rest, ms[i].to))
                          /\ t2[ms[i].to][j] = ms[i].message
    BY DEF Arrive
  <2>2. ms[i].to \in Node
    BY <1>1, PacketTo
  <2>3. PICK m \in Node : m = ms[i].to
    BY <2>2
  <2>4. i \in I(m)
    BY <1>3, <1>12, <2>3
  <2>5. PICK k \in 1 .. Len(more(m)) : more(m)[k] = content[i]
    BY <1>7, <2>4 DEF Picks
  <2>6. /\ Len(Before(n, t, rest, m)) + k \in 1 .. Len(t2[m])
        /\ Len(Before(n, t, rest, m)) + k > Len(Before(n, t, rest, m))
    <3>. DEFINE a == Len(Before(n, t, rest, m))
                b == Len(more(m))
    <3>1. a \in Nat /\ k \in 1 .. b
      BY <1>8
    <3>2. b \in Nat /\ Len(t2[m]) = a + b
      BY <1>9
    <3>. HIDE DEF a, b
    <3>3. a + k \in 1 .. Len(t2[m]) /\ a + k > a
      BY <3>1, <3>2
    <3>. QED
      BY <3>3 DEF a
  <2>7. t2[m][Len(Before(n, t, rest, m)) + k] = ms[i].message
    BY <1>2, <1>9, <2>4, <2>5
  <2>. QED
    BY <2>3, <2>6, <2>7
<1>13. QueuesOK(t2)
  BY <1>5, <1>9 DEF QueuesOK
<1>. QED
  BY <1>11, <1>12, <1>13

LEMMA SendIs ==
  ASSUME NEW n \in Node, QueuesOK(tasks), NEW rest \in Seq(MessagesAt(n)),
         NEW ms \in Seq(Packets(n)), NEW flawless, Send(n, rest, ms, flawless)
  PROVE  /\ Passes(n, tasks, rest, ms, tasks') /\ QueuesOK(tasks)'
         /\ clean' \in BOOLEAN
         /\ clean' => clean /\ flawless
         /\ clean' /\ down = {} => Arrive(n, tasks, rest, ms, tasks')
<1>1. PICK got \in SUBSET (1 .. Len(ms)) :
        /\ tasks' = Sent(n, tasks, rest, ms, got, down)
        /\ clean' = (clean /\ flawless /\ got = 1 .. Len(ms))
  BY DEF Send, Sent
<1>2. /\ Passes(n, tasks, rest, ms, tasks') /\ QueuesOK(tasks')
      /\ down = {} /\ got = 1 .. Len(ms) => Arrive(n, tasks, rest, ms, tasks')
  BY <1>1, Sending
<1>3. QueuesOK(tasks)'
  BY <1>2 DEF QueuesOK
<1>4. clean' \in BOOLEAN /\ (clean' => clean /\ flawless /\ got = 1 .. Len(ms))
  BY <1>1
<1>. QED
  BY <1>2, <1>3, <1>4
-----------------------------------------------------------------------------
(* How many links there are.                                               *)

Counted(b) == Cardinality(UNION {{n} \X (1 .. Len(b[n])) : n \in Node})

LEMMA CountAt ==
  ASSUME NEW b, \A m \in Node : Len(b[m]) \in Nat, NEW n \in Node
  PROVE  LET others == UNION {{m} \X (1 .. Len(b[m])) : m \in Node \ {n}} IN
         /\ Cardinality(others) \in Nat
         /\ Counted(b) = Cardinality(others) + Len(b[n])
<1>. DEFINE At(m) == {m} \X (1 .. Len(b[m]))
            Sets == {At(m) : m \in Node \ {n}}
            others == UNION Sets
            at == [m \in Node \ {n} |-> At(m)]
<1>1. IsFiniteSet(Node) /\ IsFiniteSet(Node \ {n})
  BY RecoveryAssumption, FS_Subset DEF RecoveryAssumption
<1>2. ASSUME NEW m \in Node
      PROVE  IsFiniteSet(At(m)) /\ Cardinality(At(m)) = Len(b[m])
  <2>1. /\ IsFiniteSet({m}) /\ Cardinality({m}) = 1
        /\ IsFiniteSet(1 .. Len(b[m])) /\ Cardinality(1 .. Len(b[m])) = Len(b[m])
    BY FS_Singleton, IntervalIs
  <2>2. IsFiniteSet(At(m)) /\ Cardinality(At(m)) = 1 * Len(b[m])
    <3>1. \A S, T : IsFiniteSet(S) /\ IsFiniteSet(T) =>
            /\ IsFiniteSet(S \X T)
            /\ Cardinality(S \X T) = Cardinality(S) * Cardinality(T)
      BY FS_Product
    <3>. DEFINE S == {m}
                T == 1 .. Len(b[m])
    <3>2. IsFiniteSet(S \X T) /\ Cardinality(S \X T) = Cardinality(S) * Cardinality(T)
      <4>1. IsFiniteSet(S) /\ IsFiniteSet(T)
        BY <2>1
      <4>. HIDE DEF S, T
      <4>. QED
        BY <3>1, <4>1
    <3>. QED
      BY <2>1, <3>2
  <2>3. Len(b[m]) \in Nat
    OBVIOUS
  <2>. QED
    BY <2>2, <2>3
<1>3. \A m, x \in Node : m # x => At(m) \cap At(x) = {}
  OBVIOUS
<1>4. UNION {{m} \X (1 .. Len(b[m])) : m \in Node} = others \cup At(n)
  <2>1. {At(m) : m \in Node} = Sets \cup {At(n)}
    OBVIOUS
  <2>. QED
    BY <2>1
<1>5. others \cap At(n) = {}
  <2>1. \A x \in others : \E m \in Node \ {n} : x \in At(m)
    OBVIOUS
  <2>2. \A m \in Node \ {n} : At(m) \cap At(n) = {}
    BY <1>3
  <2>. HIDE DEF At, others
  <2>. QED
    BY <2>1, <2>2
<1>6. \A T \in Sets : IsFiniteSet(T)
  BY <1>2
<1>. HIDE DEF At
<1>7. at \in Surjection(Node \ {n}, Sets)
  BY DEF Surjection
<1>8. IsFiniteSet(Sets)
  BY <1>1, <1>7, FS_Surjection
<1>. HIDE DEF Sets
<1>9. IsFiniteSet(others) /\ Cardinality(others) \in Nat
  BY <1>6, <1>8, FS_UNION, FS_CardinalityType
<1>. HIDE DEF others
<1>10. Cardinality(others \cup At(n)) = Cardinality(others) + Cardinality(At(n)) - Cardinality({})
  BY <1>2, <1>5, <1>9, FS_Union
<1>11. Cardinality({}) = 0 /\ Cardinality(At(n)) = Len(b[n]) /\ Len(b[n]) \in Nat
  BY <1>2, FS_EmptySet
<1>12. Counted(b) = Cardinality(others) + Len(b[n])
  <2>1. Counted(b) = Cardinality(others \cup At(n))
    BY <1>4 DEF Counted
  <2>. QED
    BY <1>9, <1>10, <1>11, <2>1
<1>. QED
  BY <1>9, <1>12 DEF others, Sets, At

LEMMA CountStep ==
  ASSUME NEW b, NEW c, \A m \in Node : Len(b[m]) \in Nat /\ Len(c[m]) \in Nat,
         NEW n \in Node, \A m \in Node : m # n => c[m] = b[m]
  PROVE  /\ Counted(b) \in Nat /\ Counted(c) \in Nat
         /\ Counted(c) = Counted(b) + Len(c[n]) - Len(b[n])
<1>. DEFINE Sets(x) == {{m} \X (1 .. Len(x[m])) : m \in Node \ {n}}
            k(x) == Cardinality(UNION Sets(x))
<1>1. k(b) \in Nat /\ Counted(b) = k(b) + Len(b[n])
  BY CountAt
<1>2. Counted(c) = k(c) + Len(c[n])
  BY CountAt
<1>3. Sets(c) = Sets(b)
  OBVIOUS
<1>4. k(c) = k(b)
  BY <1>3
<1>. DEFINE r == k(b)
            x == Len(b[n])
            y == Len(c[n])
<1>5. x \in Nat /\ y \in Nat
  OBVIOUS
<1>6. r \in Nat /\ Counted(b) = r + x /\ Counted(c) = r + y
  BY <1>1, <1>2, <1>4
<1>. HIDE DEF r, x, y
<1>7. Counted(b) \in Nat /\ Counted(c) \in Nat /\ Counted(c) = Counted(b) + y - x
  BY <1>5, <1>6
<1>. QED
  BY <1>7 DEF x, y
-----------------------------------------------------------------------------
(* What a link or RERR rests on: a link of the next hop, or a RCVP that is *)
(* to be handled later.                                                    *)

HasLink(b, m, f) == \E i \in 1 .. Len(b[m]) : b[m][i].flow = f
Behind(t, m, f, k) == \E j \in 1 .. Len(t[m]) : j > k /\ t[m][j] = Message("rcvp", f)
Backing(b, t, m, f, k) == HasLink(b, NextHop(m, f), f) \/ Behind(t, m, f, k)

AllBacked(b, t) ==
  \A m \in Node :
    /\ \A i \in 1 .. Len(b[m]) : b[m][i].heard => Backing(b, t, m, b[m][i].flow, 0)
    /\ \A i \in 1 .. Len(t[m]) : t[m][i].kind = "rerr" => Backing(b, t, m, t[m][i].flow, i)

\* A step of n: it takes the first d messages of its queue, sends ms, and
\* changes no other list; a link it gives up it says so to the last hop.
Takes(l, d, rest) ==
  Len(l) \in Nat /\ Len(rest) = Len(l) - d /\ \A j \in 1 .. Len(rest) : rest[j] = l[j + d]
Speaks(n, b, c, ms) ==
  \A f \in Flow : HasLink(b, n, f) /\ n # f.src =>
    HasLink(c, n, f) \/ \E i \in 1 .. Len(ms) : ms[i].message = Message("rcvp", f)
Apart(n, b, c) == \A m \in Node : m # n => c[m] = b[m]
Moves(n, b, t, c, u, d, rest, ms) ==
  /\ Takes(t[n], d, rest) /\ Passes(n, t, rest, ms, u) /\ Arrive(n, t, rest, ms, u)
  /\ Apart(n, b, c) /\ Speaks(n, b, c, ms)

\* What a message or a link of m for f rests on, past place k of its queue, is
\* there after the step past place e.
Carries(n, b, t, c, u, d) ==
  \A m \in Node : \A f \in Flow : \A k \in Nat : \A e \in Nat :
    /\ On(m, f) /\ NextHop(m, f) \in Node /\ k <= Len(t[m])
    /\ k = IF m = n THEN e + d ELSE e
    /\ Backing(b, t, m, f, k)
    => Backing(c, u, m, f, e)

LEMMA BackingKept ==
  ASSUME NEW n \in Node, NEW b, NEW t, NEW c, NEW u, NEW d \in {0, 1}, NEW rest,
         NEW ms \in Seq(Packets(n)), Moves(n, b, t, c, u, d, rest, ms),
         \A m \in Node : Len(t[m]) \in Nat
  PROVE  Carries(n, b, t, c, u, d)
<1>. SUFFICES ASSUME NEW m \in Node, NEW f \in Flow, NEW k \in Nat, NEW e \in Nat,
                     On(m, f), NextHop(m, f) \in Node, k <= Len(t[m]),
                     k = IF m = n THEN e + d ELSE e, Backing(b, t, m, f, k)
              PROVE  Backing(c, u, m, f, e)
  BY DEF Carries
<1>. DEFINE x == NextHop(m, f)
<1>0. /\ Takes(t[n], d, rest) /\ Passes(n, t, rest, ms, u) /\ Arrive(n, t, rest, ms, u)
      /\ Apart(n, b, c) /\ Speaks(n, b, c, ms)
  BY DEF Moves
<1>1. x \in Node /\ x # f.src /\ LastHop(x, f) = m /\ On(x, f)
  BY NextHopIs
<1>2. Len(Before(n, t, rest, m)) \in Nat /\ e <= Len(Before(n, t, rest, m))
  BY <1>0 DEF Before, Takes
<1>3. CASE HasLink(b, x, f)
  <2>1. CASE x # n
    <3>1. c[x] = b[x]
      BY <1>0, <1>1, <2>1 DEF Apart
    <3>. QED
      BY <1>3, <3>1 DEF HasLink, Backing
  <2>2. CASE x = n /\ HasLink(c, n, f)
    BY <2>2 DEF Backing
  <2>3. CASE x = n /\ \E i \in 1 .. Len(ms) : ms[i].message = Message("rcvp", f)
    <3>1. PICK i \in 1 .. Len(ms) : ms[i].message = Message("rcvp", f)
      BY <2>3
    <3>2. ms[i] \in Packets(n)
      BY SeqPlaces
    <3>3. ms[i].to = LastHop(n, ms[i].message.flow) /\ ms[i].message.flow = f
      BY <3>1, <3>2 DEF Packets, Message
    <3>4. ms[i].to = m
      BY <1>1, <2>3, <3>3
    <3>5. PICK j \in 1 .. Len(u[m]) :
            j > Len(Before(n, t, rest, m)) /\ u[m][j] = Message("rcvp", f)
      BY <1>0, <3>1, <3>4 DEF Arrive
    <3>6. j > e
      <4>1. Len(u[m]) \in Nat
        BY <1>0 DEF Passes
      <4>. QED
        BY <1>2, <3>5, <4>1
    <3>. QED
      BY <3>5, <3>6 DEF Backing, Behind
  <2>. QED
    BY <1>0, <1>1, <1>3, <2>1, <2>2, <2>3 DEF Speaks
<1>4. CASE Behind(t, m, f, k)
  <2>1. PICK j \in 1 .. Len(t[m]) : j > k /\ t[m][j] = Message("rcvp", f)
    BY <1>4 DEF Behind
  <2>. DEFINE h == IF m = n THEN j - d ELSE j
  <2>2. h \in 1 .. Len(Before(n, t, rest, m)) /\ h > e
    BY <1>0, <2>1 DEF Before, Takes
  <2>3. Before(n, t, rest, m)[h] = t[m][j]
    <3>1. CASE m = n
      <4>1. j - d \in 1 .. Len(rest) /\ (j - d) + d = j
        BY <2>1, <2>2, <3>1 DEF Before
      <4>2. rest[j - d] = t[n][j]
        BY <1>0, <4>1 DEF Takes
      <4>. QED
        BY <3>1, <4>2 DEF Before
    <3>2. CASE m # n
      BY <3>2 DEF Before
    <3>. QED
      BY <3>1, <3>2
  <2>. HIDE DEF h
  <2>4. /\ Len(u[m]) \in Nat /\ Len(Before(n, t, rest, m)) <= Len(u[m])
        /\ u[m][h] = Before(n, t, rest, m)[h]
    BY <1>0, <2>2 DEF Passes
  <2>5. h \in 1 .. Len(u[m])
    BY <1>2, <2>2, <2>4
  <2>6. u[m][h] = Message("rcvp", f)
    BY <2>1, <2>3, <2>4
  <2>. QED
    BY <2>2, <2>5, <2>6 DEF Backing, Behind
<1>. QED
  BY <1>3, <1>4 DEF Backing

ListsOK(b) ==
  b = [n \in Node |-> b[n]] /\ \A n \in Node : b[n] \in Seq(LinksAt(n)) /\ Sorted(b[n])

\* What n still knows was its own before, or rests on what is behind the
\* message it took; the RERRs it sends are about links it has.
Holds(n, b, t, c, d) ==
  \A i \in 1 .. Len(c[n]) : c[n][i].heard =>
    \/ /\ \E j \in 1 .. Len(b[n]) : Alike(c[n][i], b[n][j])
       /\ d = 1 => t[n][1] # Message("rcvp", c[n][i].flow)
    \/ Backing(b, t, n, c[n][i].flow, d)
Tells(n, c, ms) ==
  \A i \in 1 .. Len(ms) :
    ms[i].message.kind = "rerr" => HasLink(c, n, ms[i].message.flow)

LEMMA StepBacked ==
  ASSUME NEW n \in Node, NEW b, NEW t, NEW c, NEW u, NEW d \in {0, 1}, NEW rest,
         ListsOK(b), ListsOK(c), QueuesOK(t), AllBacked(b, t),
         rest \in Seq(MessagesAt(n)), NEW ms \in Seq(Packets(n)),
         Moves(n, b, t, c, u, d, rest, ms), Holds(n, b, t, c, d), Tells(n, c, ms)
  PROVE  AllBacked(c, u)
<1>1. ASSUME NEW m \in Node
      PROVE  /\ Len(t[m]) \in Nat
             /\ \A i \in 1 .. Len(t[m]) :
                  /\ t[m][i] \in MessagesAt(m) /\ t[m][i].flow \in Flow
                  /\ On(m, t[m][i].flow) /\ NextHop(m, t[m][i].flow) \in Node
  <2>1. t[m] \in Seq(MessagesAt(m))
    BY DEF QueuesOK
  <2>2. Len(t[m]) \in Nat /\ \A i \in 1 .. Len(t[m]) : t[m][i] \in MessagesAt(m)
    BY <2>1, SeqPlaces
  <2>. QED
    BY <2>2 DEF MessagesAt, Messages
<1>2. Len(rest) \in Nat /\ Len(t[n]) = Len(rest) + d
  <2>1. Len(rest) \in Nat /\ Len(t[n]) \in Nat
    BY <1>1, SeqPlaces
  <2>. QED
    BY <2>1 DEF Takes, Moves
<1>3. Carries(n, b, t, c, u, d)
  BY <1>1, BackingKept
<1>4. ASSUME NEW m \in Node, NEW i \in 1 .. Len(c[m]), c[m][i].heard
      PROVE  Backing(c, u, m, c[m][i].flow, 0)
  <2>. DEFINE f == c[m][i].flow
  <2>1. c[m] \in Seq(LinksAt(m))
    BY DEF ListsOK
  <2>2. c[m][i] \in LinksAt(m)
    BY <2>1, SeqPlaces
  <2>3. f \in Flow /\ On(m, f) /\ NextHop(m, f) \in Node
    BY <1>4, <2>2, LinkIs
  <2>4. CASE m # n
    <3>1. c[m] = b[m]
      BY <2>4 DEF Apart, Moves
    <3>2. Backing(b, t, m, f, 0)
      BY <1>4, <3>1 DEF AllBacked
    <3>3. 0 <= Len(t[m]) /\ 0 \in Nat /\ Len(t[m]) \in Nat
      BY <1>1
    <3>. HIDE DEF f
    <3>4. 0 = IF m = n THEN 0 + d ELSE 0
      BY <2>4
    <3>5. Backing(c, u, m, f, 0)
      BY <2>3, <3>2, <3>3, <3>4, <1>3 DEF Carries
    <3>. QED
      BY <3>5 DEF f
  <2>5. CASE m = n
    <3>1. CASE Backing(b, t, n, f, d)
      <4>1. /\ d \in Nat /\ d <= Len(t[m]) /\ Len(t[m]) \in Nat /\ 0 \in Nat
            /\ d = IF m = n THEN 0 + d ELSE 0
        BY <1>1, <1>2, <2>5
      <4>2. Backing(b, t, m, f, d)
        BY <2>5, <3>1
      <4>. HIDE DEF f
      <4>3. Backing(c, u, m, f, 0)
        BY <2>3, <4>1, <4>2, <1>3 DEF Carries
      <4>. QED
        BY <4>3 DEF f
    <3>2. CASE /\ \E j \in 1 .. Len(b[n]) : Alike(c[n][i], b[n][j])
               /\ d = 1 => t[n][1] # Message("rcvp", f)
      <4>1. PICK j \in 1 .. Len(b[n]) : Alike(c[n][i], b[n][j])
        BY <3>2
      <4>2. Backing(b, t, n, f, 0)
        BY <1>4, <2>5, <4>1 DEF Alike, AllBacked
      <4>3. Backing(b, t, n, f, d)
        <5>1. CASE HasLink(b, NextHop(n, f), f)
          BY <5>1 DEF Backing
        <5>2. CASE Behind(t, n, f, 0)
          <6>1. PICK x \in 1 .. Len(t[n]) : x > 0 /\ t[n][x] = Message("rcvp", f)
            BY <5>2 DEF Behind
          <6>2. x > d
            BY <3>2, <6>1
          <6>. QED
            BY <6>1, <6>2 DEF Backing, Behind
        <5>. QED
          BY <4>2, <5>1, <5>2 DEF Backing
      <4>. QED
        BY <3>1, <4>3
    <3>. QED
      BY <1>4, <2>5, <3>1, <3>2 DEF Holds
  <2>. QED
    BY <2>4, <2>5
<1>5. ASSUME NEW m \in Node, NEW i \in 1 .. Len(u[m]), u[m][i].kind = "rerr"
      PROVE  Backing(c, u, m, u[m][i].flow, i)
  <2>. DEFINE f == u[m][i].flow
              a == Before(n, t, rest, m)
              e == IF m = n THEN d ELSE 0
  <2>1. Len(u[m]) \in Nat
    BY DEF Passes, Moves
  <2>2. Len(a) \in Nat /\ Len(t[m]) \in Nat /\ Len(t[m]) = Len(a) + e
    BY <1>1, <1>2 DEF Before
  <2>3. CASE i <= Len(a)
    <3>1. i \in 1 .. Len(a)
      BY <2>1, <2>2, <2>3
    <3>2. u[m][i] = a[i]
      BY <3>1 DEF Passes, Moves
    <3>3. i + e \in 1 .. Len(t[m]) /\ i + e \in Nat /\ i + e <= Len(t[m])
      BY <2>2, <3>1
    <3>4. a[i] = t[m][i + e]
      <4>1. CASE m = n
        <5>1. i \in 1 .. Len(rest)
          BY <3>1, <4>1 DEF Before
        <5>. QED
          BY <4>1, <5>1 DEF Before, Takes, Moves
      <4>2. CASE m # n
        <5>1. i + 0 = i
          BY <3>1
        <5>. QED
          BY <4>2, <5>1 DEF Before
      <4>. QED
        BY <4>1, <4>2
    <3>5. f \in Flow /\ On(m, f) /\ NextHop(m, f) \in Node /\ t[m][i + e].kind = "rerr"
      BY <1>1, <1>5, <3>2, <3>3, <3>4
    <3>6. Backing(b, t, m, f, i + e)
      BY <3>2, <3>3, <3>4, <3>5 DEF AllBacked
    <3>. DEFINE k == i + e
    <3>7. i \in Nat /\ k = IF m = n THEN i + d ELSE i
      BY <3>1
    <3>8. k \in Nat /\ k <= Len(t[m]) /\ Len(t[m]) \in Nat
      BY <2>2, <3>3
    <3>9. f \in Flow /\ On(m, f) /\ NextHop(m, f) \in Node /\ Backing(b, t, m, f, k)
      BY <3>5, <3>6
    <3>. HIDE DEF f, k
    <3>10. Backing(c, u, m, f, i)
      BY <3>7, <3>8, <3>9, <1>3 DEF Carries
    <3>. QED
      BY <3>10 DEF f
  <2>4. CASE ~ (i <= Len(a))
    <3>1. i > Len(a)
      BY <2>1, <2>2, <2>4
    <3>2. PICK x \in 1 .. Len(ms) : ms[x].to = m /\ u[m][i] = ms[x].message
      BY <3>1 DEF Passes, Moves
    <3>3. ms[x] \in Packets(n)
      BY SeqPlaces
    <3>4. NextHop(m, f) = n
      BY <3>2, <3>3, PacketTo
    <3>5. HasLink(c, n, f)
      BY <1>5, <3>2 DEF Tells
    <3>. QED
      BY <3>4, <3>5 DEF Backing
  <2>. QED
    BY <2>3, <2>4
<1>. QED
  BY <1>4, <1>5 DEF AllBacked
-----------------------------------------------------------------------------
(* The invariant.                                                          *)

Inv ==
  /\ ListsOK(brk) /\ QueuesOK(tasks) /\ credit \in Int /\ clean \in BOOLEAN
  /\ RcvpPaid
  /\ clean => down = {} /\ AllBacked(brk, tasks)

\* n takes the first d messages of its queue and sends ms.
Did(n, d, rest, ms) ==
  /\ Takes(tasks[n], d, rest) /\ rest \in Seq(MessagesAt(n)) /\ ms \in Seq(Packets(n))
  /\ Passes(n, tasks, rest, ms, tasks') /\ QueuesOK(tasks')
  /\ clean' \in BOOLEAN
  /\ clean' => clean /\ (down = {} => Arrive(n, tasks, rest, ms, tasks'))

LEMMA QueueIs ==
  ASSUME QueuesOK(tasks), NEW n \in Node
  PROVE  /\ tasks[n] \in Seq(MessagesAt(n)) /\ Len(tasks[n]) \in Nat
         /\ \A i \in 1 .. Len(tasks[n]) :
              /\ tasks[n][i].flow \in Flow /\ On(n, tasks[n][i].flow)
              /\ NextHop(n, tasks[n][i].flow) \in Node
<1>1. tasks[n] \in Seq(MessagesAt(n))
  BY DEF QueuesOK
<1>2. Len(tasks[n]) \in Nat /\ \A i \in 1 .. Len(tasks[n]) : tasks[n][i] \in MessagesAt(n)
  BY <1>1, SeqPlaces
<1>. QED
  BY <1>1, <1>2 DEF MessagesAt, Messages

LEMMA TakesNone ==
  ASSUME QueuesOK(tasks), NEW n \in Node
  PROVE  Takes(tasks[n], 0, tasks[n]) /\ tasks[n] \in Seq(MessagesAt(n))
<1>1. tasks[n] \in Seq(MessagesAt(n)) /\ Len(tasks[n]) \in Nat
  BY QueueIs
<1>2. Len(tasks[n]) = Len(tasks[n]) - 0 /\ \A j \in 1 .. Len(tasks[n]) : j = j + 0
  BY <1>1
<1>. QED
  BY <1>1, <1>2 DEF Takes

LEMMA TakesOne ==
  ASSUME QueuesOK(tasks), NEW n \in Node, tasks[n] # <<>>
  PROVE  /\ Takes(tasks[n], 1, Tail(tasks[n])) /\ Tail(tasks[n]) \in Seq(MessagesAt(n))
         /\ Head(tasks[n]) = tasks[n][1] /\ 1 \in 1 .. Len(tasks[n])
         /\ Head(tasks[n]).flow \in Flow /\ On(n, Head(tasks[n]).flow)
         /\ NextHop(n, Head(tasks[n]).flow) \in Node
<1>. DEFINE l == tasks[n]
<1>1. /\ l \in Seq(MessagesAt(n)) /\ Len(l) \in Nat
      /\ \A i \in 1 .. Len(l) : /\ l[i].flow \in Flow /\ On(n, l[i].flow)
                                /\ NextHop(n, l[i].flow) \in Node
  BY QueueIs
<1>2. l # <<>>
  OBVIOUS
<1>. HIDE DEF l
<1>3. Len(l) # 0
  BY <1>1, <1>2, EmptySeq
<1>4. 1 \in 1 .. Len(l)
  BY <1>1, <1>3
<1>5. /\ Tail(l) \in Seq(MessagesAt(n)) /\ Len(Tail(l)) = Len(l) - 1
      /\ \A i \in 1 .. Len(Tail(l)) : Tail(l)[i] = l[i + 1]
  BY <1>1, <1>2, HeadTailProperties
<1>6. Head(l) = l[1]
  BY <1>1, <1>2
<1>7. Takes(l, 1, Tail(l))
  BY <1>1, <1>5 DEF Takes
<1>. QED
  BY <1>1, <1>4, <1>5, <1>6, <1>7 DEF l

LEMMA DidSend ==
  ASSUME NEW n \in Node, QueuesOK(tasks), NEW d, NEW rest \in Seq(MessagesAt(n)),
         Takes(tasks[n], d, rest), NEW ms \in Seq(Packets(n)), NEW flawless,
         Send(n, rest, ms, flawless)
  PROVE  Did(n, d, rest, ms) /\ (clean' => flawless)
<1>1. /\ Passes(n, tasks, rest, ms, tasks') /\ QueuesOK(tasks)'
      /\ clean' \in BOOLEAN
      /\ clean' => clean /\ flawless
      /\ clean' /\ down = {} => Arrive(n, tasks, rest, ms, tasks')
  BY SendIs
<1>2. QueuesOK(tasks')
  BY <1>1 DEF QueuesOK
<1>. QED
  BY <1>1, <1>2 DEF Did

LEMMA DidTail ==
  ASSUME NEW n \in Node, QueuesOK(tasks), tasks[n] # <<>>, clean \in BOOLEAN,
         tasks' = [tasks EXCEPT ![n] = Tail(@)], clean' \in BOOLEAN, clean' => clean
  PROVE  Did(n, 1, Tail(tasks[n]), <<>>)
<1>. DEFINE rest == Tail(tasks[n])
<1>1. Takes(tasks[n], 1, rest) /\ rest \in Seq(MessagesAt(n))
  BY TakesOne
<1>. HIDE DEF rest
<1>2. <<>> \in Seq(Packets(n)) /\ Len(<<>>) = 0
  OBVIOUS
<1>3. \A m \in Node : tasks'[m] = Before(n, tasks, rest, m)
  BY DEF QueuesOK, Before, rest
<1>4. tasks' = [m \in Node |-> tasks'[m]]
  BY DEF QueuesOK
<1>5. ASSUME NEW m \in Node
      PROVE  /\ Before(n, tasks, rest, m) \in Seq(MessagesAt(m))
             /\ Len(Before(n, tasks, rest, m)) \in Nat
  <2>1. Before(n, tasks, rest, m) \in Seq(MessagesAt(m))
    BY <1>1 DEF Before, QueuesOK
  <2>. QED
    BY <2>1, SeqPlaces
<1>6. Passes(n, tasks, rest, <<>>, tasks')
  <2>1. ASSUME NEW m \in Node
        PROVE  /\ tasks'[m] \in Seq(MessagesAt(m)) /\ Len(tasks'[m]) \in Nat
               /\ Len(Before(n, tasks, rest, m)) <= Len(tasks'[m])
               /\ \A i \in 1 .. Len(Before(n, tasks, rest, m)) :
                    tasks'[m][i] = Before(n, tasks, rest, m)[i]
               /\ \A j \in 1 .. Len(tasks'[m]) : ~ (j > Len(Before(n, tasks, rest, m)))
    <3>. DEFINE a == Before(n, tasks, rest, m)
    <3>1. tasks'[m] = a /\ a \in Seq(MessagesAt(m)) /\ Len(a) \in Nat
      BY <1>3, <1>5
    <3>. HIDE DEF a
    <3>2. Len(a) <= Len(a) /\ \A j \in 1 .. Len(a) : ~ (j > Len(a))
      BY <3>1
    <3>. QED
      BY <3>1, <3>2 DEF a
  <2>. QED
    BY <2>1 DEF Passes
<1>7. QueuesOK(tasks')
  BY <1>3, <1>4, <1>5 DEF QueuesOK
<1>8. Arrive(n, tasks, rest, <<>>, tasks')
  BY <1>2 DEF Arrive
<1>. QED
  BY <1>1, <1>2, <1>6, <1>7, <1>8 DEF Did, rest

LEMMA ListStep ==
  ASSUME Inv, NEW n \in Node, NEW d \in {0, 1}, NEW rest, NEW ms, Did(n, d, rest, ms),
         NEW l \in Seq(LinksAt(n)), Sorted(l), brk' = [brk EXCEPT ![n] = l],
         credit' \in Int, Len(l) + credit <= Len(brk[n]) + credit', clean' => down' = {},
         clean' => /\ Speaks(n, brk, brk', ms) /\ Holds(n, brk, tasks, brk', d)
                   /\ Tells(n, brk', ms)
  PROVE  Inv'
<1>1. /\ ListsOK(brk) /\ QueuesOK(tasks) /\ credit \in Int
      /\ RcvpPaid /\ (clean => down = {} /\ AllBacked(brk, tasks))
  BY DEF Inv
<1>2. /\ Takes(tasks[n], d, rest) /\ rest \in Seq(MessagesAt(n)) /\ ms \in Seq(Packets(n))
      /\ Passes(n, tasks, rest, ms, tasks') /\ QueuesOK(tasks') /\ clean' \in BOOLEAN
      /\ clean' => clean /\ (down = {} => Arrive(n, tasks, rest, ms, tasks'))
  BY DEF Did
<1>3. /\ brk = [m \in Node |-> brk[m]]
      /\ \A m \in Node : brk[m] \in Seq(LinksAt(m)) /\ Sorted(brk[m])
  BY <1>1 DEF ListsOK
<1>4. /\ brk' = [m \in Node |-> brk'[m]] /\ brk'[n] = l
      /\ \A m \in Node : m # n => brk'[m] = brk[m]
  BY <1>3
<1>5. ListsOK(brk') /\ Apart(n, brk, brk')
  BY <1>3, <1>4 DEF ListsOK, Apart
<1>6. \A m \in Node : Len(brk[m]) \in Nat /\ Len(brk'[m]) \in Nat
  <2>1. \A m \in Node : brk'[m] \in Seq(LinksAt(m))
    BY <1>5 DEF ListsOK
  <2>. QED
    BY <1>3, <2>1, SeqPlaces
<1>7. Counted(brk') <= credit'
  <2>1. /\ Counted(brk) \in Nat /\ Counted(brk') \in Nat
        /\ Counted(brk') = Counted(brk) + Len(brk'[n]) - Len(brk[n])
    BY <1>4, <1>6, CountStep
  <2>2. Counted(brk) <= credit
    BY <1>1 DEF RcvpPaid, Counted
  <2>3. Len(brk[n]) \in Nat /\ Len(l) \in Nat /\ brk'[n] = l
    BY <1>4, <1>6
  <2>. QED
    BY <1>1, <2>1, <2>2, <2>3
<1>8. ASSUME clean'
      PROVE  AllBacked(brk', tasks')
  <2>1. Arrive(n, tasks, rest, ms, tasks') /\ AllBacked(brk, tasks)
    BY <1>1, <1>2, <1>8
  <2>2. Moves(n, brk, tasks, brk', tasks', d, rest, ms)
    BY <1>2, <1>5, <1>8, <2>1 DEF Moves
  <2>3. Holds(n, brk, tasks, brk', d) /\ Tells(n, brk', ms)
    BY <1>8
  <2>. QED
    BY <1>1, <1>2, <1>5, <2>1, <2>2, <2>3, StepBacked
<1>9. RcvpPaid'
  BY <1>7 DEF RcvpPaid, Counted
<1>10. ListsOK(brk)' /\ QueuesOK(tasks)'
  BY <1>2, <1>5 DEF ListsOK, QueuesOK
<1>11. clean' => AllBacked(brk, tasks)'
  BY <1>8 DEF AllBacked, Backing, HasLink, Behind
<1>. QED
  BY <1>2, <1>9, <1>10, <1>11 DEF Inv
-----------------------------------------------------------------------------
(* The actions.                                                            *)

LEMMA InvIs ==
  ASSUME Inv, NEW n \in Node
  PROVE  /\ QueuesOK(tasks) /\ brk[n] \in Seq(LinksAt(n)) /\ Sorted(brk[n])
         /\ Len(brk[n]) \in Nat /\ credit \in Int /\ clean \in BOOLEAN
         /\ clean => down = {} /\ AllBacked(brk, tasks)
<1>1. QueuesOK(tasks) /\ brk[n] \in Seq(LinksAt(n)) /\ Sorted(brk[n])
  BY DEF Inv, ListsOK
<1>2. Len(brk[n]) \in Nat
  BY <1>1, SeqPlaces
<1>. QED
  BY <1>1, <1>2 DEF Inv

LEMMA GenRcvpStep ==
  ASSUME Inv, NEW n \in Node, NEW d, NEW extra \in Seq(Packets(n)),
         \A i \in 1 .. Len(extra) : extra[i].message.kind # "rerr",
         GenRcvp(n, d, extra), UNCHANGED down
  PROVE  Inv'
<1>. DEFINE l == brk[n]
            to == LinksTo(l, d)
            away == {i \in to : l[i].flow.src # n}
            rcvp == [i \in 1 .. Len(l) |->
                       [to |-> l[i].last, message |-> Message("rcvp", l[i].flow)]]
            sent == Picked(rcvp, away)
            ms == sent \o extra
            c == Without(l, to)
<1>1. /\ brk' = [brk EXCEPT ![n] = c]
      /\ credit' = credit - Cardinality(away)
      /\ Send(n, tasks[n], ms, TRUE)
  BY DEF GenRcvp
<1>2. /\ QueuesOK(tasks) /\ l \in Seq(LinksAt(n)) /\ Sorted(l)
      /\ Len(l) \in Nat /\ credit \in Int
      /\ clean => down = {}
  BY InvIs
<1>3. \A i \in 1 .. Len(l) : l[i] \in LinksAt(n)
  BY <1>2, SeqPlaces
<1>. HIDE DEF l
<1>4. to = {i \in 1 .. Len(l) : l[i].flow.dst = d}
  BY <1>2, PlacesTo
<1>. HIDE DEF to
<1>5. to \subseteq 1 .. Len(l) /\ away \subseteq to /\ away \subseteq 1 .. Len(l)
  BY <1>4
<1>6. /\ c \in Seq(LinksAt(n)) /\ Sorted(c)
      /\ Cardinality(to) \in Nat /\ Len(c) = Len(l) - Cardinality(to)
      /\ \A k \in 1 .. Len(c) : \E i \in (1 .. Len(l)) \ to : c[k] = l[i]
      /\ \A i \in (1 .. Len(l)) \ to : \E k \in 1 .. Len(c) : c[k] = l[i]
  BY <1>2, <1>5, WithoutIs
<1>7. Cardinality(away) \in Nat /\ Cardinality(away) <= Cardinality(to)
  <2>1. IsFiniteSet(to)
    BY <1>2, <1>5, IntervalIs, FS_Subset
  <2>. QED
    BY <1>5, <2>1, FS_Subset, FS_CardinalityType
<1>8. ASSUME NEW i \in away
      PROVE  /\ rcvp[i] \in Packets(n) /\ rcvp[i].message = Message("rcvp", l[i].flow)
  <2>1. i \in 1 .. Len(l) /\ l[i].flow.src # n
    BY <1>5
  <2>2. /\ l[i].flow \in Flow /\ On(n, l[i].flow) /\ l[i].last = LastHop(n, l[i].flow)
    BY <1>3, <2>1, LinkIs
  <2>3. rcvp[i] = Packet(n, "rcvp", l[i].flow)
    BY <2>1, <2>2 DEF Packet
  <2>4. /\ Packet(n, "rcvp", l[i].flow) \in Packets(n)
        /\ Packet(n, "rcvp", l[i].flow).message = Message("rcvp", l[i].flow)
    BY <2>1, <2>2, PacketIs
  <2>. QED
    BY <2>3, <2>4
<1>. HIDE DEF rcvp
<1>9. \A i \in 1 .. Len(l) : l[i].flow.dst = d /\ l[i].flow.src # n => i \in away
  BY <1>4
<1>. HIDE DEF away
<1>10. sent \in Seq(Packets(n)) /\ Picks(sent, rcvp, away)
  BY <1>2, <1>5, <1>8, PickedAre
<1>. HIDE DEF sent, c
<1>11. /\ ms \in Seq(Packets(n)) /\ Len(ms) = Len(sent) + Len(extra)
       /\ \A i \in 1 .. Len(sent) : ms[i] = sent[i]
       /\ \A i \in 1 .. Len(extra) : ms[Len(sent) + i] = extra[i]
       /\ Len(sent) \in Nat /\ Len(extra) \in Nat
  BY <1>10, ConcatIs, SeqPlaces
<1>. HIDE DEF ms
<1>12. \A i \in away : \E k \in 1 .. Len(ms) : ms[k].message = Message("rcvp", l[i].flow)
  <2>1. SUFFICES ASSUME NEW i \in away
                 PROVE  \E k \in 1 .. Len(ms) : ms[k].message = Message("rcvp", l[i].flow)
    OBVIOUS
  <2>2. PICK k \in 1 .. Len(sent) : sent[k] = rcvp[i]
    BY <1>10 DEF Picks
  <2>3. k \in 1 .. Len(ms)
    BY <1>11, <2>2
  <2>. QED
    BY <1>8, <1>11, <2>2, <2>3
<1>13. \A i \in 1 .. Len(ms) : ms[i].message.kind # "rerr"
  <2>1. SUFFICES ASSUME NEW i \in 1 .. Len(ms) PROVE ms[i].message.kind # "rerr"
    OBVIOUS
  <2>2. CASE i \in 1 .. Len(sent)
    <3>1. PICK j \in away : sent[i] = rcvp[j]
      BY <1>10, <2>2 DEF Picks
    <3>2. ms[i].message = Message("rcvp", l[j].flow)
      BY <1>8, <1>11, <2>2, <3>1
    <3>. QED
      BY <3>2 DEF Message
  <2>3. CASE i \notin 1 .. Len(sent)
    <3>1. i - Len(sent) \in 1 .. Len(extra) /\ Len(sent) + (i - Len(sent)) = i
      BY <1>11, <2>3
    <3>. QED
      BY <1>11, <3>1
  <2>. QED
    BY <2>2, <2>3
<1>14. Did(n, 0, tasks[n], ms)
  <2>1. Takes(tasks[n], 0, tasks[n]) /\ tasks[n] \in Seq(MessagesAt(n))
    BY <1>2, TakesNone
  <2>. QED
    BY <1>1, <1>2, <1>11, <2>1, DidSend
<1>15. brk'[n] = c
  BY <1>1 DEF Inv, ListsOK
<1>16. Speaks(n, brk, brk', ms)
  <2>1. SUFFICES ASSUME NEW f \in Flow, HasLink(brk, n, f), n # f.src
                 PROVE  \/ HasLink(brk', n, f)
                        \/ \E i \in 1 .. Len(ms) : ms[i].message = Message("rcvp", f)
    BY DEF Speaks
  <2>2. PICK i \in 1 .. Len(l) : l[i].flow = f
    BY <2>1 DEF HasLink, l
  <2>3. CASE f.dst = d
    BY <1>9, <1>12, <2>1, <2>2, <2>3
  <2>4. CASE f.dst # d
    <3>1. PICK k \in 1 .. Len(c) : c[k] = l[i]
      BY <1>4, <1>6, <2>2, <2>4
    <3>. QED
      BY <1>15, <2>2, <3>1 DEF HasLink
  <2>. QED
    BY <2>3, <2>4
<1>17. Holds(n, brk, tasks, brk', 0)
  <2>1. \A k \in 1 .. Len(c) : \E i \in 1 .. Len(l) : Alike(c[k], l[i])
    BY <1>6 DEF Alike
  <2>. QED
    BY <1>15, <2>1 DEF Holds, l
<1>18. Tells(n, brk', ms)
  BY <1>13 DEF Tells
<1>19. credit' \in Int /\ Len(c) + credit <= Len(l) + credit'
  BY <1>1, <1>2, <1>6, <1>7
<1>20. clean' => down' = {}
  BY <1>2, <1>14 DEF Did
<1>. QED
  BY <1>1, <1>6, <1>14, <1>16, <1>17, <1>18, <1>19, <1>20, ListStep DEF l

LEMMA TablesAre ==
  ASSUME NEW n \in Node, NEW F \in Tables(n), NEW B \in SUBSET F, NEW q \in Listings(B)
  PROVE  /\ DOMAIN q = 1 .. Len(q) /\ Len(q) \in Nat
         /\ \A i \in 1 .. Len(q) : q[i] \in B /\ q[i] \in Flow /\ On(n, q[i])
<1>1. B \subseteq Flow /\ \A f \in B : On(n, f)
  BY DEF Tables
<1>2. IsFiniteSet(B) /\ Cardinality(B) \in Nat
  BY <1>1, RecoveryAssumption, FS_Subset, FS_CardinalityType DEF RecoveryAssumption
<1>3. q \in [1 .. Cardinality(B) -> B]
  BY DEF Listings
<1>. DEFINE k == Cardinality(B)
<1>. HIDE DEF k
<1>4. DOMAIN q = 1 .. k /\ q = [i \in 1 .. k |-> q[i]] /\ k \in Nat /\ \A i \in 1 .. k : q[i] \in B
  BY <1>2, <1>3 DEF k
<1>5. q \in Seq(B) /\ Len(q) = k
  BY <1>4, PlacesSeq
<1>. QED
  BY <1>1, <1>4, <1>5

LEMMA RedirectionsAre ==
  ASSUME NEW n \in Node, NEW F \in Tables(n), NEW q \in Listings(F)
  PROVE  /\ Redirections(n, q) \in Seq(Packets(n))
         /\ \A i \in 1 .. Len(Redirections(n, q)) :
              Redirections(n, q)[i].message.kind # "rerr"
<1>. DEFINE all == [i \in DOMAIN q |-> Packet(n, "rrdp", q[i])]
            I == {i \in DOMAIN q : q[i].src # n /\ \A j \in 1 .. i : q[j] \in valid[n]}
            r == Picked(all, I)
<1>1. /\ DOMAIN q = 1 .. Len(q) /\ Len(q) \in Nat
      /\ \A i \in 1 .. Len(q) : q[i] \in Flow /\ On(n, q[i])
  BY TablesAre
<1>2. I \subseteq 1 .. Len(q) /\ \A i \in I : q[i].src # n
  BY <1>1
<1>3. ASSUME NEW i \in I
      PROVE  all[i] \in Packets(n) /\ all[i].message.kind # "rerr"
  <2>1. q[i] \in Flow /\ On(n, q[i]) /\ n # q[i].src
    BY <1>1, <1>2
  <2>2. /\ Packet(n, "rrdp", q[i]) \in Packets(n)
        /\ Packet(n, "rrdp", q[i]).message = Message("rrdp", q[i])
    BY <2>1, PacketIs
  <2>3. Message("rrdp", q[i]).kind = "rrdp"
    BY DEF Message
  <2>. QED
    BY <1>1, <1>2, <2>2, <2>3
<1>. HIDE DEF all, I
<1>4. r \in Seq(Packets(n)) /\ Picks(r, all, I)
  BY <1>1, <1>2, <1>3, PickedAre
<1>. HIDE DEF r
<1>5. \A k \in 1 .. Len(r) : \E i \in I : r[k] = all[i]
  BY <1>4 DEF Picks
<1>6. \A k \in 1 .. Len(r) : r[k].message.kind # "rerr"
  BY <1>3, <1>5
<1>7. r = Redirections(n, q)
  BY DEF Redirections, r, all, I
<1>. QED
  BY <1>4, <1>6, <1>7

LEMMA NoteBreaksStep ==
  ASSUME Inv, NEW n \in Node, NEW q, Len(q) \in Nat, NEW heard \in BOOLEAN,
         NEW d \in {0, 1}, NEW rest \in Seq(MessagesAt(n)), Takes(tasks[n], d, rest),
         NoteBreaks(n, q, heard, rest),
         \A i \in 1 .. Len(q) :
           /\ q[i] \in Flow /\ On(n, q[i]) /\ (heard => NextHop(n, q[i]) \in Node)
           /\ heard /\ clean => Backing(brk, tasks, n, q[i], d),
         d = 1 => tasks[n][1].kind # "rcvp"
  PROVE  Inv'
<1>. DEFINE l == brk[n]
            F == {q[i] : i \in 1 .. Len(q)}
<1>1. PICK over \in SUBSET {brk[n][i].flow : i \in 1 .. Len(brk[n])} :
        LET all == NoteAll(n, q, heard, over) IN
        /\ brk' = [brk EXCEPT ![n] = all.list]
        /\ down' = IF all.ok THEN down ELSE down \cup {n}
        /\ credit' = credit + all.new
        /\ Send(n, rest, all.ms, over = {} /\ all.ok)
  BY DEF NoteBreaks
<1>. DEFINE r == NoteAll(n, q, heard, over)
<1>2. /\ brk' = [brk EXCEPT ![n] = r.list]
      /\ down' = IF r.ok THEN down ELSE down \cup {n}
      /\ credit' = credit + r.new
      /\ Send(n, rest, r.ms, over = {} /\ r.ok)
  BY <1>1
<1>3. /\ QueuesOK(tasks) /\ l \in Seq(LinksAt(n)) /\ Sorted(l)
      /\ Len(l) \in Nat /\ credit \in Int
      /\ clean => down = {}
  BY InvIs
<1>4. \A f \in F : heard /\ clean => Backing(brk, tasks, n, f, d)
  OBVIOUS
<1>5. Noted(n, l, F, heard, over, r)
  BY <1>3, NoteAllIs
<1>. HIDE DEF F, r
<1>6. /\ r.list \in Seq(LinksAt(n)) /\ Sorted(r.list)
      /\ r.ok \in BOOLEAN /\ r.new \in Nat /\ Len(r.list) <= Len(l) + r.new
      /\ r.ms \in Seq(Packets(n))
      /\ \A i \in 1 .. Len(r.list) : r.list[i].heard =>
           (heard /\ r.list[i].flow \in F) \/ \E j \in 1 .. Len(l) : Alike(r.list[i], l[j])
  BY <1>5 DEF Noted
<1>7. over = {} =>
        /\ \A j \in 1 .. Len(l) : \E i \in 1 .. Len(r.list) : r.list[i].flow = l[j].flow
        /\ \A i \in 1 .. Len(r.ms) : r.ms[i].message.kind = "rerr" =>
             \E k \in 1 .. Len(r.list) : r.list[k].flow = r.ms[i].message.flow
  BY <1>5 DEF Noted
<1>8. Did(n, d, rest, r.ms) /\ (clean' => over = {} /\ r.ok)
  BY <1>2, <1>3, <1>6, DidSend
<1>9. brk'[n] = r.list
  BY <1>2 DEF Inv, ListsOK
<1>10. clean' => clean /\ down' = {}
  BY <1>2, <1>3, <1>8 DEF Did
<1>11. credit' \in Int /\ Len(r.list) + credit <= Len(l) + credit'
  <2>. DEFINE a == Len(r.list)
              b == Len(l)
  <2>1. a \in Nat
    BY <1>6, SeqPlaces
  <2>2. a <= b + r.new /\ r.new \in Nat /\ credit' = credit + r.new
    BY <1>2, <1>6
  <2>3. b \in Nat /\ credit \in Int
    BY <1>3
  <2>. HIDE DEF a, b
  <2>4. credit' \in Int /\ a + credit <= b + credit'
    BY <2>1, <2>2, <2>3
  <2>. QED
    BY <2>4 DEF a, b
<1>12. ASSUME clean'
       PROVE  /\ Speaks(n, brk, brk', r.ms) /\ Holds(n, brk, tasks, brk', d)
              /\ Tells(n, brk', r.ms)
  <2>1. over = {} /\ clean
    BY <1>8, <1>10, <1>12
  <2>2. Speaks(n, brk, brk', r.ms)
    <3>1. SUFFICES ASSUME NEW f \in Flow, HasLink(brk, n, f)
                   PROVE  HasLink(brk', n, f)
      BY DEF Speaks
    <3>2. PICK j \in 1 .. Len(l) : l[j].flow = f
      BY <3>1 DEF HasLink
    <3>3. PICK i \in 1 .. Len(r.list) : r.list[i].flow = l[j].flow
      BY <1>7, <2>1
    <3>. QED
      BY <1>9, <3>2, <3>3 DEF HasLink
  <2>3. Tells(n, brk', r.ms)
    BY <1>7, <1>9, <2>1 DEF Tells, HasLink
  <2>4. Holds(n, brk, tasks, brk', d)
    <3>1. SUFFICES ASSUME NEW i \in 1 .. Len(r.list), r.list[i].heard
                   PROVE  \/ /\ \E j \in 1 .. Len(l) : Alike(r.list[i], l[j])
                             /\ d = 1 => tasks[n][1] # Message("rcvp", r.list[i].flow)
                          \/ Backing(brk, tasks, n, r.list[i].flow, d)
      BY <1>9 DEF Holds
    <3>2. CASE heard /\ r.list[i].flow \in F
      BY <1>4, <2>1, <3>2
    <3>3. CASE \E j \in 1 .. Len(l) : Alike(r.list[i], l[j])
      <4>1. d = 1 => tasks[n][1] # Message("rcvp", r.list[i].flow)
        BY DEF Message
      <4>. QED
        BY <3>3, <4>1
    <3>. QED
      BY <1>6, <3>1, <3>2, <3>3
  <2>. QED
    BY <2>2, <2>3, <2>4
<1>13. r.list \in Seq(LinksAt(n)) /\ Sorted(r.list)
  BY <1>6
<1>. QED
  BY <1>2, <1>8, <1>10, <1>11, <1>12, <1>13, ListStep

\* A step of n that changes no list and sends no RERR.
LEMMA SameListStep ==
  ASSUME Inv, NEW n \in Node, NEW d \in {0, 1}, NEW rest, NEW ms, Did(n, d, rest, ms),
         brk' = brk, credit' = credit, clean' => down' = {},
         \A i \in 1 .. Len(ms) : ms[i].message.kind # "rerr",
         d = 1 => tasks[n][1].kind # "rcvp"
  PROVE  Inv'
<1>1. /\ brk[n] \in Seq(LinksAt(n)) /\ Sorted(brk[n]) /\ Len(brk[n]) \in Nat
      /\ credit \in Int
  BY InvIs
<1>2. brk' = [brk EXCEPT ![n] = brk[n]]
  BY DEF Inv, ListsOK
<1>3. Len(brk[n]) + credit <= Len(brk[n]) + credit'
  BY <1>1
<1>4. Speaks(n, brk, brk', ms)
  BY DEF Speaks
<1>5. Holds(n, brk, tasks, brk', d)
  <2>1. \A i \in 1 .. Len(brk[n]) :
          Alike(brk[n][i], brk[n][i]) /\ (d = 1 => tasks[n][1] # Message("rcvp", brk[n][i].flow))
    BY DEF Alike, Message
  <2>. QED
    BY <2>1 DEF Holds
<1>6. Tells(n, brk', ms)
  BY DEF Tells
<1>. QED
  BY <1>1, <1>2, <1>3, <1>4, <1>5, <1>6, ListStep

LEMMA RecvHelloStep ==
  ASSUME Inv, NEW n \in Node, NEW who, RecvHello(n, who)
  PROVE  Inv'
<1>1. PICK F \in Tables(n) : \E q \in Listings(F) :
        \/ GenRcvp(n, who, Redirections(n, q))
        \/ Send(n, tasks[n], Redirections(n, q), TRUE) /\ UNCHANGED <<brk, credit>>
  BY DEF RecvHello
<1>2. PICK q \in Listings(F) :
        \/ GenRcvp(n, who, Redirections(n, q))
        \/ Send(n, tasks[n], Redirections(n, q), TRUE) /\ UNCHANGED <<brk, credit>>
  BY <1>1
<1>3. UNCHANGED down
  BY DEF RecvHello
<1>. DEFINE ms == Redirections(n, q)
<1>4. ms \in Seq(Packets(n)) /\ \A i \in 1 .. Len(ms) : ms[i].message.kind # "rerr"
  BY RedirectionsAre
<1>. HIDE DEF ms
<1>5. CASE GenRcvp(n, who, ms)
  BY <1>3, <1>4, <1>5, GenRcvpStep
<1>6. CASE Send(n, tasks[n], ms, TRUE) /\ UNCHANGED <<brk, credit>>
  <2>1. QueuesOK(tasks) /\ (clean => down = {})
    BY InvIs
  <2>2. Takes(tasks[n], 0, tasks[n]) /\ tasks[n] \in Seq(MessagesAt(n))
    BY <2>1, TakesNone
  <2>3. Did(n, 0, tasks[n], ms)
    BY <1>4, <1>6, <2>1, <2>2, DidSend
  <2>4. clean' => down' = {}
    BY <1>3, <2>1, <2>3 DEF Did
  <2>. QED
    BY <1>4, <1>6, <2>3, <2>4, SameListStep
<1>. QED
  BY <1>2, <1>5, <1>6 DEF ms

LEMMA RecvRrepStep ==
  ASSUME Inv, NEW n \in Node, NEW d, RecvRrep(n, d)
  PROVE  Inv'
<1>1. <<>> \in Seq(Packets(n)) /\ \A i \in 1 .. Len(<<>>) : <<>>[i].message.kind # "rerr"
  OBVIOUS
<1>. QED
  BY <1>1, GenRcvpStep DEF RecvRrep

LEMMA GenRerrStep ==
  ASSUME Inv, NEW n \in Node, NEW hop, GenRerr(n, hop)
  PROVE  Inv'
<1>1. PICK F \in Tables(n) :
        LET broken == {f \in F : NextHop(n, f) = hop /\ (f \in valid[n] \/ f.src = n)} IN
        \E q \in Listings(broken) : NoteBreaks(n, q, FALSE, tasks[n])
  BY DEF GenRerr
<1>. DEFINE B == {f \in F : NextHop(n, f) = hop /\ (f \in valid[n] \/ f.src = n)}
<1>2. PICK q \in Listings(B) : NoteBreaks(n, q, FALSE, tasks[n])
  BY <1>1
<1>3. B \in SUBSET F
  OBVIOUS
<1>. HIDE DEF B
<1>4. Len(q) \in Nat /\ \A i \in 1 .. Len(q) : q[i] \in Flow /\ On(n, q[i])
  BY <1>3, TablesAre
<1>5. Takes(tasks[n], 0, tasks[n]) /\ tasks[n] \in Seq(MessagesAt(n))
  BY InvIs, TakesNone
<1>. DEFINE rest == tasks[n]
            heard == FALSE
            d == 0
<1>6. NoteBreaks(n, q, heard, rest)
  BY <1>2
<1>7. /\ heard \in BOOLEAN /\ ~ heard /\ d \in {0, 1} /\ d # 1
      /\ Takes(tasks[n], d, rest) /\ rest \in Seq(MessagesAt(n))
  BY <1>5
<1>. HIDE DEF rest, heard, d
<1>. QED
  BY <1>4, <1>6, <1>7, NoteBreaksStep

LEMMA TakeIs ==
  ASSUME Inv, NEW n \in Node, NEW kind, Take(n, kind)
  PROVE  /\ Takes(tasks[n], 1, Tail(tasks[n])) /\ Tail(tasks[n]) \in Seq(MessagesAt(n))
         /\ Head(tasks[n]) = tasks[n][1] /\ 1 \in 1 .. Len(tasks[n])
         /\ tasks[n][1].kind = kind /\ tasks[n] # <<>>
         /\ Head(tasks[n]).flow \in Flow /\ On(n, Head(tasks[n]).flow)
         /\ NextHop(n, Head(tasks[n]).flow) \in Node
<1>1. QueuesOK(tasks) /\ tasks[n] # <<>> /\ Head(tasks[n]).kind = kind
  BY InvIs DEF Take
<1>. QED
  BY <1>1, TakesOne

LEMMA RecvRerrStep ==
  ASSUME Inv, NEW n \in Node, RecvRerr(n)
  PROVE  Inv'
<1>. DEFINE f == Head(tasks[n]).flow
            rest == Tail(tasks[n])
<1>1. Take(n, "rerr")
  BY DEF RecvRerr
<1>2. /\ Takes(tasks[n], 1, rest) /\ rest \in Seq(MessagesAt(n))
      /\ Head(tasks[n]) = tasks[n][1] /\ 1 \in 1 .. Len(tasks[n])
      /\ tasks[n][1].kind = "rerr" /\ tasks[n] # <<>>
      /\ f \in Flow /\ On(n, f) /\ NextHop(n, f) \in Node
  BY <1>1, TakeIs
<1>3. QueuesOK(tasks) /\ clean \in BOOLEAN /\ (clean => down = {} /\ AllBacked(brk, tasks))
  BY InvIs
<1>4. CASE NoteBreaks(n, <<f>>, TRUE, rest)
  <2>1. clean => Backing(brk, tasks, n, f, 1)
    BY <1>2, <1>3 DEF AllBacked
  <2>2. tasks[n][1].kind # "rcvp"
    BY <1>2
  <2>. HIDE DEF f, rest
  <2>. DEFINE q == <<f>>
  <2>3. Len(q) \in Nat /\ \A i \in 1 .. Len(q) : q[i] = f
    OBVIOUS
  <2>4. NoteBreaks(n, q, TRUE, rest)
    BY <1>4
  <2>. HIDE DEF q
  <2>. QED
    BY <1>2, <2>1, <2>2, <2>3, <2>4, NoteBreaksStep
<1>5. CASE /\ tasks' = [tasks EXCEPT ![n] = Tail(@)]
           /\ UNCHANGED <<valid, brk, down, credit, clean>>
  <2>1. Did(n, 1, rest, <<>>)
    BY <1>2, <1>3, <1>5, DidTail
  <2>2. \A i \in 1 .. Len(<<>>) : <<>>[i].message.kind # "rerr"
    OBVIOUS
  <2>3. brk' = brk /\ credit' = credit /\ (clean' => down' = {}) /\ tasks[n][1].kind # "rcvp"
    BY <1>2, <1>3, <1>5
  <2>. HIDE DEF rest
  <2>. QED
    BY <2>1, <2>2, <2>3, SameListStep
<1>. QED
  BY <1>4, <1>5 DEF RecvRerr

LEMMA RecvRrdpStep ==
  ASSUME Inv, NEW n \in Node, RecvRrdp(n)
  PROVE  Inv'
<1>. DEFINE f == Head(tasks[n]).flow
            rest == Tail(tasks[n])
            ms == IF f \in valid[n] THEN <<Packet(n, "rrdp", f)>> ELSE <<>>
<1>1. Take(n, "rrdp") /\ UNCHANGED <<valid, brk, credit>>
  BY DEF RecvRrdp
<1>2. /\ Takes(tasks[n], 1, rest) /\ rest \in Seq(MessagesAt(n))
      /\ tasks[n][1].kind = "rrdp" /\ tasks[n] # <<>>
      /\ f \in Flow /\ On(n, f)
  BY <1>1, TakeIs
<1>3. QueuesOK(tasks) /\ clean \in BOOLEAN /\ (clean => down = {})
  BY InvIs
<1>4. CASE n # f.src /\ Send(n, rest, ms, TRUE) /\ UNCHANGED down
  <2>. HIDE DEF f, rest
  <2>1. /\ Packet(n, "rrdp", f) \in Packets(n)
        /\ Packet(n, "rrdp", f).message = Message("rrdp", f)
    BY <1>2, <1>4, PacketIs
  <2>2. Packet(n, "rrdp", f).message.kind # "rerr"
    BY <2>1 DEF Message
  <2>3. ms \in Seq(Packets(n)) /\ \A i \in 1 .. Len(ms) : ms[i].message.kind # "rerr"
    BY <2>1, <2>2
  <2>. HIDE DEF ms
  <2>4. Did(n, 1, rest, ms)
    BY <1>2, <1>3, <1>4, <2>3, DidSend
  <2>5. clean' => down' = {}
    BY <1>3, <1>4, <2>4 DEF Did
  <2>6. brk' = brk /\ credit' = credit /\ tasks[n][1].kind # "rcvp"
    BY <1>1, <1>2
  <2>. QED
    BY <2>3, <2>4, <2>5, <2>6, SameListStep
<1>5. CASE /\ tasks' = [tasks EXCEPT ![n] = Tail(@)]
           /\ \/ UNCHANGED <<down, clean>>
              \/ down' = down \cup {n} /\ clean' = FALSE
  <2>1. clean' \in BOOLEAN /\ (clean' => clean /\ down' = {})
    <3>1. CASE UNCHANGED <<down, clean>>
      BY <1>3, <3>1
    <3>2. CASE clean' = FALSE
      BY <3>2
    <3>. QED
      BY <1>5, <3>1, <3>2
  <2>2. Did(n, 1, rest, <<>>)
    BY <1>2, <1>3, <1>5, <2>1, DidTail
  <2>3. \A i \in 1 .. Len(<<>>) : <<>>[i].message.kind # "rerr"
    OBVIOUS
  <2>4. brk' = brk /\ credit' = credit /\ tasks[n][1].kind # "rcvp"
    BY <1>1, <1>2
  <2>. HIDE DEF rest
  <2>. QED
    BY <2>1, <2>2, <2>3, <2>4, SameListStep
<1>. QED
  BY <1>4, <1>5 DEF RecvRrdp

LEMMA RecvRcvpStep ==
  ASSUME Inv, NEW n \in Node, RecvRcvp(n)
  PROVE  Inv'
<1>. DEFINE f == Head(tasks[n]).flow
            rest == Tail(tasks[n])
            l == brk[n]
            old == LinkOf(l, f)
            pass == old # {} /\ n # f.src
            ms == IF pass THEN <<Packet(n, "rcvp", f)>> ELSE <<>>
            c == Without(l, old)
<1>1. /\ Take(n, "rcvp") /\ UNCHANGED <<valid, down>>
      /\ brk' = [brk EXCEPT ![n] = c]
      /\ Send(n, rest, ms, TRUE)
      /\ credit' = IF pass THEN credit - 1 ELSE credit
  BY DEF RecvRcvp
<1>2. /\ Takes(tasks[n], 1, rest) /\ rest \in Seq(MessagesAt(n))
      /\ Head(tasks[n]) = tasks[n][1]
      /\ f \in Flow /\ On(n, f)
  BY <1>1, TakeIs
<1>3. /\ QueuesOK(tasks) /\ l \in Seq(LinksAt(n)) /\ Sorted(l)
      /\ Len(l) \in Nat /\ credit \in Int
      /\ clean => down = {}
  BY InvIs
<1>4. brk'[n] = c
  BY <1>1 DEF Inv, ListsOK
<1>5. tasks[n][1].flow = f
  BY <1>2
<1>. HIDE DEF l, f, rest
<1>6. old = {i \in 1 .. Len(l) : l[i].flow = f}
  BY <1>3, PlacesOf
<1>. HIDE DEF old
<1>7. old \subseteq 1 .. Len(l)
  BY <1>6
<1>8. /\ c \in Seq(LinksAt(n)) /\ Sorted(c)
      /\ Cardinality(old) \in Nat /\ Len(c) = Len(l) - Cardinality(old)
      /\ \A k \in 1 .. Len(c) : \E i \in (1 .. Len(l)) \ old : c[k] = l[i]
      /\ \A i \in (1 .. Len(l)) \ old : \E k \in 1 .. Len(c) : c[k] = l[i]
  BY <1>3, <1>7, WithoutIs
<1>. HIDE DEF c
<1>9. pass => /\ Packet(n, "rcvp", f) \in Packets(n)
              /\ Packet(n, "rcvp", f).message = Message("rcvp", f)
  BY <1>2, PacketIs
<1>10. /\ ms \in Seq(Packets(n))
       /\ \A i \in 1 .. Len(ms) : ms[i].message = Message("rcvp", f)
       /\ pass => 1 \in 1 .. Len(ms)
  BY <1>9
<1>11. pass => Cardinality(old) >= 1
  <2>1. IsFiniteSet(old)
    BY <1>3, <1>7, IntervalIs, FS_Subset
  <2>. QED
    BY <1>8, <2>1, FS_EmptySet
<1>. HIDE DEF ms
<1>12. credit' \in Int /\ Len(c) + credit <= Len(l) + credit'
  BY <1>1, <1>3, <1>8, <1>11
<1>13. Did(n, 1, rest, ms)
  BY <1>1, <1>2, <1>3, <1>10, DidSend
<1>14. clean' => down' = {}
  BY <1>1, <1>3, <1>13 DEF Did
<1>15. Speaks(n, brk, brk', ms)
  <2>1. SUFFICES ASSUME NEW g \in Flow, HasLink(brk, n, g), n # g.src
                 PROVE  \/ HasLink(brk', n, g)
                        \/ \E i \in 1 .. Len(ms) : ms[i].message = Message("rcvp", g)
    BY DEF Speaks
  <2>2. PICK i \in 1 .. Len(l) : l[i].flow = g
    BY <2>1 DEF HasLink, l
  <2>3. CASE g = f
    <3>1. pass
      BY <1>6, <2>1, <2>2, <2>3
    <3>. QED
      BY <1>10, <2>3, <3>1
  <2>4. CASE g # f
    <3>1. i \in (1 .. Len(l)) \ old
      BY <1>6, <2>2, <2>4
    <3>2. PICK k \in 1 .. Len(c) : c[k] = l[i]
      BY <1>8, <3>1
    <3>. QED
      BY <1>4, <2>2, <3>2 DEF HasLink
  <2>. QED
    BY <2>3, <2>4
<1>16. Holds(n, brk, tasks, brk', 1)
  <2>1. ASSUME NEW k \in 1 .. Len(c)
        PROVE  /\ \E i \in 1 .. Len(l) : Alike(c[k], l[i])
               /\ tasks[n][1] # Message("rcvp", c[k].flow)
    <3>1. PICK i \in (1 .. Len(l)) \ old : c[k] = l[i]
      BY <1>8
    <3>2. c[k].flow # f
      BY <1>6, <3>1
    <3>. QED
      BY <1>5, <3>1, <3>2 DEF Alike, Message
  <2>. QED
    BY <1>4, <2>1 DEF Holds, l
<1>17. Tells(n, brk', ms)
  BY <1>10 DEF Tells, Message
<1>. QED
  BY <1>1, <1>8, <1>12, <1>13, <1>14, <1>15, <1>16, <1>17, ListStep DEF l
-----------------------------------------------------------------------------
(* Every step.                                                             *)

LEMMA InvKept ==
  ASSUME Inv, UNCHANGED <<brk, tasks, down, credit, clean>>
  PROVE  Inv'
<1>1. ListsOK(brk) /\ QueuesOK(tasks) /\ credit \in Int /\ clean \in BOOLEAN
  BY DEF Inv
<1>2. RcvpPaid /\ (clean => down = {} /\ AllBacked(brk, tasks))
  BY DEF Inv
<1>3. brk' = brk /\ tasks' = tasks /\ down' = down /\ credit' = credit /\ clean' = clean
  OBVIOUS
<1>4. ListsOK(brk')
  BY <1>1, <1>3
<1>5. QueuesOK(tasks')
  BY <1>1, <1>3
<1>6. RcvpPaid'
  BY <1>2, <1>3 DEF RcvpPaid
<1>7. clean' => down' = {} /\ AllBacked(brk', tasks')
  BY <1>2, <1>3
<1>. QED
  BY <1>1, <1>3, <1>4, <1>5, <1>6, <1>7 DEF Inv

LEMMA InvNext ==
  ASSUME Inv, [Next]_vars
  PROVE  Inv'
<1>1. ASSUME NEW n \in Node, NEW f, Found(n, f)
      PROVE  Inv'
  <2>1. UNCHANGED <<brk, tasks, down, credit, clean>>
    BY <1>1 DEF Found
  <2>. QED
    BY <2>1, InvKept
<1>2. CASE UNCHANGED vars
  <2>1. UNCHANGED <<brk, tasks, down, credit, clean>>
    BY <1>2 DEF vars
  <2>. QED
    BY <2>1, InvKept
<1>3. CASE Next
  <2>1. PICK n \in Node :
          \/ \E f \in Flow : Found(n, f)
          \/ \E d \in Dst : RecvRrep(n, d)
          \/ \E hop \in Node \cup {Null} : GenRerr(n, hop)
          \/ \E who \in Dst \cup {0} : RecvHello(n, who)
          \/ RecvRerr(n) \/ RecvRcvp(n) \/ RecvRrdp(n)
    BY <1>3 DEF Next, Thread
  <2>2. CASE \E f \in Flow : Found(n, f)
    BY <1>1, <2>2
  <2>3. CASE \E d \in Dst : RecvRrep(n, d)
    BY <2>3, RecvRrepStep
  <2>4. CASE \E hop \in Node \cup {Null} : GenRerr(n, hop)
    BY <2>4, GenRerrStep
  <2>5. CASE \E who \in Dst \cup {0} : RecvHello(n, who)
    BY <2>5, RecvHelloStep
  <2>6. CASE RecvRerr(n)
    BY <2>6, RecvRerrStep
  <2>7. CASE RecvRcvp(n)
    BY <2>7, RecvRcvpStep
  <2>8. CASE RecvRrdp(n)
    BY <2>8, RecvRrdpStep
  <2>. QED
    BY <2>1, <2>2, <2>3, <2>4, <2>5, <2>6, <2>7, <2>8
<1>. QED
  BY <1>2, <1>3

LEMMA InvInit ==
  ASSUME Init
  PROVE  Inv
<1>1. /\ brk = [n \in Node |-> <<>>] /\ tasks = [n \in Node |-> <<>>]
      /\ down = {} /\ credit = 0 /\ clean = TRUE
  BY DEF Init
<1>2. \A n \in Node : brk[n] = <<>> /\ tasks[n] = <<>>
  BY <1>1
<1>3. ListsOK(brk) /\ QueuesOK(tasks)
  <2>1. \A S : <<>> \in Seq(S)
    OBVIOUS
  <2>2. Sorted(<<>>)
    BY DEF Sorted
  <2>. QED
    BY <1>1, <1>2, <2>1, <2>2 DEF ListsOK, QueuesOK
<1>4. RcvpPaid
  <2>1. ASSUME NEW n \in Node PROVE {n} \X (1 .. Len(brk[n])) = {}
    <3>1. 1 .. Len(<<>>) = {}
      OBVIOUS
    <3>. QED
      BY <1>2, <3>1
  <2>2. UNION {{n} \X (1 .. Len(brk[n])) : n \in Node} = {}
    BY <2>1
  <2>. QED
    BY <1>1, <2>2, FS_EmptySet DEF RcvpPaid
<1>5. AllBacked(brk, tasks)
  BY <1>2 DEF AllBacked
<1>. QED
  BY <1>1, <1>3, <1>4, <1>5 DEF Inv

LEMMA Invariance == Spec => []Inv
  BY InvInit, InvNext, PTL DEF Spec

LEMMA Backed ==
  ASSUME Inv
  PROVE  HeardBacked
<1>1. SUFFICES ASSUME clean, NEW n \in Node, NEW i \in 1 .. Len(brk[n]), brk[n][i].heard
               PROVE  \/ LinkOf(brk[NextHop(n, brk[n][i].flow)], brk[n][i].flow) # {}
                      \/ Waiting(n, "rcvp", brk[n][i].flow)
  BY DEF HeardBacked
<1>. DEFINE f == brk[n][i].flow
            m == NextHop(n, f)
<1>2. Backing(brk, tasks, n, f, 0)
  BY <1>1 DEF Inv, AllBacked
<1>3. m \in Node
  <2>1. brk[n] \in Seq(LinksAt(n))
    BY InvIs
  <2>2. brk[n][i] \in LinksAt(n)
    BY <2>1, SeqPlaces
  <2>. QED
    BY <1>1, <2>2, LinkIs
<1>. HIDE DEF f
<1>4. CASE HasLink(brk, m, f)
  <2>1. brk[m] \in Seq(LinksAt(m)) /\ Sorted(brk[m])
    BY <1>3, InvIs
  <2>2. LinkOf(brk[m], f) = {j \in 1 .. Len(brk[m]) : brk[m][j].flow = f}
    BY <2>1, PlacesOf
  <2>. QED
    BY <1>4, <2>2 DEF HasLink, f
<1>5. CASE Behind(tasks, n, f, 0)
  BY <1>5 DEF Behind, Waiting, f
<1>. QED
  BY <1>2, <1>4, <1>5 DEF Backing
-----------------------------------------------------------------------------
(* A node's list of broken links is always sorted by destination, with one *)
(* link for a flow, so that the searches of brk_list.c, which stop at the  *)
(* first greater destination, find what there is, although flush_brk_list  *)
(* takes links out of its middle.                                          *)
THEOREM ListsSorted == Spec => []ListSorted
<1>1. Inv => ListSorted
  BY DEF Inv, ListsOK, Sorted, ListSorted
<1>. QED
  BY <1>1, Invariance, PTL

(* RCVPs have no hop limit and no sequence number, and every node of a     *)
(* path may start one (gen_rcvp), but the links that were ever noted pay   *)
(* for all of them: one link is given up for each that is sent.            *)
THEOREM RcvpsPaid == Spec => []RcvpPaid
<1>1. Inv => RcvpPaid
  BY DEF Inv
<1>. QED
  BY <1>1, Invariance, PTL

(* While nothing is lost, expires or crashes, a link that was noted for a  *)
(* RERR is never left over: recv_rcvp will be called for it, as the hop    *)
(* behind has its own link of the flow or has sent the RCVP.               *)
THEOREM HeardsBacked == Spec => []HeardBacked
<1>1. Inv => HeardBacked
  BY Backed
<1>. QED
  BY <1>1, Invariance, PTL

=============================================================================
