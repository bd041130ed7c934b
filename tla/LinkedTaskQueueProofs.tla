----------------------- MODULE LinkedTaskQueueProofs -----------------------
(***************************************************************************)
(* The pointers of task_queue.c, for every number of tasks: they keep two  *)
(* lists in step, implement TaskQueue, and cleanup_task_queue frees what   *)
(* is queued.                                                              *)
(***************************************************************************)
EXTENDS LinkedTaskQueue, WellFoundedInduction, FiniteSetTheorems, SequenceTheorems, TLAPS

N == Cardinality(Task)
Pointers == Task \cup {Null}
Fields == [Task -> Pointers]

LEMMA TaskFinite == IsFiniteSet(Task) /\ N \in Nat /\ Null \notin Task
  BY PoolAssumption, FS_CardinalityType DEF N

LEMMA LeastNat ==
  ASSUME NEW T, T \subseteq Nat, T # {}
  PROVE  \E x \in T : \A y \in T : x <= y
<1>. DEFINE R == OpToRel(<, Nat)
<1>1. PICK x \in T : \A y \in T : <<y, x>> \notin R
  <2>1. IsWellFoundedOn(R, Nat)
    BY NatLessThanWellFounded
  <2>. HIDE DEF R
  <2>. QED
    BY <2>1, WFMin
<1>2. \A y \in T : ~ (y < x)
  BY <1>1 DEF OpToRel
<1>. QED
  BY <1>2
-----------------------------------------------------------------------------
(* Sequences of tasks without repetition.                                  *)

Line(s) ==
  /\ s \in Seq(Task)
  /\ \A i, j \in 1 .. Len(s) : s[i] = s[j] => i = j

(* The walk from start along field meets s and ends.                       *)
Spells(s, start, field) ==
  /\ Len(s) = 0 => start = Null
  /\ Len(s) > 0 => start = s[1] /\ field[s[Len(s)]] = Null
  /\ \A i \in 1 .. Len(s) - 1 : field[s[i]] = s[i + 1]

(* l is what is left of q when only the tasks of T are kept; at[k] is the  *)
(* place in q of the k-th task of l.                                       *)
Places(at, l, q, T) ==
  /\ at \in [1 .. Len(l) -> 1 .. Len(q)]
  /\ \A k, m \in 1 .. Len(l) : k < m => at[k] < at[m]
  /\ \A k \in 1 .. Len(l) : l[k] = q[at[k]] /\ l[k] \in T
  /\ \A i \in 1 .. Len(q) : q[i] \in T => \E k \in 1 .. Len(l) : at[k] = i

Kept(l, q, T) == \E at : Places(at, l, q, T)

LEMMA SeqPlaces ==
  ASSUME NEW S, NEW l \in Seq(S)
  PROVE  /\ Len(l) \in Nat /\ DOMAIN l = 1 .. Len(l)
         /\ \A i \in 1 .. Len(l) : l[i] \in S
  BY LenProperties

LEMMA SeqEq ==
  ASSUME NEW S, NEW l \in Seq(S), NEW g, DOMAIN g = 1 .. Len(l),
         \A i \in 1 .. Len(l) : g[i] = l[i], g = [i \in DOMAIN g |-> g[i]]
  PROVE  g = l
<1>1. DOMAIN l = 1 .. Len(l) /\ l \in [1 .. Len(l) -> S]
  BY LenProperties
<1>. QED
  BY <1>1

LEMMA IntervalIs ==
  ASSUME NEW n \in Nat
  PROVE  IsFiniteSet(1 .. n) /\ Cardinality(1 .. n) = n
  BY FS_Interval

LEMMA LineFits ==
  ASSUME NEW q, Line(q)
  PROVE  Len(q) \in Nat /\ Len(q) <= N
<1>1. Len(q) \in Nat /\ DOMAIN q = 1 .. Len(q) /\ q \in [1 .. Len(q) -> Task]
  BY LenProperties DEF Line
<1>2. q \in Injection(1 .. Len(q), Task)
  BY <1>1 DEF Line, Injection, IsInjective
<1>3. Cardinality(1 .. Len(q)) <= Cardinality(Task)
  BY <1>2, TaskFinite, FS_Injection
<1>4. Cardinality(1 .. Len(q)) = Len(q)
  BY <1>1, IntervalIs
<1>. QED
  BY <1>1, <1>3, <1>4 DEF N

(* What Met steps through.                                                 *)
Steps(start, field) ==
  LET at[i \in 1 .. Cardinality(Task)] ==
        IF i = 1 THEN start
        ELSE IF at[i - 1] = Null THEN Null ELSE field[at[i - 1]]
  IN at

LEMMA StepsExist ==
  ASSUME NEW start, NEW field
  PROVE  \A i \in 1 .. N : Steps(start, field)[i] =
           IF i = 1 THEN start
           ELSE IF Steps(start, field)[i - 1] = Null THEN Null
           ELSE field[Steps(start, field)[i - 1]]
<1>. DEFINE At(h, i) == IF i = 1 THEN start
                        ELSE IF h[i - 1] = Null THEN Null ELSE field[h[i - 1]]
            Obeys(h, n) == h = [i \in 1 .. n |-> At(h, i)]
            Bad == {n \in Nat : ~ \E h : Obeys(h, n)}
<1>1. ASSUME Bad # {} PROVE FALSE
  <2>1. PICK n \in Bad : \A m \in Bad : n <= m
    <3>1. Bad \subseteq Nat
      OBVIOUS
    <3>. HIDE DEF Bad
    <3>. QED
      BY <1>1, <3>1, LeastNat
  <2>2. n \in Nat /\ ~ \E h : Obeys(h, n)
    OBVIOUS
  <2>3. n # 0
    <3>. DEFINE e == [i \in 1 .. 0 |-> start]
    <3>1. Obeys(e, 0)
      OBVIOUS
    <3>. HIDE DEF Obeys, e
    <3>. QED
      BY <2>2, <3>1
  <2>4. n - 1 \in Nat /\ ~ (n <= n - 1)
    BY <2>2, <2>3
  <2>5. PICK h : Obeys(h, n - 1)
    <3>1. n - 1 \notin Bad
      <4>. HIDE DEF Bad
      <4>. QED
        BY <2>1, <2>4
    <3>. HIDE DEF Obeys
    <3>. QED
      BY <2>4, <3>1
  <2>. DEFINE g == [i \in 1 .. n |-> IF i < n THEN h[i] ELSE At(h, n)]
  <2>6. \A i \in 1 .. n - 1 : h[i] = At(h, i)
    BY <2>5
  <2>. HIDE DEF Bad
  <2>7. ASSUME NEW i \in 1 .. n
        PROVE  g[i] = At(g, i)
    <3>1. CASE i = n
      <4>1. g[i] = At(h, n)
        BY <3>1
      <4>2. n # 1 => n - 1 \in 1 .. n /\ n - 1 < n
        BY <2>2, <2>3
      <4>3. n # 1 => g[n - 1] = h[n - 1]
        BY <4>2
      <4>. QED
        BY <3>1, <4>1, <4>3
    <3>2. CASE i # n
      <4>1. i \in 1 .. n - 1 /\ i < n
        BY <2>2, <3>2
      <4>2. g[i] = At(h, i)
        BY <2>6, <4>1
      <4>3. i # 1 => i - 1 \in 1 .. n /\ i - 1 < n
        BY <2>2, <4>1
      <4>4. i # 1 => g[i - 1] = h[i - 1]
        BY <4>3
      <4>. QED
        BY <4>2, <4>4
    <3>. QED
      BY <3>1, <3>2
  <2>8. Obeys(g, n)
    <3>1. g = [i \in 1 .. n |-> g[i]]
      OBVIOUS
    <3>. HIDE DEF g
    <3>. QED
      BY <2>7, <3>1
  <2>. HIDE DEF Obeys, g
  <2>. QED
    BY <2>2, <2>8
<1>2. \E h : Obeys(h, N)
  <2>1. N \in Nat
    BY TaskFinite
  <2>. HIDE DEF Obeys
  <2>. QED
    BY <1>1, <2>1
<1>3. Steps(start, field) = CHOOSE h : Obeys(h, N)
  BY DEF Steps, N
<1>4. Obeys(Steps(start, field), N)
  <2>. HIDE DEF Obeys
  <2>. QED
    BY <1>2, <1>3
<1>. QED
  BY <1>4

LEMMA StepsAre ==
  ASSUME NEW q, Line(q), NEW start, NEW field, Spells(q, start, field)
  PROVE  Steps(start, field) = [i \in 1 .. N |-> IF i <= Len(q) THEN q[i] ELSE Null]
<1>. DEFINE g == [i \in 1 .. N |-> IF i <= Len(q) THEN q[i] ELSE Null]
            Obeys(h) == h = [i \in 1 .. N |->
                               IF i = 1 THEN start
                               ELSE IF h[i - 1] = Null THEN Null ELSE field[h[i - 1]]]
<1>1. Len(q) \in Nat /\ \A i \in 1 .. Len(q) : q[i] \in Task /\ q[i] # Null
  BY SeqPlaces, TaskFinite DEF Line
<1>2. N \in Nat
  BY TaskFinite
<1>3. Obeys(g)
  <2>1. ASSUME NEW i \in 1 .. N
        PROVE  g[i] = IF i = 1 THEN start
                      ELSE IF g[i - 1] = Null THEN Null ELSE field[g[i - 1]]
    <3>1. CASE i = 1
      BY <1>1, <1>2, <3>1 DEF Spells
    <3>2. CASE i # 1 /\ i <= Len(q)
      <4>1. i - 1 \in 1 .. Len(q) - 1 /\ i - 1 \in 1 .. N /\ (i - 1) + 1 = i /\ i - 1 <= Len(q)
        BY <1>1, <1>2, <3>2
      <4>2. g[i - 1] = q[i - 1] /\ q[i - 1] # Null /\ g[i] = q[i]
        BY <1>1, <3>2, <4>1
      <4>. QED
        BY <3>2, <4>1, <4>2 DEF Spells
    <3>3. CASE i # 1 /\ i = Len(q) + 1
      <4>1. i - 1 = Len(q) /\ i - 1 \in 1 .. Len(q) /\ i - 1 \in 1 .. N /\ ~ (i <= Len(q))
        BY <1>1, <1>2, <3>3
      <4>2. g[i - 1] = q[Len(q)] /\ g[i] = Null /\ q[Len(q)] # Null
        BY <1>1, <4>1
      <4>3. field[q[Len(q)]] = Null
        BY <1>1, <4>1 DEF Spells
      <4>. QED
        BY <3>3, <4>2, <4>3
    <3>4. CASE i # 1 /\ i > Len(q) + 1
      <4>1. i - 1 \in 1 .. N /\ ~ (i - 1 <= Len(q)) /\ ~ (i <= Len(q))
        BY <1>1, <1>2, <3>4
      <4>. QED
        BY <3>4, <4>1
    <3>. QED
      BY <1>1, <3>1, <3>2, <3>3, <3>4
  <2>. QED
    BY <2>1
<1>4. ASSUME NEW h, Obeys(h)
      PROVE  h = g
  <2>. DEFINE Bad == {i \in 1 .. N : h[i] # g[i]}
  <2>0. \A i \in 1 .. N : h[i] = IF i = 1 THEN start
                                 ELSE IF h[i - 1] = Null THEN Null ELSE field[h[i - 1]]
    BY <1>4
  <2>1. \A i \in 1 .. N : g[i] = IF i = 1 THEN start
                                 ELSE IF g[i - 1] = Null THEN Null ELSE field[g[i - 1]]
    BY <1>3
  <2>2. ASSUME Bad # {} PROVE FALSE
    <3>1. Bad \subseteq Nat
      BY <1>2
    <3>2. PICK i \in Bad : \A j \in Bad : i <= j
      <4>. HIDE DEF Bad
      <4>. QED
        BY <2>2, <3>1, LeastNat
    <3>3. i # 1 /\ i \in 1 .. N
      BY <2>0, <2>1, <3>2
    <3>4. i - 1 \in 1 .. N /\ ~ (i <= i - 1)
      BY <1>2, <3>3
    <3>5. h[i - 1] = g[i - 1]
      BY <3>2, <3>4
    <3>6. h[i] = g[i]
      <4>. HIDE DEF g, Obeys
      <4>. QED
        BY <2>0, <2>1, <3>3, <3>5
    <3>. QED
      BY <3>2, <3>6
  <2>3. h = [i \in 1 .. N |-> h[i]]
    BY <1>4
  <2>. QED
    BY <2>2, <2>3
<1>5. Steps(start, field) = CHOOSE h : Obeys(h)
  BY DEF Steps, N
<1>6. Obeys(CHOOSE h : Obeys(h))
  <2>. HIDE DEF Obeys, g
  <2>. QED
    BY <1>3
<1>. QED
  BY <1>4, <1>5, <1>6

(* What Met returns when the walk ends.                                    *)
LEMMA MetIs ==
  ASSUME NEW q, Line(q), NEW l \in Seq(Task), NEW T, T \subseteq Task,
         NEW start, NEW field, Spells(q, start, field), Kept(l, q, T)
  PROVE  Met(start, field, T) = l
<1>. DEFINE at == Steps(start, field)
            places == {i \in 1 .. N : at[i] \in T}
            ith(k) == CHOOSE i \in places : Cardinality(places \cap 1 .. i) = k
<1>1. Met(start, field, T) = [k \in 1 .. Cardinality(places) |-> at[ith(k)]]
  BY DEF Met, Steps, N
<1>2. at = [i \in 1 .. N |-> IF i <= Len(q) THEN q[i] ELSE Null]
  BY StepsAre
<1>3. Len(q) \in Nat /\ Len(q) <= N /\ N \in Nat /\ Null \notin T
  BY LineFits, TaskFinite
<1>4. Len(l) \in Nat /\ DOMAIN l = 1 .. Len(l)
  BY SeqPlaces
<1>5. PICK pl : Places(pl, l, q, T)
  BY DEF Kept
<1>. HIDE DEF at
<1>6. places = {i \in 1 .. Len(q) : q[i] \in T}
  BY <1>2, <1>3
<1>7. /\ pl \in [1 .. Len(l) -> 1 .. Len(q)]
      /\ \A k, m \in 1 .. Len(l) : k < m => pl[k] < pl[m]
      /\ \A k \in 1 .. Len(l) : l[k] = q[pl[k]] /\ l[k] \in T
      /\ \A i \in 1 .. Len(q) : q[i] \in T => \E k \in 1 .. Len(l) : pl[k] = i
  BY <1>5 DEF Places
<1>8. \A k \in 1 .. Len(l) : pl[k] \in places
  BY <1>6, <1>7
<1>9. \A i \in places : \E k \in 1 .. Len(l) : pl[k] = i
  BY <1>6, <1>7
<1>. HIDE DEF places
<1>10. ASSUME NEW k \in 1 .. Len(l), NEW m \in 1 .. Len(l)
       PROVE  k <= m <=> pl[k] <= pl[m]
  <2>1. k \in Int /\ m \in Int /\ pl[k] \in Int /\ pl[m] \in Int
    BY <1>3, <1>4, <1>7
  <2>2. (k < m => pl[k] < pl[m]) /\ (m < k => pl[m] < pl[k])
    BY <1>7
  <2>3. k = m => pl[k] = pl[m]
    OBVIOUS
  <2>. QED
    BY <2>1, <2>2, <2>3
<1>11. ASSUME NEW k \in 1 .. Len(l)
       PROVE  Cardinality(places \cap 1 .. pl[k]) = k
  <2>. DEFINE f == [m \in 1 .. k |-> pl[m]]
  <2>1. \A m \in 1 .. k : m \in 1 .. Len(l) /\ pl[m] \in places /\ pl[m] \in 1 .. pl[k]
    <3>1. SUFFICES ASSUME NEW m \in 1 .. k
                   PROVE  m \in 1 .. Len(l) /\ pl[m] \in places /\ pl[m] \in 1 .. pl[k]
      OBVIOUS
    <3>2. m \in 1 .. Len(l) /\ m <= k
      BY <1>4
    <3>3. pl[m] <= pl[k] /\ pl[m] \in 1 .. Len(q) /\ pl[k] \in 1 .. Len(q)
      BY <1>7, <1>10, <3>2
    <3>. QED
      BY <1>3, <1>8, <3>2, <3>3
  <2>2. f \in [1 .. k -> places \cap 1 .. pl[k]]
    BY <2>1
  <2>3. \A m, n \in 1 .. k : f[m] = f[n] => m = n
    BY <1>3, <1>4, <1>7, <2>1
  <2>4. ASSUME NEW i \in places \cap 1 .. pl[k]
        PROVE  \E m \in 1 .. k : f[m] = i
    <3>1. PICK m \in 1 .. Len(l) : pl[m] = i
      BY <1>9
    <3>2. pl[m] <= pl[k]
      BY <1>3, <1>7, <3>1
    <3>3. m \in 1 .. k
      BY <1>4, <1>10, <3>2
    <3>. QED
      BY <3>1, <3>3
  <2>. HIDE DEF f
  <2>5. f \in Bijection(1 .. k, places \cap 1 .. pl[k])
    BY <2>2, <2>3, <2>4 DEF Bijection, Injection, Surjection, IsInjective
  <2>6. IsFiniteSet(1 .. k) /\ Cardinality(1 .. k) = k
    BY <1>4, FS_Interval
  <2>. QED
    BY <2>5, <2>6, FS_Bijection DEF ExistsBijection
<1>12. Cardinality(places) = Len(l)
  <2>1. pl \in Bijection(1 .. Len(l), places)
    <3>1. pl \in [1 .. Len(l) -> places]
      BY <1>7, <1>8
    <3>2. ASSUME NEW k \in 1 .. Len(l), NEW m \in 1 .. Len(l), pl[k] = pl[m]
          PROVE  k = m
      <4>1. k \in Int /\ m \in Int /\ pl[k] \in Int
        BY <1>3, <1>4, <1>7
      <4>2. k <= m /\ m <= k
        BY <1>10, <3>2, <4>1
      <4>. QED
        BY <4>1, <4>2
    <3>. QED
      BY <1>9, <3>1, <3>2 DEF Bijection, Injection, Surjection, IsInjective
  <2>2. IsFiniteSet(1 .. Len(l)) /\ Cardinality(1 .. Len(l)) = Len(l)
    BY <1>4, IntervalIs
  <2>. QED
    BY <2>1, <2>2, FS_Bijection DEF ExistsBijection
<1>13. ASSUME NEW k \in 1 .. Len(l)
       PROVE  at[ith(k)] = l[k]
  <2>1. ith(k) \in places /\ Cardinality(places \cap 1 .. ith(k)) = k
    BY <1>8, <1>11
  <2>. HIDE DEF ith
  <2>2. PICK m \in 1 .. Len(l) : pl[m] = ith(k)
    BY <1>9, <2>1
  <2>3. m = k
    BY <1>11, <2>1, <2>2
  <2>4. at[pl[k]] = q[pl[k]]
    BY <1>2, <1>3, <1>7
  <2>. QED
    BY <1>7, <2>2, <2>3, <2>4
<1>. HIDE DEF ith
<1>14. Met(start, field, T) = [k \in 1 .. Len(l) |-> l[k]]
  BY <1>1, <1>12, <1>13
<1>15. l \in [1 .. Len(l) -> Task]
  BY LenProperties
<1>. QED
  BY <1>14, <1>15

LEMMA KeptAll ==
  ASSUME NEW q, Line(q)
  PROVE  Kept(q, q, Task)
<1>. DEFINE at == [k \in 1 .. Len(q) |-> k]
<1>1. Len(q) \in Nat /\ \A i \in 1 .. Len(q) : q[i] \in Task
  BY SeqPlaces DEF Line
<1>2. Places(at, q, q, Task)
  BY <1>1 DEF Places
<1>. QED
  BY <1>2 DEF Kept

LEMMA WalkIs ==
  ASSUME NEW q, Line(q), NEW start, NEW field, Spells(q, start, field)
  PROVE  Walk(start, field) = q
<1>1. q \in Seq(Task) /\ Kept(q, q, Task)
  BY KeptAll DEF Line
<1>. QED
  BY <1>1, MetIs DEF Walk
-----------------------------------------------------------------------------
(* A task at the end, one in front, one less.                              *)

Ended(q, t, q2) ==
  /\ Len(q2) = Len(q) + 1 /\ q2[Len(q) + 1] = t
  /\ \A i \in 1 .. Len(q) : q2[i] = q[i]
Fronted(q, t, q2) ==
  /\ Len(q2) = Len(q) + 1 /\ q2[1] = t
  /\ \A i \in 1 .. Len(q) : q2[i + 1] = q[i]
Removed(q, k, q2) ==
  /\ k \in 1 .. Len(q) /\ Len(q2) = Len(q) - 1
  /\ \A i \in 1 .. k - 1 : q2[i] = q[i]
  /\ \A i \in k .. Len(q) - 1 : q2[i] = q[i + 1]

LEMMA Ending ==
  ASSUME NEW q, Line(q), NEW t \in Task, t \notin Elements(q)
  PROVE  /\ Line(Append(q, t)) /\ Ended(q, t, Append(q, t))
         /\ Elements(Append(q, t)) = Elements(q) \cup {t}
<1>. DEFINE q2 == Append(q, t)
<1>1. q \in Seq(Task) /\ Len(q) \in Nat
  BY SeqPlaces DEF Line
<1>2. /\ q2 \in Seq(Task) /\ Len(q2) = Len(q) + 1 /\ q2[Len(q) + 1] = t
      /\ \A i \in 1 .. Len(q) : q2[i] = q[i]
  BY <1>1, AppendProperties
<1>. HIDE DEF q2
<1>3. ASSUME NEW i \in 1 .. Len(q2), NEW j \in 1 .. Len(q2), q2[i] = q2[j]
      PROVE  i = j
  <2>1. \A m \in 1 .. Len(q2) : m = Len(q) + 1 \/ (m \in 1 .. Len(q) /\ q2[m] = q[m] /\ q2[m] # t)
    BY <1>1, <1>2 DEF Elements
  <2>. QED
    BY <1>2, <1>3, <2>1 DEF Line
<1>4. Elements(q2) = Elements(q) \cup {t}
  <2>1. ASSUME NEW x \in Elements(q2) PROVE x \in Elements(q) \cup {t}
    <3>1. PICK m \in 1 .. Len(q2) : q2[m] = x
      BY DEF Elements
    <3>2. m = Len(q) + 1 \/ m \in 1 .. Len(q)
      BY <1>1, <1>2
    <3>. QED
      BY <1>2, <3>1, <3>2 DEF Elements
  <2>2. ASSUME NEW x \in Elements(q) \cup {t} PROVE x \in Elements(q2)
    <3>1. Len(q) + 1 \in 1 .. Len(q2) /\ \A m \in 1 .. Len(q) : m \in 1 .. Len(q2)
      BY <1>1, <1>2
    <3>. QED
      BY <1>2, <3>1 DEF Elements
  <2>. QED
    BY <2>1, <2>2
<1>. QED
  BY <1>2, <1>3, <1>4 DEF Line, Ended, q2

LEMMA Fronting ==
  ASSUME NEW q, Line(q), NEW t \in Task, t \notin Elements(q)
  PROVE  /\ Line(<<t>> \o q) /\ Fronted(q, t, <<t>> \o q)
         /\ Elements(<<t>> \o q) = Elements(q) \cup {t}
<1>. DEFINE q2 == <<t>> \o q
<1>1. q \in Seq(Task) /\ Len(q) \in Nat
  BY SeqPlaces DEF Line
<1>2. <<t>> \in Seq(Task) /\ Len(<<t>>) = 1 /\ <<t>>[1] = t
  OBVIOUS
<1>3. /\ q2 \in Seq(Task) /\ Len(q2) = 1 + Len(q)
      /\ \A i \in 1 .. 1 + Len(q) : q2[i] = IF i <= 1 THEN <<t>>[i] ELSE q[i - 1]
  BY <1>1, <1>2, ConcatProperties
<1>. HIDE DEF q2
<1>4. q2[1] = t /\ \A i \in 1 .. Len(q) : q2[i + 1] = q[i]
  BY <1>1, <1>2, <1>3
<1>5. Len(q2) = Len(q) + 1
  BY <1>1, <1>3
<1>6. \A m \in 1 .. Len(q2) : m = 1 \/ (m - 1 \in 1 .. Len(q) /\ q2[m] = q[m - 1] /\ q2[m] # t)
  BY <1>1, <1>3, <1>5 DEF Elements
<1>7. ASSUME NEW i \in 1 .. Len(q2), NEW j \in 1 .. Len(q2), q2[i] = q2[j]
      PROVE  i = j
  <2>1. CASE i = 1 \/ j = 1
    BY <1>4, <1>6, <1>7, <2>1
  <2>2. CASE i # 1 /\ j # 1
    <3>1. i - 1 = j - 1
      BY <1>6, <1>7, <2>2 DEF Line
    <3>. QED
      BY <1>1, <1>5, <3>1
  <2>. QED
    BY <2>1, <2>2
<1>8. Elements(q2) = Elements(q) \cup {t}
  <2>1. ASSUME NEW x \in Elements(q2) PROVE x \in Elements(q) \cup {t}
    <3>1. PICK m \in 1 .. Len(q2) : q2[m] = x
      BY DEF Elements
    <3>. QED
      BY <1>4, <1>6, <3>1 DEF Elements
  <2>2. ASSUME NEW x \in Elements(q) \cup {t} PROVE x \in Elements(q2)
    <3>1. 1 \in 1 .. Len(q2) /\ \A m \in 1 .. Len(q) : m + 1 \in 1 .. Len(q2)
      BY <1>1, <1>5
    <3>. QED
      BY <1>4, <3>1 DEF Elements
  <2>. QED
    BY <2>1, <2>2
<1>. QED
  BY <1>3, <1>4, <1>5, <1>7, <1>8 DEF Line, Fronted, q2

LEMMA RemovedIs ==
  ASSUME NEW q, Line(q), NEW k, NEW q2 \in Seq(Task), Removed(q, k, q2)
  PROVE  Line(q2) /\ Elements(q2) = Elements(q) \ {q[k]}
<1>1. Len(q) \in Nat /\ k \in 1 .. Len(q) /\ Len(q2) = Len(q) - 1
  BY SeqPlaces DEF Line, Removed
<1>. DEFINE from(i) == IF i < k THEN i ELSE i + 1
<1>2. \A i \in 1 .. Len(q2) : from(i) \in 1 .. Len(q) /\ from(i) # k /\ q2[i] = q[from(i)]
  BY <1>1 DEF Removed
<1>3. \A i, j \in 1 .. Len(q2) : from(i) = from(j) => i = j
  BY <1>1
<1>4. \A m \in 1 .. Len(q) : m # k => \E i \in 1 .. Len(q2) : from(i) = m
  <2>1. SUFFICES ASSUME NEW m \in 1 .. Len(q), m # k PROVE \E i \in 1 .. Len(q2) : from(i) = m
    OBVIOUS
  <2>2. CASE m < k
    BY <1>1, <2>2
  <2>3. CASE m > k
    <3>1. m - 1 \in 1 .. Len(q2) /\ from(m - 1) = m
      BY <1>1, <2>3
    <3>. QED
      BY <3>1
  <2>. QED
    BY <1>1, <2>1, <2>2, <2>3
<1>. HIDE DEF from
<1>5. Line(q2)
  BY <1>2, <1>3 DEF Line
<1>6. Elements(q2) = Elements(q) \ {q[k]}
  <2>1. ASSUME NEW x \in Elements(q2) PROVE x \in Elements(q) \ {q[k]}
    <3>1. PICK i \in 1 .. Len(q2) : q2[i] = x
      BY DEF Elements
    <3>2. q[from(i)] # q[k]
      BY <1>1, <1>2 DEF Line
    <3>. QED
      BY <1>2, <3>1, <3>2 DEF Elements
  <2>2. ASSUME NEW x \in Elements(q) \ {q[k]} PROVE x \in Elements(q2)
    <3>1. PICK m \in 1 .. Len(q) : q[m] = x /\ m # k
      BY DEF Elements
    <3>2. PICK i \in 1 .. Len(q2) : from(i) = m
      BY <1>4, <3>1
    <3>. QED
      BY <1>2, <3>1, <3>2 DEF Elements
  <2>. QED
    BY <2>1, <2>2
<1>. QED
  BY <1>5, <1>6

LEMMA Removing ==
  ASSUME NEW q, Line(q), NEW k \in 1 .. Len(q)
  PROVE  \E q2 : /\ Line(q2) /\ Removed(q, k, q2)
                 /\ Elements(q2) = Elements(q) \ {q[k]}
<1>1. Len(q) \in Nat /\ \A i \in 1 .. Len(q) : q[i] \in Task
  BY SeqPlaces DEF Line
<1>. DEFINE n == Len(q) - 1
            q2 == [i \in 1 .. n |-> IF i < k THEN q[i] ELSE q[i + 1]]
<1>2. n \in Nat
  BY <1>1
<1>3. \A i \in 1 .. n : i \in 1 .. Len(q) /\ i + 1 \in 1 .. Len(q)
  BY <1>1
<1>4. q2 \in [1 .. n -> Task]
  BY <1>1, <1>3
<1>5. q2 \in Seq(Task)
  <2>. HIDE DEF q2, n
  <2>. QED
    BY <1>2, <1>4, SeqDef
<1>6. Len(q2) = n
  <2>1. DOMAIN q2 = 1 .. n
    OBVIOUS
  <2>. HIDE DEF q2, n
  <2>2. DOMAIN q2 = 1 .. Len(q2) /\ Len(q2) \in Nat
    BY <1>5, SeqPlaces
  <2>. QED
    BY <1>2, <2>1, <2>2
<1>7. Removed(q, k, q2)
  <2>1. \A i \in 1 .. k - 1 : i \in 1 .. n /\ i < k
    BY <1>1
  <2>2. \A i \in k .. Len(q) - 1 : i \in 1 .. n /\ ~ (i < k)
    BY <1>1
  <2>3. \A i \in 1 .. n : q2[i] = IF i < k THEN q[i] ELSE q[i + 1]
    OBVIOUS
  <2>. HIDE DEF q2
  <2>. QED
    BY <1>6, <2>1, <2>2, <2>3 DEF Removed
<1>. HIDE DEF q2
<1>. QED
  BY <1>5, <1>7, RemovedIs

LEMMA Tailing ==
  ASSUME NEW q, Line(q), q # <<>>
  PROVE  /\ Line(Tail(q)) /\ Removed(q, 1, Tail(q)) /\ Head(q) = q[1]
         /\ Elements(Tail(q)) = Elements(q) \ {q[1]}
<1>1. q \in Seq(Task) /\ Len(q) \in Nat /\ Len(q) # 0
  BY SeqPlaces, EmptySeq DEF Line
<1>. DEFINE q2 == Tail(q)
<1>2. /\ q2 \in Seq(Task) /\ Len(q2) = Len(q) - 1
      /\ \A i \in 1 .. Len(q2) : q2[i] = q[i + 1]
  BY <1>1, HeadTailProperties
<1>3. Head(q) = q[1]
  BY <1>1
<1>. HIDE DEF q2
<1>4. Removed(q, 1, q2)
  BY <1>1, <1>2 DEF Removed
<1>5. Line(q2) /\ Elements(q2) = Elements(q) \ {q[1]}
  BY <1>2, <1>4, RemovedIs
<1>. QED
  BY <1>3, <1>4, <1>5 DEF q2
-----------------------------------------------------------------------------
(* What that does to a walk.                                               *)

LEMMA SpellsEnded ==
  ASSUME NEW q, Line(q), NEW t \in Task, NEW q2, Ended(q, t, q2),
         NEW start, NEW field, Spells(q, start, field),
         NEW start2, NEW field2, field2[t] = Null,
         start2 = IF Len(q) = 0 THEN t ELSE start,
         Len(q) > 0 => field2[q[Len(q)]] = t,
         \A i \in 1 .. Len(q) - 1 : field2[q[i]] = field[q[i]]
  PROVE  Spells(q2, start2, field2)
<1>1. Len(q) \in Nat /\ Len(q2) = Len(q) + 1
  BY SeqPlaces DEF Line, Ended
<1>2. start2 = q2[1] /\ field2[q2[Len(q2)]] = Null
  BY <1>1 DEF Ended, Spells
<1>3. ASSUME NEW i \in 1 .. Len(q2) - 1
      PROVE  field2[q2[i]] = q2[i + 1]
  <2>1. CASE i = Len(q)
    BY <1>1, <2>1 DEF Ended
  <2>2. CASE i \in 1 .. Len(q) - 1
    <3>1. q2[i] = q[i] /\ q2[i + 1] = q[i + 1]
      BY <1>1, <2>2 DEF Ended
    <3>. QED
      BY <2>2, <3>1 DEF Spells
  <2>. QED
    BY <1>1, <2>1, <2>2
<1>. QED
  BY <1>1, <1>2, <1>3 DEF Spells

LEMMA SpellsFronted ==
  ASSUME NEW q, Line(q), NEW t \in Task, NEW q2, Fronted(q, t, q2),
         NEW start, NEW field, Spells(q, start, field),
         NEW field2, field2[t] = start,
         \A i \in 1 .. Len(q) : field2[q[i]] = field[q[i]]
  PROVE  Spells(q2, t, field2)
<1>1. Len(q) \in Nat /\ Len(q2) = Len(q) + 1
  BY SeqPlaces DEF Line, Fronted
<1>2. field2[q2[Len(q2)]] = Null
  BY <1>1 DEF Fronted, Spells
<1>3. ASSUME NEW i \in 1 .. Len(q2) - 1
      PROVE  field2[q2[i]] = q2[i + 1]
  <2>1. CASE i = 1
    BY <1>1, <2>1 DEF Fronted, Spells
  <2>2. CASE i # 1
    <3>1. i - 1 \in 1 .. Len(q) - 1 /\ i - 1 \in 1 .. Len(q) /\ (i - 1) + 1 = i /\ i \in 1 .. Len(q)
      BY <1>1, <2>2
    <3>2. q2[i] = q[i - 1] /\ q2[i + 1] = q[i]
      BY <3>1 DEF Fronted
    <3>. QED
      BY <3>1, <3>2 DEF Spells
  <2>. QED
    BY <2>1, <2>2
<1>. QED
  BY <1>1, <1>2, <1>3 DEF Spells, Fronted

LEMMA SpellsRemoved ==
  ASSUME NEW q, Line(q), NEW k, NEW q2, Removed(q, k, q2),
         NEW start, NEW field, Spells(q, start, field),
         NEW start2, NEW field2,
         start2 = IF k = 1 THEN field[start] ELSE start,
         k > 1 => field2[q[k - 1]] = field[q[k]],
         \A i \in 1 .. Len(q) : i # k /\ i # k - 1 => field2[q[i]] = field[q[i]]
  PROVE  Spells(q2, start2, field2)
<1>1. Len(q) \in Nat /\ Len(q2) = Len(q) - 1 /\ k \in 1 .. Len(q)
  BY SeqPlaces DEF Line, Removed
<1>2. start = q[1] /\ field[q[Len(q)]] = Null
  BY <1>1 DEF Spells
<1>3. CASE Len(q) = 1
  BY <1>1, <1>2, <1>3 DEF Spells
<1>4. CASE Len(q) > 1
  <2>1. start2 = q2[1]
    <3>1. CASE k = 1
      BY <1>1, <1>2, <1>4, <3>1 DEF Removed, Spells
    <3>2. CASE k > 1
      BY <1>1, <1>2, <1>4, <3>2 DEF Removed, Spells
    <3>. QED
      BY <1>1, <3>1, <3>2
  <2>2. field2[q2[Len(q2)]] = Null
    <3>1. CASE k = Len(q)
      <4>1. q2[Len(q2)] = q[k - 1]
        BY <1>1, <1>4, <3>1 DEF Removed
      <4>. QED
        BY <1>1, <1>2, <1>4, <3>1, <4>1
    <3>2. CASE k < Len(q)
      <4>1. q2[Len(q2)] = q[Len(q)]
        BY <1>1, <1>4, <3>2 DEF Removed
      <4>. QED
        BY <1>1, <1>2, <3>2, <4>1
    <3>. QED
      BY <1>1, <3>1, <3>2
  <2>3. ASSUME NEW i \in 1 .. Len(q2) - 1
        PROVE  field2[q2[i]] = q2[i + 1]
    <3>1. CASE i + 1 < k
      <4>0. i \in 1 .. k - 1 /\ i + 1 \in 1 .. k - 1
        BY <1>1, <3>1
      <4>1. q2[i] = q[i] /\ q2[i + 1] = q[i + 1]
        BY <4>0 DEF Removed
      <4>2. i \in 1 .. Len(q) - 1 /\ i \in 1 .. Len(q) /\ i # k /\ i # k - 1
        BY <1>1, <3>1, <4>0
      <4>3. field2[q[i]] = field[q[i]]
        BY <4>2
      <4>4. field[q[i]] = q[i + 1]
        BY <4>2 DEF Spells
      <4>. QED
        BY <4>1, <4>3, <4>4
    <3>2. CASE i + 1 = k
      <4>1. q2[i] = q[k - 1] /\ q2[i + 1] = q[k + 1] /\ k \in 1 .. Len(q) - 1
        BY <1>1, <3>2 DEF Removed
      <4>. QED
        BY <1>1, <3>2, <4>1 DEF Spells
    <3>3. CASE i >= k
      <4>1. /\ q2[i] = q[i + 1] /\ q2[i + 1] = q[i + 1 + 1] /\ i + 1 \in 1 .. Len(q) - 1
            /\ i + 1 \in 1 .. Len(q)
        BY <1>1, <3>3 DEF Removed
      <4>. QED
        BY <1>1, <3>3, <4>1 DEF Spells
    <3>. QED
      BY <1>1, <3>1, <3>2, <3>3
  <2>. QED
    BY <1>1, <1>4, <2>1, <2>2, <2>3 DEF Spells
<1>. QED
  BY <1>1, <1>3, <1>4
-----------------------------------------------------------------------------
(* What it does to the tasks of one kind.                                  *)

LEMMA KeptSame ==
  ASSUME NEW q, NEW l, NEW T, NEW T2, Kept(l, q, T),
         \A x \in Elements(q) : x \in T <=> x \in T2
  PROVE  Kept(l, q, T2)
<1>1. PICK at : Places(at, l, q, T)
  BY DEF Kept
<1>2. \A i \in 1 .. Len(q) : q[i] \in T <=> q[i] \in T2
  BY DEF Elements
<1>3. Places(at, l, q, T2)
  BY <1>1, <1>2 DEF Places
<1>. QED
  BY <1>3 DEF Kept

LEMMA KeptElements ==
  ASSUME NEW q, NEW l, NEW T, Kept(l, q, T)
  PROVE  Elements(l) = Elements(q) \cap T
<1>1. PICK at : Places(at, l, q, T)
  BY DEF Kept
<1>2. ASSUME NEW x \in Elements(l) PROVE x \in Elements(q) \cap T
  <2>1. PICK k \in 1 .. Len(l) : l[k] = x
    BY DEF Elements
  <2>2. at[k] \in 1 .. Len(q) /\ q[at[k]] = x /\ x \in T
    BY <1>1, <2>1 DEF Places
  <2>. QED
    BY <2>2 DEF Elements
<1>3. ASSUME NEW x \in Elements(q) \cap T PROVE x \in Elements(l)
  <2>1. PICK i \in 1 .. Len(q) : q[i] = x
    BY DEF Elements
  <2>2. PICK k \in 1 .. Len(l) : at[k] = i
    BY <1>1, <2>1 DEF Places
  <2>3. l[k] = x
    BY <1>1, <2>1, <2>2 DEF Places
  <2>. QED
    BY <2>3 DEF Elements
<1>. QED
  BY <1>2, <1>3

LEMMA KeptEnded ==
  ASSUME NEW q, Line(q), NEW l, Line(l), NEW T, Kept(l, q, T), NEW t \in T,
         NEW q2, Ended(q, t, q2), NEW l2, Ended(l, t, l2)
  PROVE  Kept(l2, q2, T)
<1>1. PICK at : Places(at, l, q, T)
  BY DEF Kept
<1>2. Len(q) \in Nat /\ Len(l) \in Nat
  BY SeqPlaces DEF Line
<1>3. /\ at \in [1 .. Len(l) -> 1 .. Len(q)]
      /\ \A k, m \in 1 .. Len(l) : k < m => at[k] < at[m]
      /\ \A k \in 1 .. Len(l) : l[k] = q[at[k]] /\ l[k] \in T
      /\ \A i \in 1 .. Len(q) : q[i] \in T => \E k \in 1 .. Len(l) : at[k] = i
  BY <1>1 DEF Places
<1>4. /\ Len(q2) = Len(q) + 1 /\ q2[Len(q) + 1] = t
      /\ \A i \in 1 .. Len(q) : q2[i] = q[i]
      /\ Len(l2) = Len(l) + 1 /\ l2[Len(l) + 1] = t
      /\ \A i \in 1 .. Len(l) : l2[i] = l[i]
  BY DEF Ended
<1>. DEFINE at2 == [k \in 1 .. Len(l2) |-> IF k <= Len(l) THEN at[k] ELSE Len(q) + 1]
<1>5. ASSUME NEW k \in 1 .. Len(l2)
      PROVE  \/ k \in 1 .. Len(l) /\ at2[k] = at[k] /\ at2[k] \in 1 .. Len(q)
             \/ k = Len(l) + 1 /\ at2[k] = Len(q) + 1
  <2>1. CASE k <= Len(l)
    <3>1. k \in 1 .. Len(l) /\ at2[k] = at[k]
      BY <1>2, <1>4, <2>1
    <3>2. at[k] \in 1 .. Len(q)
      BY <1>3, <3>1
    <3>. QED
      BY <3>1, <3>2
  <2>2. CASE ~ (k <= Len(l))
    BY <1>2, <1>4, <2>2
  <2>. QED
    BY <2>1, <2>2
<1>6. at2 \in [1 .. Len(l2) -> 1 .. Len(q2)]
  BY <1>2, <1>4, <1>5
<1>. HIDE DEF at2
<1>7. ASSUME NEW k \in 1 .. Len(l2), NEW m \in 1 .. Len(l2), k < m
      PROVE  at2[k] < at2[m]
  <2>1. k \in 1 .. Len(l) /\ at2[k] = at[k] /\ at[k] \in 1 .. Len(q)
    BY <1>2, <1>4, <1>5, <1>7
  <2>2. CASE m \in 1 .. Len(l) /\ at2[m] = at[m]
    BY <1>3, <1>7, <2>1, <2>2
  <2>3. CASE m = Len(l) + 1 /\ at2[m] = Len(q) + 1
    BY <1>2, <2>1, <2>3
  <2>. QED
    BY <1>5, <2>2, <2>3
<1>8. ASSUME NEW k \in 1 .. Len(l2)
      PROVE  l2[k] = q2[at2[k]] /\ l2[k] \in T
  <2>1. CASE k \in 1 .. Len(l) /\ at2[k] = at[k] /\ at2[k] \in 1 .. Len(q)
    <3>1. l2[k] = l[k] /\ q2[at[k]] = q[at[k]]
      BY <1>4, <2>1
    <3>. QED
      BY <1>3, <2>1, <3>1
  <2>2. CASE k = Len(l) + 1 /\ at2[k] = Len(q) + 1
    BY <1>4, <2>2
  <2>. QED
    BY <1>5, <2>1, <2>2
<1>9. ASSUME NEW i \in 1 .. Len(q2), q2[i] \in T
      PROVE  \E k \in 1 .. Len(l2) : at2[k] = i
  <2>1. CASE i = Len(q) + 1
    <3>1. Len(l) + 1 \in 1 .. Len(l2) /\ ~ (Len(l) + 1 \in 1 .. Len(l))
      BY <1>2, <1>4
    <3>. QED
      BY <1>5, <2>1, <3>1
  <2>2. CASE i \in 1 .. Len(q)
    <3>1. PICK k \in 1 .. Len(l) : at[k] = i
      BY <1>3, <1>4, <1>9, <2>2
    <3>2. k \in 1 .. Len(l2) /\ k # Len(l) + 1
      BY <1>2, <1>4
    <3>. QED
      BY <1>5, <3>1, <3>2
  <2>. QED
    BY <1>2, <1>4, <2>1, <2>2
<1>. QED
  BY <1>6, <1>7, <1>8, <1>9 DEF Places, Kept

LEMMA KeptEndedOut ==
  ASSUME NEW q, Line(q), NEW l, Line(l), NEW T, Kept(l, q, T), NEW t, t \notin T,
         NEW q2, Ended(q, t, q2)
  PROVE  Kept(l, q2, T)
<1>1. PICK at : Places(at, l, q, T)
  BY DEF Kept
<1>2. Len(q) \in Nat /\ Len(l) \in Nat
  BY SeqPlaces DEF Line
<1>3. Places(at, l, q2, T)
  BY <1>1, <1>2 DEF Places, Ended
<1>. QED
  BY <1>3 DEF Kept

LEMMA KeptFronted ==
  ASSUME NEW q, Line(q), NEW l, Line(l), NEW T, Kept(l, q, T), NEW t \in T,
         NEW q2, Fronted(q, t, q2), NEW l2, Fronted(l, t, l2)
  PROVE  Kept(l2, q2, T)
<1>1. PICK at : Places(at, l, q, T)
  BY DEF Kept
<1>2. Len(q) \in Nat /\ Len(l) \in Nat
  BY SeqPlaces DEF Line
<1>3. /\ at \in [1 .. Len(l) -> 1 .. Len(q)]
      /\ \A k, m \in 1 .. Len(l) : k < m => at[k] < at[m]
      /\ \A k \in 1 .. Len(l) : l[k] = q[at[k]] /\ l[k] \in T
      /\ \A i \in 1 .. Len(q) : q[i] \in T => \E k \in 1 .. Len(l) : at[k] = i
  BY <1>1 DEF Places
<1>4. /\ Len(q2) = Len(q) + 1 /\ q2[1] = t
      /\ \A i \in 1 .. Len(q) : q2[i + 1] = q[i]
      /\ Len(l2) = Len(l) + 1 /\ l2[1] = t
      /\ \A i \in 1 .. Len(l) : l2[i + 1] = l[i]
  BY DEF Fronted
<1>. DEFINE at2 == [k \in 1 .. Len(l2) |-> IF k = 1 THEN 1 ELSE at[k - 1] + 1]
<1>5. ASSUME NEW k \in 1 .. Len(l2)
      PROVE  \/ k = 1 /\ at2[k] = 1
             \/ /\ k - 1 \in 1 .. Len(l) /\ at2[k] = at[k - 1] + 1 /\ at[k - 1] \in 1 .. Len(q)
                /\ l2[k] = l[k - 1]
  <2>1. CASE k # 1
    <3>1. k - 1 \in 1 .. Len(l) /\ (k - 1) + 1 = k
      BY <1>2, <1>4, <2>1
    <3>2. l2[k] = l[k - 1] /\ at[k - 1] \in 1 .. Len(q)
      BY <1>3, <1>4, <3>1
    <3>. QED
      BY <2>1, <3>1, <3>2
  <2>. QED
    BY <2>1
<1>6. at2 \in [1 .. Len(l2) -> 1 .. Len(q2)]
  <2>1. \A k \in 1 .. Len(l2) : at2[k] \in 1 .. Len(q2)
    BY <1>2, <1>4, <1>5
  <2>. QED
    BY <2>1
<1>. HIDE DEF at2
<1>7. ASSUME NEW k \in 1 .. Len(l2), NEW m \in 1 .. Len(l2), k < m
      PROVE  at2[k] < at2[m]
  <2>1. m - 1 \in 1 .. Len(l) /\ at2[m] = at[m - 1] + 1 /\ at[m - 1] \in 1 .. Len(q)
    BY <1>2, <1>4, <1>5, <1>7
  <2>2. CASE k = 1
    BY <1>2, <1>5, <2>1, <2>2
  <2>3. CASE k # 1
    <3>1. k - 1 \in 1 .. Len(l) /\ at2[k] = at[k - 1] + 1 /\ at[k - 1] \in 1 .. Len(q)
      BY <1>5, <2>3
    <3>2. k - 1 < m - 1
      BY <1>2, <1>4, <1>7
    <3>3. at[k - 1] < at[m - 1]
      BY <1>3, <2>1, <3>1, <3>2
    <3>. QED
      BY <1>2, <2>1, <3>1, <3>3
  <2>. QED
    BY <2>2, <2>3
<1>8. ASSUME NEW k \in 1 .. Len(l2)
      PROVE  l2[k] = q2[at2[k]] /\ l2[k] \in T
  <2>1. CASE k = 1
    BY <1>4, <1>5, <2>1
  <2>2. CASE k # 1
    <3>1. /\ k - 1 \in 1 .. Len(l) /\ at2[k] = at[k - 1] + 1 /\ at[k - 1] \in 1 .. Len(q)
          /\ l2[k] = l[k - 1]
      BY <1>5, <2>2
    <3>2. l[k - 1] = q[at[k - 1]] /\ l[k - 1] \in T
      BY <1>3, <3>1
    <3>3. q2[at[k - 1] + 1] = q[at[k - 1]]
      BY <1>4, <3>1
    <3>. QED
      BY <3>1, <3>2, <3>3
  <2>. QED
    BY <2>1, <2>2
<1>9. ASSUME NEW i \in 1 .. Len(q2), q2[i] \in T
      PROVE  \E k \in 1 .. Len(l2) : at2[k] = i
  <2>1. CASE i = 1
    <3>1. 1 \in 1 .. Len(l2) /\ ~ (1 - 1 \in 1 .. Len(l))
      BY <1>2, <1>4
    <3>. QED
      BY <1>5, <2>1, <3>1
  <2>2. CASE i # 1
    <3>1. i - 1 \in 1 .. Len(q) /\ (i - 1) + 1 = i
      BY <1>2, <1>4, <2>2
    <3>2. q[i - 1] \in T
      BY <1>4, <1>9, <3>1
    <3>3. PICK k \in 1 .. Len(l) : at[k] = i - 1
      BY <1>3, <3>1, <3>2
    <3>4. k + 1 \in 1 .. Len(l2) /\ (k + 1) - 1 = k /\ k + 1 # 1
      BY <1>2, <1>4
    <3>5. at2[k + 1] = at[k] + 1
      BY <1>5, <3>4
    <3>. QED
      BY <3>1, <3>3, <3>4, <3>5
  <2>. QED
    BY <2>1, <2>2
<1>. QED
  BY <1>6, <1>7, <1>8, <1>9 DEF Places, Kept

LEMMA KeptFrontedOut ==
  ASSUME NEW q, Line(q), NEW l, Line(l), NEW T, Kept(l, q, T), NEW t, t \notin T,
         NEW q2, Fronted(q, t, q2)
  PROVE  Kept(l, q2, T)
<1>1. PICK at : Places(at, l, q, T)
  BY DEF Kept
<1>2. Len(q) \in Nat /\ Len(l) \in Nat
  BY SeqPlaces DEF Line
<1>3. /\ at \in [1 .. Len(l) -> 1 .. Len(q)]
      /\ \A k, m \in 1 .. Len(l) : k < m => at[k] < at[m]
      /\ \A k \in 1 .. Len(l) : l[k] = q[at[k]] /\ l[k] \in T
      /\ \A i \in 1 .. Len(q) : q[i] \in T => \E k \in 1 .. Len(l) : at[k] = i
  BY <1>1 DEF Places
<1>4. /\ Len(q2) = Len(q) + 1 /\ q2[1] = t
      /\ \A i \in 1 .. Len(q) : q2[i + 1] = q[i]
  BY DEF Fronted
<1>. DEFINE at2 == [k \in 1 .. Len(l) |-> at[k] + 1]
<1>5. \A k \in 1 .. Len(l) : at2[k] = at[k] + 1 /\ at[k] \in 1 .. Len(q)
  BY <1>3
<1>6. at2 \in [1 .. Len(l) -> 1 .. Len(q2)]
  BY <1>2, <1>4, <1>5
<1>. HIDE DEF at2
<1>7. ASSUME NEW k \in 1 .. Len(l), NEW m \in 1 .. Len(l), k < m
      PROVE  at2[k] < at2[m]
  <2>1. at[k] < at[m] /\ at[k] \in Int /\ at[m] \in Int
    BY <1>3, <1>5, <1>7
  <2>2. at2[k] = at[k] + 1 /\ at2[m] = at[m] + 1
    BY <1>5
  <2>. QED
    BY <2>1, <2>2
<1>8. ASSUME NEW k \in 1 .. Len(l)
      PROVE  l[k] = q2[at2[k]] /\ l[k] \in T
  <2>1. at2[k] = at[k] + 1 /\ at[k] \in 1 .. Len(q)
    BY <1>5
  <2>2. l[k] = q[at[k]] /\ l[k] \in T
    BY <1>3
  <2>3. q2[at[k] + 1] = q[at[k]]
    BY <1>4, <2>1
  <2>. QED
    BY <2>1, <2>2, <2>3
<1>9. ASSUME NEW i \in 1 .. Len(q2), q2[i] \in T
      PROVE  \E k \in 1 .. Len(l) : at2[k] = i
  <2>1. i - 1 \in 1 .. Len(q) /\ (i - 1) + 1 = i
    BY <1>2, <1>4, <1>9
  <2>2. q[i - 1] \in T
    BY <1>4, <1>9, <2>1
  <2>3. PICK k \in 1 .. Len(l) : at[k] = i - 1
    BY <1>3, <2>1, <2>2
  <2>. QED
    BY <1>5, <2>1, <2>3
<1>. QED
  BY <1>6, <1>7, <1>8, <1>9 DEF Places, Kept

LEMMA KeptRemovedOut ==
  ASSUME NEW q, Line(q), NEW l, Line(l), NEW T, Kept(l, q, T),
         NEW k, NEW q2, Removed(q, k, q2), q[k] \notin T
  PROVE  Kept(l, q2, T)
<1>1. PICK at : Places(at, l, q, T)
  BY DEF Kept
<1>2. Len(q) \in Nat /\ Len(l) \in Nat /\ k \in 1 .. Len(q) /\ Len(q2) = Len(q) - 1
  BY SeqPlaces DEF Line, Removed
<1>3. /\ at \in [1 .. Len(l) -> 1 .. Len(q)]
      /\ \A m, n \in 1 .. Len(l) : m < n => at[m] < at[n]
      /\ \A m \in 1 .. Len(l) : l[m] = q[at[m]] /\ l[m] \in T
      /\ \A i \in 1 .. Len(q) : q[i] \in T => \E m \in 1 .. Len(l) : at[m] = i
  BY <1>1 DEF Places
<1>. DEFINE at2 == [m \in 1 .. Len(l) |-> IF at[m] < k THEN at[m] ELSE at[m] - 1]
<1>4. ASSUME NEW m \in 1 .. Len(l)
      PROVE  /\ at[m] \in 1 .. Len(q) /\ at[m] # k
             /\ at[m] < k => at2[m] = at[m]
             /\ at[m] > k => at2[m] = at[m] - 1
             /\ at2[m] \in 1 .. Len(q2) /\ q2[at2[m]] = l[m]
  <2>1. at[m] \in 1 .. Len(q) /\ at[m] # k
    BY <1>3
  <2>2. CASE at[m] < k
    <3>1. at2[m] = at[m] /\ at[m] \in 1 .. k - 1 /\ at[m] \in 1 .. Len(q2) /\ ~ (at[m] > k)
      BY <1>2, <2>1, <2>2
    <3>. QED
      BY <1>3, <2>1, <2>2, <3>1 DEF Removed
  <2>3. CASE at[m] > k
    <3>1. /\ at2[m] = at[m] - 1 /\ at[m] - 1 \in k .. Len(q) - 1 /\ at[m] - 1 \in 1 .. Len(q2)
          /\ ~ (at[m] < k) /\ (at[m] - 1) + 1 = at[m]
      BY <1>2, <2>1, <2>3
    <3>2. q2[at[m] - 1] = q[at[m]]
      BY <3>1 DEF Removed
    <3>. QED
      BY <1>3, <2>1, <2>3, <3>1, <3>2
  <2>. QED
    BY <1>2, <2>1, <2>2, <2>3
<1>5. at2 \in [1 .. Len(l) -> 1 .. Len(q2)]
  <2>1. \A m \in 1 .. Len(l) : at2[m] \in 1 .. Len(q2)
    BY <1>4
  <2>. QED
    BY <2>1
<1>. HIDE DEF at2
<1>6. \A m, n \in 1 .. Len(l) : m < n => at2[m] < at2[n]
  <2>1. SUFFICES ASSUME NEW m \in 1 .. Len(l), NEW n \in 1 .. Len(l), m < n
                 PROVE  at2[m] < at2[n]
    OBVIOUS
  <2>2. /\ at[m] \in 1 .. Len(q) /\ at[m] # k
        /\ at[m] < k => at2[m] = at[m]
        /\ at[m] > k => at2[m] = at[m] - 1
    BY <1>4
  <2>3. /\ at[n] \in 1 .. Len(q) /\ at[n] # k
        /\ at[n] < k => at2[n] = at[n]
        /\ at[n] > k => at2[n] = at[n] - 1
    BY <1>4
  <2>4. at[m] < at[n]
    BY <1>3, <2>1
  <2>. QED
    BY <1>2, <2>2, <2>3, <2>4
<1>7. \A m \in 1 .. Len(l) : l[m] = q2[at2[m]] /\ l[m] \in T
  BY <1>3, <1>4
<1>8. ASSUME NEW i \in 1 .. Len(q2), q2[i] \in T
      PROVE  \E m \in 1 .. Len(l) : at2[m] = i
  <2>1. CASE i < k
    <3>1. i \in 1 .. k - 1 /\ i \in 1 .. Len(q)
      BY <1>2, <2>1
    <3>2. q[i] \in T
      BY <1>8, <3>1 DEF Removed
    <3>3. PICK m \in 1 .. Len(l) : at[m] = i
      BY <1>3, <3>1, <3>2
    <3>. QED
      BY <1>4, <2>1, <3>3
  <2>2. CASE i >= k
    <3>1. i \in k .. Len(q) - 1 /\ i + 1 \in 1 .. Len(q) /\ i + 1 > k /\ (i + 1) - 1 = i
      BY <1>2, <2>2
    <3>2. q[i + 1] \in T
      BY <1>8, <3>1 DEF Removed
    <3>3. PICK m \in 1 .. Len(l) : at[m] = i + 1
      BY <1>3, <3>1, <3>2
    <3>. QED
      BY <1>4, <3>1, <3>3
  <2>. QED
    BY <1>2, <2>1, <2>2
<1>9. Places(at2, l, q2, T)
  BY <1>5, <1>6, <1>7, <1>8 DEF Places
<1>. QED
  BY <1>9 DEF Kept

LEMMA KeptRemovedFirst ==
  ASSUME NEW q, Line(q), NEW l, Line(l), NEW T, Kept(l, q, T),
         NEW k, NEW q2, Removed(q, k, q2), NEW l2, Removed(l, 1, l2), q[k] = l[1]
  PROVE  Kept(l2, q2, T)
<1>1. PICK at : Places(at, l, q, T)
  BY DEF Kept
<1>2. /\ Len(q) \in Nat /\ Len(l) \in Nat /\ k \in 1 .. Len(q) /\ Len(q2) = Len(q) - 1
      /\ Len(l2) = Len(l) - 1 /\ 1 \in 1 .. Len(l)
      /\ \A m \in 1 .. Len(l) - 1 : l2[m] = l[m + 1]
  BY SeqPlaces DEF Line, Removed
<1>3. /\ at \in [1 .. Len(l) -> 1 .. Len(q)]
      /\ \A m, n \in 1 .. Len(l) : m < n => at[m] < at[n]
      /\ \A m \in 1 .. Len(l) : l[m] = q[at[m]] /\ l[m] \in T
      /\ \A i \in 1 .. Len(q) : q[i] \in T => \E m \in 1 .. Len(l) : at[m] = i
  BY <1>1 DEF Places
<1>4. at[1] = k
  <2>1. at[1] \in 1 .. Len(q) /\ q[at[1]] = q[k]
    BY <1>2, <1>3
  <2>. QED
    BY <1>2, <2>1 DEF Line
<1>. DEFINE at2 == [m \in 1 .. Len(l2) |-> at[m + 1] - 1]
<1>5. ASSUME NEW m \in 1 .. Len(l2)
      PROVE  /\ m + 1 \in 1 .. Len(l) /\ at[m + 1] \in 1 .. Len(q) /\ at2[m] = at[m + 1] - 1
             /\ at2[m] \in 1 .. Len(q2) /\ q2[at2[m]] = l2[m] /\ l2[m] \in T
  <2>1. m + 1 \in 1 .. Len(l) /\ 1 < m + 1 /\ l2[m] = l[m + 1]
    BY <1>2
  <2>2. at[m + 1] \in 1 .. Len(q) /\ k < at[m + 1]
    BY <1>2, <1>3, <1>4, <2>1
  <2>3. /\ at[m + 1] - 1 \in k .. Len(q) - 1 /\ at[m + 1] - 1 \in 1 .. Len(q2)
        /\ (at[m + 1] - 1) + 1 = at[m + 1]
    BY <1>2, <2>2
  <2>4. q2[at[m + 1] - 1] = q[at[m + 1]]
    BY <2>3 DEF Removed
  <2>5. at2[m] = at[m + 1] - 1
    OBVIOUS
  <2>. QED
    BY <1>3, <2>1, <2>2, <2>3, <2>4, <2>5
<1>6. at2 \in [1 .. Len(l2) -> 1 .. Len(q2)]
  <2>1. \A m \in 1 .. Len(l2) : at2[m] \in 1 .. Len(q2)
    BY <1>5
  <2>. QED
    BY <2>1
<1>. HIDE DEF at2
<1>7. \A m, n \in 1 .. Len(l2) : m < n => at2[m] < at2[n]
  <2>1. SUFFICES ASSUME NEW m \in 1 .. Len(l2), NEW n \in 1 .. Len(l2), m < n
                 PROVE  at2[m] < at2[n]
    OBVIOUS
  <2>2. m + 1 \in 1 .. Len(l) /\ at[m + 1] \in 1 .. Len(q) /\ at2[m] = at[m + 1] - 1
    BY <1>5
  <2>3. n + 1 \in 1 .. Len(l) /\ at[n + 1] \in 1 .. Len(q) /\ at2[n] = at[n + 1] - 1
    BY <1>5
  <2>4. m + 1 < n + 1
    BY <1>2, <2>1
  <2>5. at[m + 1] < at[n + 1]
    BY <1>3, <2>2, <2>3, <2>4
  <2>6. at[m + 1] \in Int /\ at[n + 1] \in Int
    BY <1>2, <2>2, <2>3
  <2>. QED
    BY <2>2, <2>3, <2>5, <2>6
<1>8. \A m \in 1 .. Len(l2) : l2[m] = q2[at2[m]] /\ l2[m] \in T
  BY <1>5
<1>9. ASSUME NEW i \in 1 .. Len(q2), q2[i] \in T
      PROVE  \E m \in 1 .. Len(l2) : at2[m] = i
  <2>1. CASE i < k
    <3>1. i \in 1 .. k - 1 /\ i \in 1 .. Len(q)
      BY <1>2, <2>1
    <3>2. q[i] \in T
      BY <1>9, <3>1 DEF Removed
    <3>3. PICK m \in 1 .. Len(l) : at[m] = i
      BY <1>3, <3>1, <3>2
    <3>4. m = 1 \/ at[1] < at[m]
      BY <1>2, <1>3
    <3>. QED
      BY <1>2, <1>4, <2>1, <3>1, <3>3, <3>4
  <2>2. CASE i >= k
    <3>1. i \in k .. Len(q) - 1 /\ i + 1 \in 1 .. Len(q) /\ i + 1 > k /\ (i + 1) - 1 = i
      BY <1>2, <2>2
    <3>2. q[i + 1] \in T
      BY <1>9, <3>1 DEF Removed
    <3>3. PICK m \in 1 .. Len(l) : at[m] = i + 1
      BY <1>3, <3>1, <3>2
    <3>4. m # 1
      BY <1>2, <1>4, <3>1, <3>3
    <3>5. m - 1 \in 1 .. Len(l2) /\ (m - 1) + 1 = m
      BY <1>2, <3>4
    <3>6. at2[m - 1] = at[m] - 1
      BY <1>5, <3>5
    <3>. QED
      BY <3>1, <3>3, <3>5, <3>6
  <2>. QED
    BY <1>2, <2>1, <2>2
<1>10. Places(at2, l2, q2, T)
  BY <1>6, <1>7, <1>8, <1>9 DEF Places
<1>. QED
  BY <1>10 DEF Kept
-----------------------------------------------------------------------------
(* The two lists of task_queue.c.                                          *)

End(s) == IF Len(s) = 0 THEN Null ELSE s[Len(s)]

(* next leads back from every task of q to the one before it.              *)
Back(q, field) == \A i \in 2 .. Len(q) : field[q[i]] = q[i - 1]

(* q is the queue, c its control tasks and l the others, oldest first.     *)
Lists(q, c, l) ==
  /\ Line(q) /\ Line(c) /\ Line(l)
  /\ Elements(q) \subseteq live
  /\ got # Null => got \in live
  /\ got \notin Elements(q)
  /\ Spells(q, task_end, prev) /\ task_q = End(q) /\ Back(q, next)
  /\ Spells(c, sub_end, prev_control) /\ sub_q = End(c)
  /\ Kept(c, q, control) /\ Kept(l, q, Task \ control)
  /\ idle /\ Len(q) > 0 => next[q[1]] = Null

Safe ==
  /\ next \in Fields /\ prev \in Fields /\ prev_control \in Fields
  /\ control \subseteq Task /\ live \subseteq Task /\ got \in Pointers
  /\ idle \in BOOLEAN /\ closed \in BOOLEAN
  /\ idle => got = Null

Inv == Safe /\ (~ closed => \E q, c, l : Lists(q, c, l))

LEMMA ListsAre ==
  ASSUME NEW q, NEW c, NEW l, Lists(q, c, l)
  PROVE  /\ Len(q) \in Nat /\ Len(c) \in Nat /\ Len(l) \in Nat
         /\ \A i \in 1 .. Len(q) : q[i] \in Task /\ q[i] # Null
         /\ \A i \in 1 .. Len(c) : c[i] \in Task /\ c[i] # Null
         /\ Len(q) = 0 => task_end = Null /\ task_q = Null
         /\ Len(q) > 0 => task_end = q[1] /\ task_q = q[Len(q)] /\ prev[q[Len(q)]] = Null
         /\ \A i \in 1 .. Len(q) - 1 : prev[q[i]] = q[i + 1]
         /\ \A i \in 2 .. Len(q) : next[q[i]] = q[i - 1]
         /\ Len(c) = 0 => sub_end = Null /\ sub_q = Null
         /\ Len(c) > 0 => sub_end = c[1] /\ sub_q = c[Len(c)] /\ prev_control[c[Len(c)]] = Null
         /\ \A i \in 1 .. Len(c) - 1 : prev_control[c[i]] = c[i + 1]
         /\ Elements(c) = Elements(q) \cap control
         /\ Elements(l) = Elements(q) \cap (Task \ control)
<1>1. Line(q) /\ Line(c) /\ Line(l)
  BY DEF Lists
<1>2. /\ Len(q) \in Nat /\ Len(c) \in Nat /\ Len(l) \in Nat
      /\ \A i \in 1 .. Len(q) : q[i] \in Task /\ q[i] # Null
      /\ \A i \in 1 .. Len(c) : c[i] \in Task /\ c[i] # Null
  BY <1>1, SeqPlaces, TaskFinite DEF Line
<1>3. /\ Spells(q, task_end, prev) /\ task_q = End(q) /\ Back(q, next)
      /\ Spells(c, sub_end, prev_control) /\ sub_q = End(c)
  BY DEF Lists
<1>4. /\ Len(q) = 0 => task_end = Null /\ task_q = Null
      /\ Len(q) > 0 => task_end = q[1] /\ task_q = q[Len(q)] /\ prev[q[Len(q)]] = Null
      /\ \A i \in 1 .. Len(q) - 1 : prev[q[i]] = q[i + 1]
      /\ \A i \in 2 .. Len(q) : next[q[i]] = q[i - 1]
  BY <1>2, <1>3 DEF Spells, End, Back
<1>5. /\ Len(c) = 0 => sub_end = Null /\ sub_q = Null
      /\ Len(c) > 0 => sub_end = c[1] /\ sub_q = c[Len(c)] /\ prev_control[c[Len(c)]] = Null
      /\ \A i \in 1 .. Len(c) - 1 : prev_control[c[i]] = c[i + 1]
  BY <1>2, <1>3 DEF Spells, End
<1>6. Kept(c, q, control) /\ Kept(l, q, Task \ control)
  BY DEF Lists
<1>7. /\ Elements(c) = Elements(q) \cap control
      /\ Elements(l) = Elements(q) \cap (Task \ control)
  BY <1>6, KeptElements
<1>. QED
  BY <1>2, <1>4, <1>5, <1>7

LEMMA BackEnded ==
  ASSUME NEW q, Line(q), NEW t \in Task, NEW q2, Ended(q, t, q2), NEW field, Back(q, field),
         NEW field2, field2[t] = End(q), \A i \in 1 .. Len(q) : field2[q[i]] = field[q[i]]
  PROVE  Back(q2, field2)
<1>1. Len(q) \in Nat /\ Len(q2) = Len(q) + 1
  BY SeqPlaces DEF Line, Ended
<1>2. ASSUME NEW i \in 2 .. Len(q2) PROVE field2[q2[i]] = q2[i - 1]
  <2>0. i - 1 \in 1 .. Len(q) /\ q2[i - 1] = q[i - 1]
    BY <1>1 DEF Ended
  <2>1. CASE i = Len(q) + 1
    <3>1. i - 1 = Len(q) /\ q2[i] = t /\ Len(q) # 0
      BY <1>1, <2>1 DEF Ended
    <3>. QED
      BY <2>0, <3>1 DEF End
  <2>2. CASE i \in 2 .. Len(q)
    <3>1. i \in 1 .. Len(q)
      BY <1>1, <2>2
    <3>. QED
      BY <2>0, <2>2, <3>1 DEF Ended, Back
  <2>. QED
    BY <1>1, <2>1, <2>2
<1>. QED
  BY <1>2 DEF Back

LEMMA BackFronted ==
  ASSUME NEW q, Line(q), NEW t \in Task, NEW q2, Fronted(q, t, q2), NEW field, Back(q, field),
         NEW field2, Len(q) > 0 => field2[q[1]] = t,
         \A i \in 2 .. Len(q) : field2[q[i]] = field[q[i]]
  PROVE  Back(q2, field2)
<1>1. Len(q) \in Nat /\ Len(q2) = Len(q) + 1
  BY SeqPlaces DEF Line, Fronted
<1>2. ASSUME NEW i \in 2 .. Len(q2) PROVE field2[q2[i]] = q2[i - 1]
  <2>0. i - 1 \in 1 .. Len(q) /\ (i - 1) + 1 = i
    BY <1>1
  <2>1. q2[i] = q[i - 1]
    BY <2>0 DEF Fronted
  <2>2. CASE i = 2
    BY <1>1, <2>0, <2>1, <2>2 DEF Fronted
  <2>3. CASE i # 2
    <3>1. i - 1 \in 2 .. Len(q) /\ i - 1 - 1 \in 1 .. Len(q) /\ (i - 1 - 1) + 1 = i - 1
      BY <1>1, <2>3
    <3>2. q2[i - 1] = q[i - 1 - 1]
      BY <3>1 DEF Fronted
    <3>. QED
      BY <2>1, <3>1, <3>2 DEF Back
  <2>. QED
    BY <2>2, <2>3
<1>. QED
  BY <1>2 DEF Back

LEMMA BackRemoved ==
  ASSUME NEW q, Line(q), NEW k, NEW q2, Removed(q, k, q2), NEW field, Back(q, field),
         NEW field2, 1 < k /\ k < Len(q) => field2[q[k + 1]] = q[k - 1],
         \A i \in 1 .. Len(q) : i # k /\ i # k + 1 => field2[q[i]] = field[q[i]]
  PROVE  Back(q2, field2)
<1>1. Len(q) \in Nat /\ Len(q2) = Len(q) - 1 /\ k \in 1 .. Len(q)
  BY SeqPlaces DEF Line, Removed
<1>2. ASSUME NEW i \in 2 .. Len(q2) PROVE field2[q2[i]] = q2[i - 1]
  <2>1. CASE i < k
    <3>1. i \in 1 .. k - 1 /\ i - 1 \in 1 .. k - 1 /\ i \in 2 .. Len(q) /\ i \in 1 .. Len(q)
      BY <1>1, <2>1
    <3>2. q2[i] = q[i] /\ q2[i - 1] = q[i - 1]
      BY <3>1 DEF Removed
    <3>. QED
      BY <1>1, <2>1, <3>1, <3>2 DEF Back
  <2>2. CASE i = k
    <3>1. i \in k .. Len(q) - 1 /\ i - 1 \in 1 .. k - 1 /\ 1 < k /\ k < Len(q)
      BY <1>1, <2>2
    <3>2. q2[i] = q[k + 1] /\ q2[i - 1] = q[k - 1]
      BY <2>2, <3>1 DEF Removed
    <3>. QED
      BY <3>1, <3>2
  <2>3. CASE i > k
    <3>1. /\ i \in k .. Len(q) - 1 /\ i - 1 \in k .. Len(q) - 1 /\ (i - 1) + 1 = i
          /\ i + 1 \in 2 .. Len(q) /\ i + 1 \in 1 .. Len(q) /\ (i + 1) - 1 = i
      BY <1>1, <2>3
    <3>2. q2[i] = q[i + 1] /\ q2[i - 1] = q[i]
      BY <3>1 DEF Removed
    <3>. QED
      BY <1>1, <2>3, <3>1, <3>2 DEF Back
  <2>. QED
    BY <1>1, <2>1, <2>2, <2>3
<1>. QED
  BY <1>2 DEF Back

LEMMA EndIs ==
  ASSUME NEW q, Line(q), NEW q2
  PROVE  /\ \A t : Ended(q, t, q2) => End(q2) = t
         /\ \A t : Fronted(q, t, q2) => End(q2) = IF Len(q) = 0 THEN t ELSE End(q)
         /\ \A k : Removed(q, k, q2) =>
              End(q2) = IF Len(q) = 1 THEN Null ELSE IF k = Len(q) THEN q[k - 1] ELSE End(q)
<1>1. Len(q) \in Nat
  BY SeqPlaces DEF Line
<1>2. ASSUME NEW t, Ended(q, t, q2) PROVE End(q2) = t
  BY <1>1, <1>2 DEF Ended, End
<1>3. ASSUME NEW t, Fronted(q, t, q2)
      PROVE  End(q2) = IF Len(q) = 0 THEN t ELSE End(q)
  BY <1>1, <1>3 DEF Fronted, End
<1>4. ASSUME NEW k, Removed(q, k, q2)
      PROVE  End(q2) = IF Len(q) = 1 THEN Null ELSE IF k = Len(q) THEN q[k - 1] ELSE End(q)
  <2>1. Len(q2) = Len(q) - 1 /\ k \in 1 .. Len(q)
    BY <1>4 DEF Removed
  <2>2. CASE Len(q) = 1
    BY <2>1, <2>2 DEF End
  <2>3. CASE Len(q) # 1 /\ k = Len(q)
    <3>1. Len(q2) \in 1 .. k - 1 /\ Len(q2) = k - 1
      BY <1>1, <2>1, <2>3
    <3>2. q2[Len(q2)] = q[k - 1]
      BY <1>4, <3>1 DEF Removed
    <3>. QED
      BY <2>3, <3>1, <3>2 DEF End
  <2>4. CASE Len(q) # 1 /\ k # Len(q)
    <3>1. Len(q2) \in k .. Len(q) - 1 /\ Len(q2) + 1 = Len(q) /\ Len(q2) # 0
      BY <1>1, <2>1, <2>4
    <3>2. q2[Len(q2)] = q[Len(q)]
      BY <1>4, <3>1 DEF Removed
    <3>. QED
      BY <1>1, <2>4, <3>1, <3>2 DEF End
  <2>. QED
    BY <2>2, <2>3, <2>4
<1>. QED
  BY <1>2, <1>3, <1>4
-----------------------------------------------------------------------------
(* The steps of the queue.                                                 *)

LEMMA EmptyLine == Line(<<>>) /\ Len(<<>>) = 0 /\ Elements(<<>>) = {}
  BY EmptySeq DEF Line, Elements

LEMMA InitLists == Init => Inv /\ Lists(<<>>, <<>>, <<>>)
<1>. SUFFICES ASSUME Init PROVE Inv /\ Lists(<<>>, <<>>, <<>>)
  OBVIOUS
<1>1. Safe
  BY DEF Init, Safe, Fields, Pointers
<1>2. ASSUME NEW T PROVE Kept(<<>>, <<>>, T)
  <2>1. Places([k \in {} |-> k], <<>>, <<>>, T)
    <3>1. 1 .. Len(<<>>) = {}
      BY EmptyLine
    <3>. QED
      BY <3>1, EmptyLine DEF Places
  <2>. QED
    BY <2>1 DEF Kept
<1>3. \A start, field : start = Null => Spells(<<>>, start, field)
  BY EmptyLine DEF Spells
<1>4. Back(<<>>, next) /\ End(<<>>) = Null
  BY EmptyLine DEF Back, End
<1>5. Lists(<<>>, <<>>, <<>>)
  BY <1>2, <1>3, <1>4, EmptyLine DEF Init, Lists
<1>. QED
  BY <1>1, <1>5 DEF Inv

LEMMA PointersKept ==
  ASSUME NEW f \in Fields, NEW t \in Task, NEW x \in Pointers, NEW y
  PROVE  [f EXCEPT ![y] = x] \in Fields /\ f[t] \in Pointers
  BY DEF Fields

LEMMA SetKept ==
  ASSUME NEW f \in Fields, NEW ts, NEW x \in Pointers
  PROVE  Set(f, ts, x) \in Fields
  BY DEF Fields, Set

(* A new task t is not in the queue, and belongs to one kind from now on.  *)
LEMMA Created ==
  ASSUME NEW q, NEW c, NEW l, Lists(q, c, l), Safe,
         NEW t \in Task, NEW k \in BOOLEAN, Create(t, k)
  PROVE  /\ t \notin Elements(q) /\ t \notin Elements(c) /\ t \notin Elements(l)
         /\ \A x \in Elements(q) : x \in control <=> x \in control'
         /\ \A x \in Elements(q) : x \in Task \ control <=> x \in (Task \ control)'
         /\ control' \subseteq Task /\ t \in live' /\ live \subseteq live' /\ live' \subseteq Task
         /\ k => t \in control' /\ t \notin (Task \ control)'
         /\ ~ k => t \notin control' /\ t \in (Task \ control)'
         /\ got' = got /\ idle' = idle /\ closed' = closed /\ ~ closed /\ t # got
<1>1. Elements(q) \subseteq live /\ (got # Null => got \in live)
  BY DEF Lists
<1>2. Elements(c) \subseteq Elements(q) /\ Elements(l) \subseteq Elements(q)
  BY ListsAre
<1>. QED
  BY <1>1, <1>2, TaskFinite DEF Create, Safe

LEMMA InsertStep ==
  ASSUME NEW q, NEW c, NEW l, Lists(q, c, l), Safe,
         NEW t \in Task, NEW k \in BOOLEAN, QueueTask(t, k)
  PROVE  /\ Safe' /\ t \notin Elements(c) /\ t \notin Elements(l) /\ t # got
         /\ \E q2 : Lists(q2, IF k THEN Append(c, t) ELSE c, IF k THEN l ELSE Append(l, t))'
<1>0. Create(t, k)
  BY DEF QueueTask
<1>1. /\ t \notin Elements(q) /\ t \notin Elements(c) /\ t \notin Elements(l)
      /\ \A x \in Elements(q) : x \in control <=> x \in control'
      /\ \A x \in Elements(q) : x \in Task \ control <=> x \in (Task \ control)'
      /\ control' \subseteq Task /\ t \in live' /\ live \subseteq live' /\ live' \subseteq Task
      /\ k => t \in control' /\ t \notin (Task \ control)'
      /\ ~ k => t \notin control' /\ t \in (Task \ control)'
      /\ got' = got /\ idle' = idle /\ closed' = closed /\ ~ closed /\ t # got
  BY <1>0, Created
<1>2. /\ Len(q) \in Nat /\ Len(c) \in Nat /\ Len(l) \in Nat
      /\ \A i \in 1 .. Len(q) : q[i] \in Task /\ q[i] # Null /\ q[i] # t
      /\ \A i \in 1 .. Len(c) : c[i] \in Task /\ c[i] # Null /\ c[i] # t
      /\ Len(q) = 0 => task_end = Null /\ task_q = Null
      /\ Len(q) > 0 => task_end = q[1] /\ task_q = q[Len(q)] /\ prev[q[Len(q)]] = Null
      /\ Len(c) = 0 => sub_end = Null /\ sub_q = Null
      /\ Len(c) > 0 => sub_end = c[1] /\ sub_q = c[Len(c)] /\ prev_control[c[Len(c)]] = Null
  BY <1>1, ListsAre DEF Elements
<1>3. Line(q) /\ Line(c) /\ Line(l)
  BY DEF Lists
<1>4. next \in Fields /\ prev \in Fields /\ prev_control \in Fields /\ t # Null /\ t \in Pointers
  BY TaskFinite DEF Safe, Pointers
<1>5. /\ next' = [next EXCEPT ![t] = task_q]
      /\ prev' = Set([prev EXCEPT ![t] = Null], {task_q}, t)
      /\ task_q' = t
      /\ task_end' = IF task_end = Null THEN t ELSE task_end
  BY DEF QueueTask
<1>6. task_q \in Pointers /\ sub_q \in Pointers /\ Null \in Pointers
  BY <1>2 DEF Pointers
<1>7. next' \in Fields /\ prev' \in Fields /\ prev_control' \in Fields
  <2>1. [next EXCEPT ![t] = task_q] \in Fields /\ [prev EXCEPT ![t] = Null] \in Fields
    BY <1>4, <1>6, PointersKept
  <2>2. [prev_control EXCEPT ![t] = Null] \in Fields
    BY <1>4, <1>6, PointersKept
  <2>3. prev' \in Fields
    BY <1>4, <1>5, <2>1, SetKept
  <2>4. prev_control' \in Fields
    BY <1>4, <2>2, SetKept DEF QueueTask
  <2>. QED
    BY <1>5, <2>1, <2>3, <2>4
<1>8. Safe'
  BY <1>1, <1>7 DEF Safe
<1>. DEFINE q2 == Append(q, t)
<1>9. Line(q2) /\ Ended(q, t, q2) /\ Elements(q2) = Elements(q) \cup {t}
  BY <1>1, <1>3, Ending
<1>. HIDE DEF q2
<1>10. Spells(q2, task_end', prev')
  <2>1. prev'[t] = Null
    BY <1>2, <1>4, <1>5, <1>6, TaskFinite DEF Set, Fields
  <2>2. Len(q) > 0 => prev'[q[Len(q)]] = t
    BY <1>2, <1>5 DEF Set
  <2>3. \A i \in 1 .. Len(q) - 1 : prev'[q[i]] = prev[q[i]]
    <3>1. SUFFICES ASSUME NEW i \in 1 .. Len(q) - 1 PROVE prev'[q[i]] = prev[q[i]]
      OBVIOUS
    <3>2. i \in 1 .. Len(q) /\ Len(q) \in 1 .. Len(q) /\ i # Len(q)
      BY <1>2
    <3>3. q[i] # q[Len(q)]
      BY <1>3, <3>2 DEF Line
    <3>4. q[i] # task_q /\ q[i] # t /\ q[i] \in Task
      BY <1>2, <3>2, <3>3
    <3>. QED
      BY <1>4, <1>5, <3>4 DEF Set, Fields
  <2>4. task_end' = IF Len(q) = 0 THEN t ELSE task_end
    BY <1>2, <1>5
  <2>5. Spells(q, task_end, prev)
    BY DEF Lists
  <2>. QED
    BY <1>3, <1>9, <2>1, <2>2, <2>3, <2>4, <2>5, SpellsEnded
<1>11. Back(q2, next') /\ task_q' = End(q2)
  <2>1. next'[t] = End(q) /\ \A i \in 1 .. Len(q) : next'[q[i]] = next[q[i]]
    BY <1>2, <1>4, <1>5 DEF Fields, Lists
  <2>2. Back(q, next)
    BY DEF Lists
  <2>3. Back(q2, next')
    BY <1>3, <1>9, <2>1, <2>2, BackEnded
  <2>. QED
    BY <1>3, <1>5, <1>9, <2>3, EndIs
<1>12. idle' /\ Len(q2) > 0 => next'[q2[1]] = Null
  <2>1. CASE Len(q) = 0
    <3>1. q2[1] = t
      BY <1>9, <2>1 DEF Ended
    <3>. QED
      BY <1>2, <1>4, <1>5, <2>1, <3>1 DEF Fields
  <2>2. CASE Len(q) # 0
    <3>1. q2[1] = q[1] /\ 1 \in 1 .. Len(q) /\ Len(q) > 0
      BY <1>2, <1>9, <2>2 DEF Ended
    <3>2. next'[q[1]] = next[q[1]]
      BY <1>2, <1>4, <1>5, <3>1 DEF Fields
    <3>. QED
      BY <1>1, <3>1, <3>2 DEF Lists
  <2>. QED
    BY <2>1, <2>2
<1>13. Kept(c, q, control') /\ Kept(l, q, (Task \ control)')
  <2>1. Kept(c, q, control) /\ Kept(l, q, Task \ control)
    BY DEF Lists
  <2>. QED
    BY <1>1, <2>1, KeptSame
<1>14. Elements(q2) \subseteq live' /\ got' \notin Elements(q2) /\ (got' # Null => got' \in live')
  BY <1>1, <1>9 DEF Lists
<1>15. CASE ~ k
  <2>. DEFINE l2 == Append(l, t)
  <2>1. Line(l2) /\ Ended(l, t, l2)
    BY <1>1, <1>3, Ending
  <2>. HIDE DEF l2
  <2>2. Kept(l2, q2, (Task \ control)')
    BY <1>1, <1>3, <1>9, <1>13, <1>15, <2>1, KeptEnded
  <2>3. Kept(c, q2, control')
    BY <1>1, <1>3, <1>9, <1>13, <1>15, KeptEndedOut
  <2>4. Spells(c, sub_end', prev_control') /\ sub_q' = End(c)
    <3>1. /\ prev_control' = [prev_control EXCEPT ![t] = Null]
          /\ sub_q' = sub_q /\ sub_end' = sub_end
      BY <1>15 DEF QueueTask
    <3>2. \A i \in 1 .. Len(c) : prev_control'[c[i]] = prev_control[c[i]]
      BY <1>2, <1>4, <3>1 DEF Fields
    <3>3. Spells(c, sub_end, prev_control) /\ sub_q = End(c)
      BY DEF Lists
    <3>. QED
      BY <1>2, <3>1, <3>2, <3>3 DEF Spells
  <2>5. Lists(q2, c, l2)'
    BY <1>3, <1>9, <1>10, <1>11, <1>12, <1>14, <2>1, <2>2, <2>3, <2>4 DEF Lists
  <2>. QED
    BY <1>1, <1>8, <1>15, <2>5 DEF l2
<1>16. CASE k
  <2>. DEFINE c2 == Append(c, t)
  <2>1. Line(c2) /\ Ended(c, t, c2)
    BY <1>1, <1>3, Ending
  <2>. HIDE DEF c2
  <2>2. Kept(c2, q2, control')
    BY <1>1, <1>3, <1>9, <1>13, <1>16, <2>1, KeptEnded
  <2>3. Kept(l, q2, (Task \ control)')
    BY <1>1, <1>3, <1>9, <1>13, <1>16, KeptEndedOut
  <2>4. Spells(c2, sub_end', prev_control') /\ sub_q' = End(c2)
    <3>1. /\ prev_control' = Set([prev_control EXCEPT ![t] = Null], {sub_q}, t)
          /\ sub_q' = t
          /\ sub_end' = IF sub_q = Null /\ sub_end = Null THEN t ELSE sub_end
      BY <1>16 DEF QueueTask
    <3>2. prev_control'[t] = Null
      BY <1>2, <1>4, <3>1 DEF Set, Fields
    <3>3. Len(c) > 0 => prev_control'[c[Len(c)]] = t
      BY <1>2, <3>1 DEF Set
    <3>4. \A i \in 1 .. Len(c) - 1 : prev_control'[c[i]] = prev_control[c[i]]
      <4>1. SUFFICES ASSUME NEW i \in 1 .. Len(c) - 1 PROVE prev_control'[c[i]] = prev_control[c[i]]
        OBVIOUS
      <4>2. i \in 1 .. Len(c) /\ Len(c) \in 1 .. Len(c) /\ i # Len(c)
        BY <1>2
      <4>3. c[i] # c[Len(c)]
        BY <1>3, <4>2 DEF Line
      <4>4. c[i] # sub_q /\ c[i] # t /\ c[i] \in Task
        BY <1>2, <4>2, <4>3
      <4>. QED
        BY <1>4, <3>1, <4>4 DEF Set, Fields
    <3>5. sub_end' = IF Len(c) = 0 THEN t ELSE sub_end
      BY <1>2, <3>1
    <3>6. Spells(c, sub_end, prev_control)
      BY DEF Lists
    <3>7. Spells(c2, sub_end', prev_control')
      BY <1>3, <2>1, <3>2, <3>3, <3>4, <3>5, <3>6, SpellsEnded
    <3>. QED
      BY <1>3, <2>1, <3>1, <3>7, EndIs
  <2>5. Lists(q2, c2, l)'
    BY <1>3, <1>9, <1>10, <1>11, <1>12, <1>14, <2>1, <2>2, <2>3, <2>4 DEF Lists
  <2>. QED
    BY <1>1, <1>8, <1>16, <2>5 DEF c2
<1>. QED
  BY <1>15, <1>16

LEMMA FrontStep ==
  ASSUME NEW q, NEW c, NEW l, Lists(q, c, l), Safe, NEW t \in Task, QueueAtFront(t)
  PROVE  /\ Safe' /\ t \notin Elements(c) /\ t \notin Elements(l) /\ t # got
         /\ \E q2 : Lists(q2, <<t>> \o c, l)'
<1>0. Create(t, TRUE)
  BY DEF QueueAtFront
<1>1. /\ t \notin Elements(q) /\ t \notin Elements(c) /\ t \notin Elements(l)
      /\ \A x \in Elements(q) : x \in control <=> x \in control'
      /\ \A x \in Elements(q) : x \in Task \ control <=> x \in (Task \ control)'
      /\ control' \subseteq Task /\ t \in live' /\ live \subseteq live' /\ live' \subseteq Task
      /\ t \in control' /\ t \notin (Task \ control)'
      /\ got' = got /\ idle' = idle /\ closed' = closed /\ ~ closed /\ t # got
  BY <1>0, Created
<1>2. /\ Len(q) \in Nat /\ Len(c) \in Nat /\ Len(l) \in Nat
      /\ \A i \in 1 .. Len(q) : q[i] \in Task /\ q[i] # Null /\ q[i] # t
      /\ \A i \in 1 .. Len(c) : c[i] \in Task /\ c[i] # Null /\ c[i] # t
      /\ Len(q) = 0 => task_end = Null /\ task_q = Null
      /\ Len(q) > 0 => task_end = q[1] /\ task_q = q[Len(q)]
      /\ Len(c) = 0 => sub_end = Null /\ sub_q = Null
      /\ Len(c) > 0 => sub_end = c[1] /\ sub_q = c[Len(c)]
  BY <1>1, ListsAre DEF Elements
<1>3. Line(q) /\ Line(c) /\ Line(l)
  BY DEF Lists
<1>4. next \in Fields /\ prev \in Fields /\ prev_control \in Fields /\ t # Null /\ t \in Pointers
  BY TaskFinite DEF Safe, Pointers
<1>5. /\ next' = Set([next EXCEPT ![t] = Null], {task_end}, t)
      /\ prev' = [prev EXCEPT ![t] = task_end]
      /\ task_end' = t
      /\ task_q' = IF task_q = Null THEN t ELSE task_q
      /\ prev_control' = [prev_control EXCEPT ![t] = sub_end]
      /\ sub_end' = t
      /\ sub_q' = IF sub_q = Null /\ sub_end = Null THEN t ELSE sub_q
  BY DEF QueueAtFront
<1>6. task_end \in Pointers /\ sub_end \in Pointers /\ Null \in Pointers
  BY <1>2 DEF Pointers
<1>7. next' \in Fields /\ prev' \in Fields /\ prev_control' \in Fields
  <2>1. [next EXCEPT ![t] = Null] \in Fields
    BY <1>4, <1>6, PointersKept
  <2>2. next' \in Fields
    BY <1>4, <1>5, <2>1, SetKept
  <2>. QED
    BY <1>4, <1>5, <1>6, <2>2, PointersKept
<1>8. Safe'
  BY <1>1, <1>7 DEF Safe
<1>. DEFINE q2 == <<t>> \o q
            c2 == <<t>> \o c
<1>9. /\ Line(q2) /\ Fronted(q, t, q2) /\ Elements(q2) = Elements(q) \cup {t}
      /\ Line(c2) /\ Fronted(c, t, c2)
  BY <1>1, <1>3, Fronting
<1>. HIDE DEF q2, c2
<1>10. Spells(q2, task_end', prev')
  <2>1. prev'[t] = task_end /\ \A i \in 1 .. Len(q) : prev'[q[i]] = prev[q[i]]
    BY <1>2, <1>4, <1>5 DEF Fields
  <2>2. Spells(q, task_end, prev)
    BY DEF Lists
  <2>3. Spells(q2, t, prev')
    BY <1>3, <1>9, <2>1, <2>2, SpellsFronted
  <2>. QED
    BY <1>5, <2>3
<1>11. Back(q2, next') /\ task_q' = End(q2)
  <2>1. Len(q) > 0 => next'[q[1]] = t
    BY <1>2, <1>5 DEF Set
  <2>2. \A i \in 2 .. Len(q) : next'[q[i]] = next[q[i]]
    <3>1. SUFFICES ASSUME NEW i \in 2 .. Len(q) PROVE next'[q[i]] = next[q[i]]
      OBVIOUS
    <3>2. i \in 1 .. Len(q) /\ 1 \in 1 .. Len(q) /\ i # 1 /\ Len(q) > 0
      BY <1>2
    <3>3. q[i] # q[1]
      BY <1>3, <3>2 DEF Line
    <3>4. q[i] # task_end /\ q[i] # t /\ q[i] \in Task
      BY <1>2, <3>2, <3>3
    <3>. QED
      BY <1>4, <1>5, <3>4 DEF Set, Fields
  <2>3. Back(q, next) /\ task_q = End(q)
    BY DEF Lists
  <2>4. Back(q2, next')
    BY <1>3, <1>9, <2>1, <2>2, <2>3, BackFronted
  <2>5. task_q' = IF Len(q) = 0 THEN t ELSE task_q
    BY <1>2, <1>5
  <2>. QED
    BY <1>3, <1>9, <2>3, <2>4, <2>5, EndIs
<1>12. next'[q2[1]] = Null
  <2>1. q2[1] = t
    BY <1>9 DEF Fronted
  <2>2. t # task_end
    BY <1>2, <1>4
  <2>. QED
    BY <1>4, <1>5, <2>1, <2>2 DEF Fields, Set
<1>13. Kept(c2, q2, control') /\ Kept(l, q2, (Task \ control)')
  <2>1. Kept(c, q, control) /\ Kept(l, q, Task \ control)
    BY DEF Lists
  <2>2. Kept(c, q, control') /\ Kept(l, q, (Task \ control)')
    BY <1>1, <2>1, KeptSame
  <2>3. Kept(c2, q2, control')
    BY <1>1, <1>3, <1>9, <2>2, KeptFronted
  <2>4. Kept(l, q2, (Task \ control)')
    BY <1>1, <1>3, <1>9, <2>2, KeptFrontedOut
  <2>. QED
    BY <2>3, <2>4
<1>14. Elements(q2) \subseteq live' /\ got' \notin Elements(q2) /\ (got' # Null => got' \in live')
  BY <1>1, <1>9 DEF Lists
<1>15. Spells(c2, sub_end', prev_control') /\ sub_q' = End(c2)
  <2>1. prev_control'[t] = sub_end /\ \A i \in 1 .. Len(c) : prev_control'[c[i]] = prev_control[c[i]]
    BY <1>2, <1>4, <1>5 DEF Fields
  <2>2. Spells(c, sub_end, prev_control) /\ sub_q = End(c)
    BY DEF Lists
  <2>3. Spells(c2, t, prev_control')
    BY <1>3, <1>9, <2>1, <2>2, SpellsFronted
  <2>4. sub_q' = IF Len(c) = 0 THEN t ELSE sub_q
    BY <1>2, <1>5
  <2>. QED
    BY <1>3, <1>5, <1>9, <2>2, <2>3, <2>4, EndIs
<1>16. Lists(q2, c2, l)'
  BY <1>3, <1>9, <1>10, <1>11, <1>12, <1>13, <1>14, <1>15 DEF Lists
<1>. QED
  BY <1>1, <1>8, <1>16 DEF c2

(* Taking the task at place k out of the queue, as the four cases of        *)
(* get_task do it.                                                          *)
LEMMA TakeControlIs ==
  ASSUME NEW q, NEW c, NEW l, Lists(q, c, l), Safe, TakeControl, Len(c) > 0,
         NEW k \in 1 .. Len(q), q[k] = c[1]
  PROVE  /\ next' \in Fields /\ prev' \in Fields
         /\ 1 < k /\ k < Len(q) => next'[q[k + 1]] = q[k - 1]
         /\ \A i \in 1 .. Len(q) : i # k /\ i # k + 1 => next'[q[i]] = next[q[i]]
         /\ k > 1 => prev'[q[k - 1]] = prev[q[k]]
         /\ \A i \in 1 .. Len(q) : i # k /\ i # k - 1 => prev'[q[i]] = prev[q[i]]
         /\ task_end' = IF k = 1 THEN prev[task_end] ELSE task_end
         /\ task_q' = IF Len(q) = 1 THEN Null ELSE IF k = Len(q) THEN q[k - 1] ELSE End(q)
<1>1. /\ Len(q) \in Nat /\ Len(c) \in Nat /\ Len(q) > 0
      /\ \A i \in 1 .. Len(q) : q[i] \in Task /\ q[i] # Null
      /\ \A i \in 1 .. Len(c) : c[i] \in Task /\ c[i] # Null
      /\ task_end = q[1] /\ task_q = q[Len(q)] /\ prev[q[Len(q)]] = Null
      /\ \A i \in 1 .. Len(q) - 1 : prev[q[i]] = q[i + 1]
      /\ \A i \in 2 .. Len(q) : next[q[i]] = q[i - 1]
      /\ sub_end = c[1] /\ sub_q = c[Len(c)]
  <2>1. Len(q) \in Nat /\ Len(q) > 0 /\ Len(c) \in Nat
    BY ListsAre
  <2>2. /\ \A i \in 1 .. Len(q) : q[i] \in Task /\ q[i] # Null
        /\ \A i \in 1 .. Len(c) : c[i] \in Task /\ c[i] # Null
    BY ListsAre
  <2>3. task_end = q[1] /\ task_q = q[Len(q)] /\ prev[q[Len(q)]] = Null
    BY <2>1, ListsAre
  <2>4. /\ \A i \in 1 .. Len(q) - 1 : prev[q[i]] = q[i + 1]
        /\ \A i \in 2 .. Len(q) : next[q[i]] = q[i - 1]
    BY ListsAre
  <2>5. sub_end = c[1] /\ sub_q = c[Len(c)]
    BY ListsAre
  <2>. QED
    BY <2>1, <2>2, <2>3, <2>4, <2>5
<1>2. /\ \A i, j \in 1 .. Len(q) : q[i] = q[j] => i = j
      /\ \A i, j \in 1 .. Len(c) : c[i] = c[j] => i = j
      /\ task_q = End(q)
  BY DEF Lists, Line
<1>3. next \in Fields /\ prev \in Fields
  BY DEF Safe
<1>4. \A f \in Fields : \A x \in Pointers : \A y : [f EXCEPT ![y] = x] \in Fields
  BY DEF Fields
<1>5. \A i \in 1 .. Len(q) : next[q[i]] \in Pointers /\ prev[q[i]] \in Pointers
  BY <1>1, <1>3 DEF Fields
<1>6. 1 \in 1 .. Len(q) /\ Len(q) \in 1 .. Len(q) /\ 1 \in 1 .. Len(c) /\ Len(c) \in 1 .. Len(c)
  BY <1>1
<1>7. ASSUME k = Len(q)
      PROVE  sub_end = sub_q
  <2>1. PICK at : Places(at, c, q, control)
    BY DEF Lists, Kept
  <2>2. /\ at \in [1 .. Len(c) -> 1 .. Len(q)]
        /\ \A i, j \in 1 .. Len(c) : i < j => at[i] < at[j]
        /\ \A i \in 1 .. Len(c) : c[i] = q[at[i]]
    BY <2>1 DEF Places
  <2>3. at[1] = k
    BY <1>2, <1>6, <2>2
  <2>4. at[Len(c)] \in 1 .. Len(q)
    BY <1>6, <2>2
  <2>5. ~ (1 < Len(c))
    BY <1>1, <1>6, <1>7, <2>2, <2>3, <2>4
  <2>. QED
    BY <1>1, <2>5
<1>8. (k = 1) <=> (task_end = sub_end)
  BY <1>1, <1>2, <1>6
<1>9. CASE sub_end = sub_q /\ task_end = task_q /\ task_end = sub_end
  <2>1. Len(q) = 1 /\ k = 1
    <3>1. k = 1
      BY <1>8, <1>9
    <3>2. q[1] = q[Len(q)]
      BY <1>1, <1>9
    <3>3. 1 = Len(q)
      BY <1>2, <1>6, <3>2
    <3>. QED
      BY <3>1, <3>3
  <2>2. task_q' = Null /\ task_end' = Null /\ next' = next /\ prev' = prev
    BY <1>9 DEF TakeControl
  <2>. QED
    BY <1>1, <1>3, <2>1, <2>2
<1>10. CASE task_end = sub_end /\ ~ (sub_end = sub_q /\ task_end = task_q)
  <2>1. task_end' = prev[task_end] /\ next' = next /\ prev' = prev /\ task_q' = task_q
    BY <1>10 DEF TakeControl
  <2>2. k = 1 /\ k # Len(q)
    BY <1>1, <1>7, <1>8, <1>10
  <2>. QED
    BY <1>1, <1>2, <1>3, <2>1, <2>2
<1>11. CASE task_end # sub_end /\ sub_end = sub_q /\ task_q = sub_q
  <2>1. /\ task_q' = next[task_q] /\ prev' = [prev EXCEPT ![next[task_q]] = Null]
        /\ next' = next /\ task_end' = task_end
    BY <1>11 DEF TakeControl
  <2>2. k = Len(q) /\ k # 1 /\ k \in 2 .. Len(q)
    BY <1>1, <1>2, <1>6, <1>8, <1>11
  <2>3. next[task_q] = q[k - 1] /\ k - 1 \in 1 .. Len(q)
    BY <1>1, <2>2
  <2>4. prev' \in Fields
    BY <1>3, <1>4, <2>1 DEF Pointers
  <2>5. prev'[q[k - 1]] = Null
    BY <1>1, <1>3, <2>1, <2>3 DEF Fields
  <2>6. ASSUME NEW i \in 1 .. Len(q), i # k, i # k - 1
        PROVE  prev'[q[i]] = prev[q[i]]
    <3>1. q[i] # q[k - 1]
      BY <1>2, <2>3, <2>6
    <3>. QED
      BY <1>1, <1>3, <2>1, <2>3, <3>1 DEF Fields
  <2>. QED
    BY <1>1, <1>3, <2>1, <2>2, <2>3, <2>4, <2>5, <2>6
<1>12. CASE task_end # sub_end /\ ~ (sub_end = sub_q /\ task_q = sub_q)
  <2>1. /\ next' = [next EXCEPT ![prev[sub_end]] = next[sub_end]]
        /\ prev' = [prev EXCEPT ![next[sub_end]] = prev[sub_end]]
        /\ task_q' = task_q /\ task_end' = task_end
    BY <1>12 DEF TakeControl, Unlink
  <2>2. k # 1 /\ k # Len(q)
    BY <1>1, <1>7, <1>8, <1>12
  <2>3. /\ k \in 1 .. Len(q) - 1 /\ k \in 2 .. Len(q) /\ k - 1 \in 1 .. Len(q)
        /\ k + 1 \in 1 .. Len(q)
    BY <1>1, <2>2
  <2>4. prev[sub_end] = q[k + 1] /\ next[sub_end] = q[k - 1]
    BY <1>1, <2>3
  <2>5. next' \in Fields /\ prev' \in Fields
    BY <1>1, <1>3, <1>4, <2>1, <2>3, <2>4 DEF Pointers
  <2>6. next'[q[k + 1]] = q[k - 1] /\ prev'[q[k - 1]] = q[k + 1]
    BY <1>1, <1>3, <2>1, <2>3, <2>4 DEF Fields
  <2>7. ASSUME NEW i \in 1 .. Len(q), i # k + 1
        PROVE  next'[q[i]] = next[q[i]]
    <3>1. q[i] # q[k + 1]
      BY <1>2, <2>3, <2>7
    <3>. QED
      BY <1>1, <1>3, <2>1, <2>4, <3>1 DEF Fields
  <2>8. ASSUME NEW i \in 1 .. Len(q), i # k - 1
        PROVE  prev'[q[i]] = prev[q[i]]
    <3>1. q[i] # q[k - 1]
      BY <1>2, <2>3, <2>8
    <3>. QED
      BY <1>1, <1>3, <2>1, <2>4, <3>1 DEF Fields
  <2>. QED
    BY <1>1, <1>2, <2>1, <2>2, <2>3, <2>4, <2>5, <2>6, <2>7, <2>8
<1>. QED
  BY <1>9, <1>10, <1>11, <1>12

LEMMA FirstOf ==
  ASSUME NEW s, Line(s), Len(s) > 0
  PROVE  s # <<>> /\ s[1] \in Elements(s)
<1>1. Len(s) \in Nat
  BY SeqPlaces DEF Line
<1>. QED
  BY <1>1, EmptyLine DEF Elements

LEMMA NoneIn ==
  ASSUME NEW s, Line(s), Len(s) = 0
  PROVE  s = <<>>
  BY EmptySeq DEF Line

(* get_task finds a control task.                                          *)
LEMMA ControlStep ==
  ASSUME NEW q, NEW c, NEW l, Lists(q, c, l), Safe, ~ closed, got = Null,
         sub_end # Null, got' = sub_end, TakeControl, idle' = FALSE,
         UNCHANGED <<prev_control, control, live, closed>>
  PROVE  /\ Safe' /\ c # <<>> /\ got' = Head(c)
         /\ \E q2 : Lists(q2, Tail(c), l)'
<1>1. Line(q) /\ Line(c) /\ Line(l) /\ Elements(q) \subseteq live
  BY DEF Lists
<1>2. /\ Len(q) \in Nat /\ Len(c) \in Nat /\ Len(c) > 0
      /\ \A i \in 1 .. Len(c) : c[i] \in Task /\ c[i] # Null
      /\ sub_end = c[1] /\ sub_q = c[Len(c)] /\ prev_control[c[Len(c)]] = Null
      /\ Elements(c) = Elements(q) \cap control
      /\ task_end = q[1]
  <2>1. Len(c) \in Nat /\ Len(c) > 0
    BY ListsAre
  <2>2. Elements(c) = Elements(q) \cap control
    BY ListsAre
  <2>3. c[1] \in Elements(q)
    BY <1>1, <2>1, <2>2, FirstOf
  <2>4. Len(q) \in Nat /\ Len(q) > 0
    BY <2>3, ListsAre DEF Elements
  <2>. QED
    BY <2>1, <2>2, <2>4, ListsAre
<1>3. c # <<>> /\ c[1] \in Elements(c)
  BY <1>1, <1>2, FirstOf
<1>4. PICK k \in 1 .. Len(q) : q[k] = c[1]
  BY <1>2, <1>3 DEF Elements
<1>5. /\ next' \in Fields /\ prev' \in Fields
      /\ 1 < k /\ k < Len(q) => next'[q[k + 1]] = q[k - 1]
      /\ \A i \in 1 .. Len(q) : i # k /\ i # k + 1 => next'[q[i]] = next[q[i]]
      /\ k > 1 => prev'[q[k - 1]] = prev[q[k]]
      /\ \A i \in 1 .. Len(q) : i # k /\ i # k - 1 => prev'[q[i]] = prev[q[i]]
      /\ task_end' = IF k = 1 THEN prev[task_end] ELSE task_end
      /\ task_q' = IF Len(q) = 1 THEN Null ELSE IF k = Len(q) THEN q[k - 1] ELSE End(q)
  BY <1>2, <1>4, TakeControlIs
<1>6. PICK q2 : Line(q2) /\ Removed(q, k, q2) /\ Elements(q2) = Elements(q) \ {q[k]}
  BY <1>1, Removing
<1>. DEFINE c2 == Tail(c)
<1>7. Line(c2) /\ Removed(c, 1, c2) /\ Head(c) = c[1]
  BY <1>1, <1>3, Tailing
<1>. HIDE DEF c2
<1>8. c[1] \in Task /\ c[1] \in Pointers
  BY <1>1, <1>2 DEF Pointers
<1>9. Safe'
  BY <1>2, <1>5, <1>8 DEF Safe
<1>10. Spells(q2, task_end', prev')
  <2>1. Spells(q, task_end, prev)
    BY DEF Lists
  <2>2. /\ k > 1 => prev'[q[k - 1]] = prev[q[k]]
        /\ \A i \in 1 .. Len(q) : i # k /\ i # k - 1 => prev'[q[i]] = prev[q[i]]
    BY <1>5
  <2>3. task_end' = IF k = 1 THEN prev[task_end] ELSE task_end
    BY <1>5
  <2>4. Line(q) /\ Removed(q, k, q2)
    BY <1>1, <1>6
  <2>. QED
    BY <2>1, <2>2, <2>3, <2>4, SpellsRemoved
<1>11. Back(q2, next') /\ task_q' = End(q2)
  <2>1. Back(q, next)
    BY DEF Lists
  <2>2. Back(q2, next')
    BY <1>1, <1>5, <1>6, <2>1, BackRemoved
  <2>. QED
    BY <1>1, <1>5, <1>6, <2>2, EndIs
<1>12. Spells(c2, sub_end', prev_control') /\ sub_q' = End(c2)
  <2>1. Spells(c, sub_end, prev_control) /\ sub_q = End(c)
    BY DEF Lists
  <2>2. /\ sub_q' = IF sub_end = sub_q THEN Null ELSE sub_q
        /\ sub_end' = IF sub_end = sub_q THEN Null ELSE prev_control[sub_end]
        /\ prev_control' = prev_control
    BY DEF TakeControl
  <2>3. sub_end = sub_q <=> Len(c) = 1
    <3>1. 1 \in 1 .. Len(c) /\ Len(c) \in 1 .. Len(c)
      BY <1>2
    <3>2. \A i, j \in 1 .. Len(c) : c[i] = c[j] => i = j
      BY <1>1 DEF Line
    <3>. QED
      BY <1>2, <3>1, <3>2
  <2>4. sub_end' = prev_control[sub_end]
    BY <1>2, <2>2, <2>3
  <2>5. Spells(c2, sub_end', prev_control')
    BY <1>1, <1>7, <2>1, <2>2, <2>4, SpellsRemoved
  <2>6. sub_q' = IF Len(c) = 1 THEN Null ELSE End(c)
    BY <2>1, <2>2, <2>3
  <2>7. Len(c) = 1 \/ 1 # Len(c)
    OBVIOUS
  <2>. QED
    BY <1>1, <1>7, <2>5, <2>6, EndIs
<1>13. Kept(c2, q2, control') /\ Kept(l, q2, (Task \ control)')
  <2>1. Kept(c, q, control) /\ Kept(l, q, Task \ control)
    BY DEF Lists
  <2>2. Kept(c2, q2, control)
    BY <1>1, <1>4, <1>6, <1>7, <2>1, KeptRemovedFirst
  <2>3. q[k] \notin Task \ control
    BY <1>2, <1>3, <1>4
  <2>4. Kept(l, q2, Task \ control)
    BY <1>1, <1>6, <2>1, <2>3, KeptRemovedOut
  <2>. QED
    BY <2>2, <2>4
<1>14. Elements(q2) \subseteq live' /\ got' \notin Elements(q2) /\ got' \in live'
  BY <1>1, <1>2, <1>3, <1>4, <1>6
<1>15. Lists(q2, c2, l)'
  BY <1>1, <1>6, <1>7, <1>10, <1>11, <1>12, <1>13, <1>14 DEF Lists
<1>. QED
  BY <1>2, <1>3, <1>7, <1>9, <1>15 DEF c2

(* Without a control task the two lists of tasks are the same.             *)
LEMMA OnlyOthers ==
  ASSUME NEW q, NEW c, NEW l, Lists(q, c, l), Len(c) = 0
  PROVE  c = <<>> /\ l = q
<1>1. Line(q) /\ Line(c) /\ Line(l) /\ Spells(q, task_end, prev) /\ Kept(l, q, Task \ control)
  BY DEF Lists
<1>2. c = <<>>
  BY <1>1, NoneIn
<1>3. Elements(q) \cap control = {}
  BY <1>2, ListsAre, EmptyLine
<1>4. Kept(q, q, Task \ control)
  <2>1. Elements(q) \subseteq Task
    BY <1>1, SeqPlaces DEF Line, Elements
  <2>2. Kept(q, q, Task)
    BY <1>1, KeptAll
  <2>. QED
    BY <1>3, <2>1, <2>2, KeptSame
<1>5. q \in Seq(Task) /\ l \in Seq(Task)
  BY <1>1 DEF Line
<1>6. Met(task_end, prev, Task \ control) = q /\ Met(task_end, prev, Task \ control) = l
  BY <1>1, <1>4, <1>5, MetIs
<1>. QED
  BY <1>2, <1>6

(* get_task finds only other tasks.                                        *)
LEMMA OtherStep ==
  ASSUME NEW q, NEW c, NEW l, Lists(q, c, l), Safe, ~ closed, got = Null,
         sub_end = Null, task_end # Null, got' = task_end,
         task_q' = IF task_end = task_q THEN Null ELSE task_q,
         task_end' = IF task_end = task_q THEN Null ELSE prev[task_end],
         UNCHANGED <<next, prev, sub_q, sub_end>>, idle' = FALSE,
         UNCHANGED <<prev_control, control, live, closed>>
  PROVE  /\ Safe' /\ c = <<>> /\ l # <<>> /\ got' = Head(l)
         /\ \E q2 : Lists(q2, c, Tail(l))'
<1>1. Line(q) /\ Line(c) /\ Line(l) /\ Elements(q) \subseteq live
  BY DEF Lists
<1>2. Len(c) = 0 /\ Len(q) > 0 /\ Len(q) \in Nat
  <2>1. Len(c) \in Nat /\ Len(q) \in Nat /\ (Len(q) = 0 => task_end = Null)
    BY ListsAre
  <2>2. Len(c) > 0 => sub_end = c[1] /\ 1 \in 1 .. Len(c) /\ c[1] # Null
    BY <2>1, ListsAre
  <2>. QED
    BY <2>1, <2>2
<1>3. c = <<>> /\ l = q
  BY <1>2, OnlyOthers
<1>4. /\ \A i \in 1 .. Len(q) : q[i] \in Task
      /\ task_end = q[1] /\ task_q = q[Len(q)] /\ prev[q[Len(q)]] = Null
  BY <1>2, ListsAre
<1>5. q # <<>> /\ q[1] \in Elements(q)
  BY <1>1, <1>2, FirstOf
<1>. DEFINE q2 == Tail(q)
<1>6. /\ Line(q2) /\ Removed(q, 1, q2) /\ Head(q) = q[1]
      /\ Elements(q2) = Elements(q) \ {q[1]}
  BY <1>1, <1>5, Tailing
<1>. HIDE DEF q2
<1>7. 1 \in 1 .. Len(q) /\ Len(q) \in 1 .. Len(q)
  BY <1>2
<1>7a. Safe'
  <2>1. got' \in Pointers
    BY <1>4, <1>7 DEF Pointers
  <2>. QED
    BY <2>1 DEF Safe
<1>8. task_end = task_q <=> Len(q) = 1
  <2>1. \A i, j \in 1 .. Len(q) : q[i] = q[j] => i = j
    BY <1>1 DEF Line
  <2>. QED
    BY <1>2, <1>4, <1>7, <2>1
<1>9. Spells(q2, task_end', prev')
  <2>1. Spells(q, task_end, prev) /\ task_end' = prev[task_end] /\ prev' = prev
    BY <1>4, <1>8 DEF Lists
  <2>. QED
    BY <1>1, <1>6, <2>1, SpellsRemoved
<1>10. Back(q2, next') /\ task_q' = End(q2)
  <2>1. Back(q, next) /\ task_q = End(q) /\ next' = next
    BY DEF Lists
  <2>2. Back(q2, next)
    BY <1>1, <1>6, <2>1, BackRemoved
  <2>3. Len(q) = 1 \/ 1 # Len(q)
    OBVIOUS
  <2>. QED
    BY <1>1, <1>6, <1>8, <2>1, <2>2, EndIs
<1>11. Kept(q2, q2, (Task \ control)') /\ Kept(c, q2, control')
  <2>1. Kept(c, q, control) /\ Kept(q, q, Task \ control)
    BY <1>3 DEF Lists
  <2>2. Kept(q2, q2, Task \ control)
    BY <1>1, <1>6, <2>1, KeptRemovedFirst
  <2>3. q[1] \notin control
    <3>1. Elements(q) \cap control = {}
      BY <1>3, ListsAre, EmptyLine
    <3>. QED
      BY <1>5, <3>1
  <2>4. Kept(c, q2, control)
    BY <1>1, <1>6, <2>1, <2>3, KeptRemovedOut
  <2>. QED
    BY <2>2, <2>4
<1>12. Elements(q2) \subseteq live' /\ got' \notin Elements(q2) /\ got' \in live'
  BY <1>1, <1>4, <1>5, <1>6
<1>13. Spells(c, sub_end', prev_control') /\ sub_q' = End(c)
  BY DEF Lists
<1>14. Lists(q2, c, q2)'
  BY <1>1, <1>6, <1>9, <1>10, <1>11, <1>12, <1>13 DEF Lists
<1>. QED
  BY <1>3, <1>4, <1>5, <1>6, <1>7a, <1>14 DEF q2

LEMMA EmptyStep ==
  ASSUME NEW q, NEW c, NEW l, Lists(q, c, l), Safe, GetNothing
  PROVE  Safe' /\ Lists(q, c, l)'
<1>1. Safe'
  BY DEF GetNothing, Safe, links, ends
<1>2. ~ (Len(q) > 0)
  <2>1. Len(q) \in Nat
    BY ListsAre
  <2>2. Len(q) > 0 => task_end = q[1] /\ 1 \in 1 .. Len(q) /\ q[1] # Null
    BY <2>1, ListsAre
  <2>. QED
    BY <2>2 DEF GetNothing
<1>3. UNCHANGED <<links, ends, control, live, got>>
  BY DEF GetNothing
<1>. QED
  BY <1>1, <1>2, <1>3 DEF Lists, links, ends

LEMMA FreeStep ==
  ASSUME Safe, FreeTask
  PROVE  Safe' /\ \A q, c, l : Lists(q, c, l) => Lists(q, c, l)'
<1>0. UNCHANGED <<links, ends, control, idle>> /\ got' = Null /\ live' = live \ {got} /\ closed' = closed
  BY DEF FreeTask
<1>1. Safe'
  BY <1>0 DEF FreeTask, Safe, links, Pointers
<1>2. SUFFICES ASSUME NEW q, NEW c, NEW l, Lists(q, c, l) PROVE Lists(q, c, l)'
  BY <1>1
<1>3. Elements(q) \subseteq live' /\ Null \notin Elements(q)
  <2>1. Elements(q) \subseteq live /\ got \notin Elements(q)
    BY <1>2 DEF Lists
  <2>2. Elements(q) \subseteq Task
    BY <2>1 DEF Safe
  <2>. QED
    BY <1>0, <2>1, <2>2, TaskFinite
<1>. QED
  BY <1>0, <1>2, <1>3 DEF Lists, links, ends

LEMMA CleanupStep ==
  ASSUME Safe, Cleanup
  PROVE  Safe' /\ closed' /\ ~ closed /\ got' = got
  BY DEF Cleanup, Safe, links

LEMMA StepKeeps == Inv /\ [Next]_vars => Inv'
<1>. SUFFICES ASSUME Inv, [Next]_vars PROVE Inv'
  OBVIOUS
<1>1. Safe
  BY DEF Inv
<1>2. ASSUME ~ closed
      PROVE  \E q, c, l : Lists(q, c, l)
  BY <1>2 DEF Inv
<1>3. ASSUME NEW t \in Task, QueueAtFront(t)
      PROVE  Inv'
  <2>1. PICK q, c, l : Lists(q, c, l)
    BY <1>2, <1>3 DEF QueueAtFront, Create
  <2>. QED
    BY <1>1, <1>3, <2>1, FrontStep DEF Inv
<1>4. ASSUME NEW t \in Task, NEW k \in BOOLEAN, QueueTask(t, k)
      PROVE  Inv'
  <2>1. PICK q, c, l : Lists(q, c, l)
    BY <1>2, <1>4 DEF QueueTask, Create
  <2>2. Safe' /\ \E q2, c2, l2 : Lists(q2, c2, l2)'
    BY <1>1, <1>4, <2>1, InsertStep
  <2>. QED
    BY <2>2 DEF Inv
<1>5. CASE GetTask
  <2>1. PICK q, c, l : Lists(q, c, l)
    BY <1>2, <1>5 DEF GetTask
  <2>2. ~ closed /\ got = Null /\ idle' = FALSE /\ UNCHANGED <<prev_control, control, live, closed>>
    BY <1>5 DEF GetTask
  <2>3. CASE sub_end # Null /\ got' = sub_end /\ TakeControl
    BY <1>1, <2>1, <2>2, <2>3, ControlStep DEF Inv
  <2>4. CASE /\ sub_end = Null /\ task_end # Null /\ got' = task_end
             /\ task_q' = IF task_end = task_q THEN Null ELSE task_q
             /\ task_end' = IF task_end = task_q THEN Null ELSE prev[task_end]
             /\ UNCHANGED <<next, prev, sub_q, sub_end>>
    BY <1>1, <2>1, <2>2, <2>4, OtherStep DEF Inv
  <2>. QED
    BY <1>5, <2>3, <2>4 DEF GetTask
<1>6. CASE GetNothing
  <2>1. PICK q, c, l : Lists(q, c, l)
    BY <1>2, <1>6 DEF GetNothing
  <2>. QED
    BY <1>1, <1>6, <2>1, EmptyStep DEF Inv
<1>7. CASE FreeTask
  <2>1. Safe' /\ \A q, c, l : Lists(q, c, l) => Lists(q, c, l)'
    BY <1>1, <1>7, FreeStep
  <2>2. closed' = closed
    BY <1>7 DEF FreeTask
  <2>. QED
    BY <1>2, <2>1, <2>2 DEF Inv
<1>8. CASE Cleanup
  BY <1>1, <1>8, CleanupStep DEF Inv
<1>9. CASE UNCHANGED vars
  <2>1. UNCHANGED <<next, prev, prev_control, task_q, task_end, sub_q, sub_end>>
    BY <1>9 DEF vars, links, ends
  <2>2. UNCHANGED <<control, live, got, idle, closed>>
    BY <1>9 DEF vars
  <2>3. Safe'
    BY <1>1, <2>1, <2>2 DEF Safe
  <2>4. ASSUME NEW q, NEW c, NEW l, Lists(q, c, l)
        PROVE  Lists(q, c, l)'
    BY <2>1, <2>2, <2>4 DEF Lists
  <2>. QED
    BY <1>2, <2>2, <2>3, <2>4 DEF Inv
<1>. QED
  BY <1>3, <1>4, <1>5, <1>6, <1>7, <1>8, <1>9 DEF Next

LEMMA Invariant == Spec => []Inv
<1>1. Init => Inv
  BY InitLists
<1>. QED
  BY <1>1, StepKeeps, PTL DEF Spec
-----------------------------------------------------------------------------
(* What the pointers say of the lists.                                     *)

LEMMA Reads ==
  ASSUME NEW q, NEW c, NEW l, Lists(q, c, l)
  PROVE  ByAge = q /\ ControlByAge = c /\ Met(task_end, prev, Task \ control) = l
<1>1. Line(q) /\ Line(c) /\ l \in Seq(Task) /\ Spells(q, task_end, prev)
  BY DEF Lists, Line
<1>2. Spells(c, sub_end, prev_control) /\ Kept(l, q, Task \ control)
  BY DEF Lists
<1>3. Met(task_end, prev, Task \ control) = l
  BY <1>1, <1>2, MetIs
<1>. QED
  BY <1>1, <1>2, <1>3, WalkIs DEF ByAge, ControlByAge

LEMMA ReadsNext ==
  ASSUME NEW q, NEW c, NEW l, Lists(q, c, l)'
  PROVE  ControlByAge' = c /\ Met(task_end', prev', (Task \ control)') = l
<1>1. Line(q) /\ Line(c) /\ l \in Seq(Task) /\ Spells(q, task_end', prev')
  BY DEF Lists, Line
<1>2. Spells(c, sub_end', prev_control') /\ Kept(l, q, (Task \ control)')
  BY DEF Lists
<1>3. Met(task_end', prev', (Task \ control)') = l
  BY <1>1, <1>2, MetIs
<1>4. Walk(sub_end', prev_control') = c
  BY <1>1, <1>2, WalkIs
<1>. QED
  BY <1>3, <1>4 DEF ControlByAge

LEMMA InvLinked == Inv => WellLinked
<1>. SUFFICES ASSUME Inv, ~ closed PROVE WellLinked
  BY DEF WellLinked
<1>1. PICK q, c, l : Lists(q, c, l)
  BY DEF Inv
<1>2. ByAge = q /\ ControlByAge = c
  BY <1>1, Reads
<1>3. /\ Len(q) \in Nat /\ Len(c) \in Nat
      /\ \A i \in 1 .. Len(q) : q[i] \in Task /\ q[i] # Null
      /\ Len(q) = 0 => task_end = Null /\ task_q = Null
      /\ Len(q) > 0 => task_end = q[1] /\ task_q = q[Len(q)] /\ prev[q[Len(q)]] = Null
      /\ \A i \in 1 .. Len(q) - 1 : prev[q[i]] = q[i + 1]
      /\ \A i \in 2 .. Len(q) : next[q[i]] = q[i - 1]
      /\ Len(c) = 0 => sub_q = Null
      /\ Len(c) > 0 => sub_q = c[Len(c)]
      /\ Elements(c) = Elements(q) \cap control
  BY <1>1, ListsAre
<1>4. Elements(q) \subseteq live /\ got \notin Elements(q)
  BY <1>1 DEF Lists
<1>5. \A i, j \in 1 .. Len(q) : q[i] = q[j] => i = j
  BY <1>1 DEF Lists, Line
<1>6. task_q = Null <=> task_end = Null
  <2>1. CASE Len(q) = 0
    BY <1>3, <2>1
  <2>2. CASE Len(q) # 0
    <3>1. 1 \in 1 .. Len(q) /\ Len(q) \in 1 .. Len(q) /\ Len(q) > 0
      BY <1>3, <2>2
    <3>. QED
      BY <1>3, <3>1
  <2>. QED
    BY <2>1, <2>2
<1>7. Elements(q) # {} => task_q \in Elements(q)
  <2>1. SUFFICES ASSUME Elements(q) # {} PROVE task_q \in Elements(q)
    OBVIOUS
  <2>2. Len(q) > 0 /\ Len(q) \in 1 .. Len(q)
    BY <1>3, <2>1 DEF Elements
  <2>. QED
    BY <1>3, <2>2 DEF Elements
<1>8. ASSUME NEW t \in Elements(q)
      PROVE  IF t = task_q THEN prev[t] = Null
             ELSE prev[t] \in Elements(q) /\ next[prev[t]] = t
  <2>1. PICK i \in 1 .. Len(q) : q[i] = t
    BY DEF Elements
  <2>2. Len(q) > 0 /\ Len(q) \in 1 .. Len(q)
    BY <1>3, <2>1
  <2>3. CASE i = Len(q)
    BY <1>3, <2>1, <2>2, <2>3
  <2>4. CASE i # Len(q)
    <3>1. i \in 1 .. Len(q) - 1 /\ i + 1 \in 2 .. Len(q) /\ (i + 1) - 1 = i /\ i + 1 \in 1 .. Len(q)
      BY <1>3, <2>1, <2>4
    <3>2. t # task_q
      BY <1>3, <1>5, <2>1, <2>2, <2>4
    <3>3. prev[t] = q[i + 1] /\ next[q[i + 1]] = t
      BY <1>3, <2>1, <3>1
    <3>. QED
      BY <3>1, <3>2, <3>3 DEF Elements
  <2>. QED
    BY <2>3, <2>4
<1>9. sub_q # Null => sub_q = c[Len(c)]
  BY <1>3
<1>. QED
  BY <1>2, <1>3, <1>4, <1>6, <1>7, <1>8, <1>9 DEF WellLinked

(* The queue is well linked: the invariant of the lists of get_task         *)
(* (task_queue.c:240-315).                                                  *)
THEOREM QueueLinked == Spec => []WellLinked
<1>1. Inv => WellLinked
  BY InvLinked
<1>. QED
  BY <1>1, Invariant, PTL
-----------------------------------------------------------------------------
(* cleanup_task_queue follows next, the other way.                         *)

LEMMA LineCounts ==
  ASSUME NEW s, Line(s)
  PROVE  Cardinality(Elements(s)) = Len(s)
<1>1. Len(s) \in Nat /\ DOMAIN s = 1 .. Len(s) /\ s \in [1 .. Len(s) -> Task]
  BY LenProperties DEF Line
<1>2. s \in Bijection(1 .. Len(s), Elements(s))
  BY <1>1 DEF Line, Bijection, Injection, Surjection, IsInjective, Elements
<1>3. IsFiniteSet(1 .. Len(s)) /\ Cardinality(1 .. Len(s)) = Len(s)
  BY <1>1, IntervalIs
<1>. QED
  BY <1>2, <1>3, FS_Bijection DEF ExistsBijection

LEMMA Reversed ==
  ASSUME NEW q, Line(q), NEW start, NEW field, start = End(q), Back(q, field)
  PROVE  \E r : /\ Line(r) /\ Elements(r) = Elements(q)
                /\ Len(r) = Len(q)
                /\ Len(q) > 0 => start = r[1] /\ r[Len(r)] = q[1]
                /\ \A i \in 1 .. Len(r) - 1 : field[r[i]] = r[i + 1]
<1>1. Len(q) \in Nat /\ \A i \in 1 .. Len(q) : q[i] \in Task
  BY SeqPlaces DEF Line
<1>. DEFINE n == Len(q)
            r == [i \in 1 .. n |-> q[(n + 1) - i]]
<1>2. \A i \in 1 .. n : (n + 1) - i \in 1 .. n /\ r[i] = q[(n + 1) - i]
  BY <1>1
<1>3. r \in [1 .. n -> Task] /\ DOMAIN r = 1 .. n
  BY <1>1, <1>2
<1>. HIDE DEF r
<1>4. r \in Seq(Task) /\ Len(r) = n
  <2>. HIDE DEF n
  <2>1. n \in Nat
    BY <1>1 DEF n
  <2>2. r \in Seq(Task)
    BY <1>3, <2>1, SeqDef
  <2>3. DOMAIN r = 1 .. Len(r) /\ Len(r) \in Nat
    BY <2>2, SeqPlaces
  <2>. QED
    BY <1>3, <2>1, <2>2, <2>3
<1>5. Line(r)
  <2>1. ASSUME NEW i \in 1 .. Len(r), NEW j \in 1 .. Len(r), r[i] = r[j]
        PROVE  i = j
    <3>. DEFINE x == (n + 1) - i
                y == (n + 1) - j
    <3>1. i \in 1 .. n /\ j \in 1 .. n
      BY <1>4
    <3>2. x \in 1 .. n /\ y \in 1 .. n /\ q[x] = r[i] /\ q[y] = r[j]
      BY <1>2, <3>1
    <3>. HIDE DEF x, y, n
    <3>3. q[x] = q[y]
      BY <2>1, <3>2
    <3>4. x = y
      BY <3>2, <3>3 DEF Line, n
    <3>5. n \in Nat /\ i \in Int /\ j \in Int
      BY <1>1, <3>1 DEF n
    <3>. QED
      BY <3>4, <3>5 DEF x, y
  <2>. QED
    BY <1>4, <2>1 DEF Line
<1>6. Len(q) > 0 => start = r[1] /\ r[Len(r)] = q[1]
  <2>1. SUFFICES ASSUME n > 0 PROVE start = r[1] /\ r[n] = q[1]
    BY <1>4
  <2>2. 1 \in 1 .. n /\ n \in 1 .. n /\ (n + 1) - 1 = n /\ (n + 1) - n = 1 /\ n # 0
    BY <1>1, <2>1
  <2>3. r[1] = q[n] /\ r[n] = q[1]
    BY <1>2, <2>2
  <2>. QED
    BY <2>1, <2>2, <2>3 DEF End
<1>7. Elements(r) = Elements(q)
  <2>1. Elements(r) \subseteq Elements(q)
    <3>1. ASSUME NEW i \in 1 .. n
          PROVE  r[i] \in {q[j] : j \in 1 .. n}
      BY <1>2
    <3>. QED
      BY <1>4, <3>1 DEF Elements
  <2>2. ASSUME NEW x \in Elements(q) PROVE x \in Elements(r)
    <3>1. PICK i \in 1 .. n : q[i] = x
      BY DEF Elements
    <3>2. (n + 1) - i \in 1 .. n /\ (n + 1) - ((n + 1) - i) = i
      BY <1>1
    <3>3. r[(n + 1) - i] = x
      BY <1>2, <3>1, <3>2
    <3>. QED
      BY <1>4, <3>2, <3>3 DEF Elements
  <2>. QED
    BY <2>1, <2>2
<1>8. ASSUME NEW i \in 1 .. Len(r) - 1
      PROVE  field[r[i]] = r[i + 1]
  <2>1. /\ i \in 1 .. n /\ i + 1 \in 1 .. n /\ (n + 1) - i \in 2 .. n
        /\ (n + 1) - (i + 1) = ((n + 1) - i) - 1
    BY <1>1, <1>4
  <2>2. r[i] = q[(n + 1) - i] /\ r[i + 1] = q[((n + 1) - i) - 1]
    BY <1>2, <2>1
  <2>. DEFINE p == (n + 1) - i
  <2>3. p \in 2 .. Len(q) /\ r[i] = q[p] /\ r[i + 1] = q[p - 1]
    BY <2>1, <2>2
  <2>. HIDE DEF p
  <2>4. field[q[p]] = q[p - 1]
    BY <2>3 DEF Back
  <2>. QED
    BY <2>3, <2>4
<1>. QED
  BY <1>4, <1>5, <1>6, <1>7, <1>8

LEMMA Turned ==
  ASSUME NEW q, Line(q), NEW start, NEW field, start = End(q), Back(q, field),
         Len(q) > 0 => field[q[1]] = Null
  PROVE  \E r : Line(r) /\ Spells(r, start, field) /\ Elements(r) = Elements(q)
<1>1. PICK r : /\ Line(r) /\ Elements(r) = Elements(q)
               /\ Len(r) = Len(q)
               /\ Len(q) > 0 => start = r[1] /\ r[Len(r)] = q[1]
               /\ \A i \in 1 .. Len(r) - 1 : field[r[i]] = r[i + 1]
  BY Reversed
<1>2. Len(r) = 0 => start = Null
  BY <1>1 DEF End
<1>. QED
  BY <1>1, <1>2 DEF Spells

(* The walk meets what field leads to from start, whatever comes after.     *)
LEMMA WalkMeets ==
  ASSUME NEW r, Line(r), NEW start, NEW field, Len(r) > 0 => start = r[1],
         \A i \in 1 .. Len(r) - 1 : field[r[i]] = r[i + 1]
  PROVE  Elements(r) \subseteq Elements(Walk(start, field))
<1>. DEFINE at == Steps(start, field)
            places == {i \in 1 .. N : at[i] \in Task}
            ith(k) == CHOOSE i \in places : Cardinality(places \cap 1 .. i) = k
            w == Walk(start, field)
<1>1. w = [k \in 1 .. Cardinality(places) |-> at[ith(k)]]
  BY DEF Walk, Met, Steps, N
<1>2. /\ Len(r) \in Nat /\ Len(r) <= N /\ N \in Nat
      /\ \A i \in 1 .. Len(r) : r[i] \in Task /\ r[i] # Null
  BY LineFits, SeqPlaces, TaskFinite DEF Line
<1>3. \A i \in 1 .. N : at[i] = IF i = 1 THEN start
                                ELSE IF at[i - 1] = Null THEN Null ELSE field[at[i - 1]]
  BY StepsExist
<1>. HIDE DEF at
<1>4. \A i \in 1 .. Len(r) : at[i] = r[i]
  <2>. DEFINE Bad == {i \in 1 .. Len(r) : at[i] # r[i]}
  <2>1. ASSUME Bad # {} PROVE FALSE
    <3>1. Bad \subseteq Nat
      BY <1>2
    <3>2. PICK i \in Bad : \A j \in Bad : i <= j
      <4>. HIDE DEF Bad
      <4>. QED
        BY <2>1, <3>1, LeastNat
    <3>3. i \in 1 .. Len(r) /\ i \in 1 .. N /\ at[i] # r[i] /\ 1 \in 1 .. N
      BY <1>2, <3>2
    <3>4. i # 1
      BY <1>2, <1>3, <3>3
    <3>5. /\ i - 1 \in 1 .. Len(r) - 1 /\ i - 1 \in 1 .. Len(r) /\ (i - 1) + 1 = i
          /\ ~ (i <= i - 1)
      BY <1>2, <3>3, <3>4
    <3>6. at[i - 1] = r[i - 1]
      BY <3>2, <3>5
    <3>7. at[i] = field[r[i - 1]]
      BY <1>2, <1>3, <3>3, <3>4, <3>5, <3>6
    <3>. QED
      BY <3>3, <3>5, <3>7
  <2>. QED
    BY <2>1
<1>5. 1 .. Len(r) \subseteq places /\ places \subseteq 1 .. N
  BY <1>2, <1>4
<1>6. IsFiniteSet(1 .. N) /\ IsFiniteSet(places) /\ Cardinality(places) \in Nat
  BY <1>2, <1>5, IntervalIs, FS_Subset, FS_CardinalityType
<1>. HIDE DEF places
<1>7. ASSUME NEW i \in 1 .. N
      PROVE  /\ IsFiniteSet(places \cap 1 .. i)
             /\ Cardinality(places \cap 1 .. i) \in Nat
             /\ Cardinality(places \cap 1 .. i) <= Cardinality(places)
  <2>1. places \cap 1 .. i \subseteq places
    OBVIOUS
  <2>. QED
    BY <1>6, <2>1, FS_Subset, FS_CardinalityType
<1>8. ASSUME NEW i \in places, NEW j \in places, i < j
      PROVE  Cardinality(places \cap 1 .. i) # Cardinality(places \cap 1 .. j)
  <2>1. i \in 1 .. N /\ j \in 1 .. N
    BY <1>5
  <2>2. places \cap 1 .. i \subseteq places \cap 1 .. j
    BY <1>2, <1>8, <2>1
  <2>3. j \in places \cap 1 .. j /\ j \notin places \cap 1 .. i
    BY <1>2, <1>8, <2>1
  <2>4. IsFiniteSet(places \cap 1 .. j)
    BY <1>7, <2>1
  <2>. QED
    BY <2>2, <2>3, <2>4, FS_Subset
<1>9. ASSUME NEW i \in 1 .. Len(r)
      PROVE  \E k \in 1 .. Cardinality(places) : ith(k) = i
  <2>. DEFINE k == Cardinality(places \cap 1 .. i)
  <2>1. i \in places /\ i \in 1 .. N /\ i \in 1 .. i
    BY <1>2, <1>5
  <2>2. k \in Nat /\ k <= Cardinality(places) /\ IsFiniteSet(places \cap 1 .. i)
    BY <1>7, <2>1
  <2>3. k # 0
    <3>1. i \in places \cap 1 .. i
      BY <2>1
    <3>2. places \cap 1 .. i # {}
      BY <3>1
    <3>. HIDE DEF ith, w
    <3>. QED
      BY <2>2, <3>2, FS_EmptySet, Zenon
  <2>4. k \in 1 .. Cardinality(places)
    <3>. HIDE DEF k
    <3>. QED
      BY <1>6, <2>2, <2>3
  <2>5. ASSUME NEW j \in places, Cardinality(places \cap 1 .. j) = k
        PROVE  j = i
    <3>1. j \in Int /\ i \in Int
      BY <1>2, <1>5, <2>1
    <3>2. ~ (i < j) /\ ~ (j < i)
      BY <1>8, <2>1, <2>5
    <3>. QED
      BY <3>1, <3>2
  <2>6. ith(k) = i
    BY <2>1, <2>5
  <2>. QED
    BY <2>4, <2>6
<1>. HIDE DEF ith
<1>10. Len(w) = Cardinality(places)
  BY <1>1, <1>6
<1>11. ASSUME NEW i \in 1 .. Len(r)
       PROVE  r[i] \in Elements(w)
  <2>1. PICK k \in 1 .. Cardinality(places) : ith(k) = i
    BY <1>9
  <2>2. w[k] = r[i]
    BY <1>1, <1>4, <2>1
  <2>. QED
    BY <1>10, <2>2 DEF Elements
<1>. QED
  BY <1>11 DEF Elements

LEMMA CleanupFrees ==
  ASSUME Inv, [Next]_vars, closed', ~ closed
  PROVE  LET freed == Walk(task_q, next)
         IN /\ Elements(ByAge) \cap live' = {}
            /\ idle => /\ Elements(freed) = Elements(ByAge)
                       /\ Len(freed) = Cardinality(Elements(freed))
<1>1. PICK q, c, l : Lists(q, c, l)
  BY DEF Inv
<1>2. live' = live \ Elements(Walk(task_q, next))
  BY DEF Next, Cleanup, QueueAtFront, QueueTask, Create, GetTask, GetNothing, FreeTask, vars
<1>3. /\ Line(q) /\ task_q = End(q) /\ Back(q, next) /\ (idle /\ Len(q) > 0 => next[q[1]] = Null)
      /\ ByAge = q
  BY <1>1, Reads DEF Lists
<1>4. Elements(q) \subseteq Elements(Walk(task_q, next))
  <2>1. PICK r : /\ Line(r) /\ Elements(r) = Elements(q)
                 /\ Len(r) > 0 => task_q = r[1]
                 /\ \A i \in 1 .. Len(r) - 1 : next[r[i]] = r[i + 1]
    BY <1>3, Reversed
  <2>. QED
    BY <2>1, WalkMeets
<1>5. ASSUME idle
      PROVE  LET freed == Walk(task_q, next)
             IN Elements(freed) = Elements(q) /\ Len(freed) = Cardinality(Elements(freed))
  <2>1. PICK r : Line(r) /\ Spells(r, task_q, next) /\ Elements(r) = Elements(q)
    BY <1>3, <1>5, Turned
  <2>2. Walk(task_q, next) = r
    BY <2>1, WalkIs
  <2>3. Cardinality(Elements(r)) = Len(r)
    BY <2>1, LineCounts
  <2>. QED
    BY <2>1, <2>2, <2>3
<1>. QED
  BY <1>2, <1>3, <1>4, <1>5

(* No waiting task survives cleanup_task_queue, and when the thread is      *)
(* outside its loop each of them is freed once and nothing else is          *)
(* (task_queue.c:40-54).                                                    *)
THEOREM CleanupFreesAll == Spec => CleanupFreesQueue
<1>1. Inv /\ [Next]_vars =>
        [closed' /\ ~ closed =>
           LET freed == Walk(task_q, next)
           IN /\ Elements(ByAge) \cap live' = {}
              /\ idle => /\ Elements(freed) = Elements(ByAge)
                         /\ Len(freed) = Cardinality(Elements(freed))]_vars
  BY CleanupFrees
<1>. QED
  BY <1>1, Invariant, PTL DEF Spec, CleanupFreesQueue
-----------------------------------------------------------------------------
(* The refinement of TaskQueue: ctl is the list of the control tasks, low   *)
(* what the list of all tasks holds besides.                                *)

Ctl == IF closed THEN <<>> ELSE ControlByAge
Low == IF closed THEN <<>> ELSE Met(task_end, prev, Task \ control)

LEMMA Shown ==
  ASSUME NEW q, NEW c, NEW l, Lists(q, c, l), ~ closed
  PROVE  Ctl = c /\ Low = l
  BY Reads DEF Ctl, Low

LEMMA ShownNext ==
  ASSUME NEW q, NEW c, NEW l, Lists(q, c, l)', ~ closed'
  PROVE  Ctl' = c /\ Low' = l
<1>1. ControlByAge' = c /\ Met(task_end', prev', (Task \ control)') = l
  BY ReadsNext
<1>. QED
  BY <1>1 DEF Ctl, Low

LEMMA MembersAre ==
  ASSUME NEW s
  PROVE  Abstract!Members(s) = Elements(s)
  BY DEF Abstract!Members, Elements

(* Each step of the pointers is a step of the queue of its kind.            *)
LEMMA InsertMaps ==
  ASSUME Inv, NEW t \in Task, NEW k \in BOOLEAN, QueueTask(t, k)
  PROVE  Abstract!Insert(t, k)
<1>1. ~ closed /\ closed' = closed /\ got' = got
  BY DEF QueueTask, Create
<1>2. PICK q, c, l : Lists(q, c, l)
  BY <1>1 DEF Inv
<1>3. /\ t \notin Elements(c) /\ t \notin Elements(l) /\ t # got
      /\ \E q2 : Lists(q2, IF k THEN Append(c, t) ELSE c, IF k THEN l ELSE Append(l, t))'
  BY <1>2, InsertStep DEF Inv
<1>4. Ctl = c /\ Low = l
  BY <1>1, <1>2, Shown
<1>5. Ctl' = (IF k THEN Append(c, t) ELSE c) /\ Low' = (IF k THEN l ELSE Append(l, t))
  BY <1>1, <1>3, ShownNext
<1>6. t \notin Abstract!Members(Ctl) \cup Abstract!Members(Low) \cup ({got} \ {Null})
  BY <1>3, <1>4, MembersAre
<1>. QED
  BY <1>1, <1>4, <1>5, <1>6 DEF Abstract!Insert, Abstract!Held, Ctl, Low

LEMMA FrontMaps ==
  ASSUME Inv, NEW t \in Task, QueueAtFront(t)
  PROVE  Abstract!InsertAtFront(t)
<1>1. ~ closed /\ closed' = closed /\ got' = got
  BY DEF QueueAtFront, Create
<1>2. PICK q, c, l : Lists(q, c, l)
  BY <1>1 DEF Inv
<1>3. /\ t \notin Elements(c) /\ t \notin Elements(l) /\ t # got
      /\ \E q2 : Lists(q2, <<t>> \o c, l)'
  BY <1>2, FrontStep DEF Inv
<1>4. Ctl = c /\ Low = l
  BY <1>1, <1>2, Shown
<1>5. Ctl' = <<t>> \o c /\ Low' = l
  BY <1>1, <1>3, ShownNext
<1>6. t \notin Abstract!Members(Ctl) \cup Abstract!Members(Low) \cup ({got} \ {Null})
  BY <1>3, <1>4, MembersAre
<1>. QED
  BY <1>1, <1>4, <1>5, <1>6 DEF Abstract!InsertAtFront, Abstract!Held, Ctl, Low

LEMMA GetMaps ==
  ASSUME Inv, GetTask
  PROVE  Abstract!Get
<1>1. ~ closed /\ closed' = closed /\ got = Null /\ idle' = FALSE
      /\ UNCHANGED <<prev_control, control, live, closed>>
  BY DEF GetTask
<1>2. PICK q, c, l : Lists(q, c, l)
  BY <1>1 DEF Inv
<1>3. Ctl = c /\ Low = l
  BY <1>1, <1>2, Shown
<1>4. CASE sub_end # Null /\ got' = sub_end /\ TakeControl
  <2>1. c # <<>> /\ got' = Head(c) /\ \E q2 : Lists(q2, Tail(c), l)'
    BY <1>1, <1>2, <1>4, ControlStep DEF Inv
  <2>2. Ctl' = Tail(c) /\ Low' = l
    <3>. DEFINE c2 == Tail(c)
    <3>1. PICK q2 : Lists(q2, c2, l)'
      BY <2>1
    <3>. HIDE DEF c2
    <3>2. Ctl' = c2 /\ Low' = l
      BY <1>1, <3>1, ShownNext
    <3>. QED
      BY <3>2 DEF c2
  <2>. QED
    BY <1>1, <1>3, <2>1, <2>2 DEF Abstract!Get, Ctl, Low
<1>5. CASE /\ sub_end = Null /\ task_end # Null /\ got' = task_end
           /\ task_q' = IF task_end = task_q THEN Null ELSE task_q
           /\ task_end' = IF task_end = task_q THEN Null ELSE prev[task_end]
           /\ UNCHANGED <<next, prev, sub_q, sub_end>>
  <2>1. c = <<>> /\ l # <<>> /\ got' = Head(l) /\ \E q2 : Lists(q2, c, Tail(l))'
    BY <1>1, <1>2, <1>5, OtherStep DEF Inv
  <2>2. Ctl' = c /\ Low' = Tail(l)
    <3>. DEFINE l2 == Tail(l)
    <3>1. PICK q2 : Lists(q2, c, l2)'
      BY <2>1
    <3>. HIDE DEF l2
    <3>2. Ctl' = c /\ Low' = l2
      BY <1>1, <3>1, ShownNext
    <3>. QED
      BY <3>2 DEF l2
  <2>. QED
    BY <1>1, <1>3, <2>1, <2>2 DEF Abstract!Get, Ctl, Low
<1>. QED
  BY <1>4, <1>5 DEF GetTask

LEMMA SameMaps ==
  ASSUME UNCHANGED <<links, ends, control, closed>>
  PROVE  Ctl' = Ctl /\ Low' = Low
  BY DEF links, ends, Ctl, Low, ControlByAge, Walk

LEMMA StepMaps ==
  ASSUME Inv, [Next]_vars
  PROVE  [Abstract!QueueNext]_(Abstract!queueVars)
<1>1. ASSUME NEW t \in Task, QueueAtFront(t)
      PROVE  Abstract!QueueNext
  BY <1>1, FrontMaps DEF Abstract!QueueNext
<1>2. ASSUME NEW t \in Task, NEW k \in BOOLEAN, QueueTask(t, k)
      PROVE  Abstract!QueueNext
  BY <1>2, InsertMaps DEF Abstract!QueueNext
<1>3. CASE GetTask
  BY <1>3, GetMaps DEF Abstract!QueueNext
<1>4. CASE FreeTask
  <2>1. Ctl' = Ctl /\ Low' = Low /\ got # Null /\ got' = Null
    BY <1>4, SameMaps DEF FreeTask
  <2>2. Abstract!Done
    BY <2>1 DEF Abstract!Done, Ctl, Low
  <2>. QED
    BY <2>2 DEF Abstract!QueueNext
<1>5. CASE GetNothing \/ UNCHANGED vars
  <2>1. UNCHANGED <<links, ends, control, closed, got>>
    BY <1>5 DEF GetNothing, vars
  <2>2. Ctl' = Ctl /\ Low' = Low /\ got' = got
    BY <2>1, SameMaps
  <2>. QED
    BY <2>2 DEF Abstract!queueVars, Ctl, Low
<1>6. CASE Cleanup
  <2>1. closed' /\ got' = got
    BY <1>6 DEF Cleanup
  <2>2. Ctl' = <<>> /\ Low' = <<>>
    BY <2>1 DEF Ctl, Low
  <2>3. Abstract!Clear
    BY <2>1, <2>2 DEF Abstract!Clear, Ctl, Low
  <2>. QED
    BY <2>3 DEF Abstract!QueueNext
<1>. QED
  BY <1>1, <1>2, <1>3, <1>4, <1>5, <1>6 DEF Next

LEMMA InitMaps ==
  ASSUME Init
  PROVE  Abstract!QueueInit
<1>1. Lists(<<>>, <<>>, <<>>) /\ ~ closed /\ got = Null
  BY InitLists DEF Init
<1>2. Ctl = <<>> /\ Low = <<>>
  BY <1>1, Shown
<1>. QED
  BY <1>1, <1>2 DEF Abstract!QueueInit, Ctl, Low

(* The pointers of task_queue.c implement TaskQueue: control tasks first,   *)
(* each kind in the order of arrival, a TASK_GEN_RREQ before everything.    *)
THEOREM QueueImplements == Spec => ImplementsTaskQueue
<1>1. Init => Abstract!QueueInit
  BY InitMaps
<1>2. Inv /\ [Next]_vars => [Abstract!QueueNext]_(Abstract!queueVars)
  BY StepMaps
<1>. QED
  BY <1>1, <1>2, Invariant, PTL DEF Spec, ImplementsTaskQueue, Abstract!QueueSpec
=============================================================================
