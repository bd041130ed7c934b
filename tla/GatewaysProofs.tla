--------------------------- MODULE GatewaysProofs ---------------------------
(***************************************************************************)
(* Safety of Gateways for every network, every metric and any number of    *)
(* gateways, ST-RREQs and restarts.                                        *)
(***************************************************************************)
EXTENDS Gateways, WellFoundedInduction, FiniteSetTheorems, SequenceTheorems, TLAPS

Numbered == [gw : Gateway, id : Nat, hops : Nat, metric : Nat, from : Node]
Entries  == [ip : Gateway, id : Nat, metric : Nat]

ListOK  == list \in [Node -> Seq(Entries)]
TasksOK == tasks \in [Node -> Seq(Numbered)]
RestOK  == /\ id \in [Gateway -> Nat]
           /\ default \in [Node -> Gateway \cup {Null, Stray}]
TypeOK  == ListOK /\ TasksOK /\ RestOK
-----------------------------------------------------------------------------
(* Lists.                                                                  *)

LEMMA LeastNat ==
  ASSUME NEW T, T \subseteq Nat, T # {}
  PROVE  \E x \in T : \A y \in T : x <= y
<1>. DEFINE R == OpToRel(<, Nat)
<1>1. PICK x \in T : \A y \in T : <<y, x>> \notin R
  <2>1. IsWellFoundedOn(R, Nat)
    BY NatLessThanWellFounded
  <2>. HIDE DEF R
  <2>. QED
    BY <2>1, WFMin
<1>2. \A y \in T : ~ (y < x)
  BY <1>1 DEF OpToRel
<1>. QED
  BY <1>2

LEMMA SeqPlaces ==
  ASSUME NEW S, NEW l \in Seq(S)
  PROVE  /\ Len(l) \in Nat /\ DOMAIN l = 1 .. Len(l)
         /\ \A i \in DOMAIN l : l[i] \in S
  BY LenProperties

(* What a function on 1 .. n that keeps to S is.                           *)
LEMMA PlacesSeq ==
  ASSUME NEW S, NEW n \in Nat, NEW l, l = [i \in 1 .. n |-> l[i]],
         \A i \in 1 .. n : l[i] \in S
  PROVE  l \in Seq(S) /\ Len(l) = n
<1>1. l \in [1 .. n -> S]
  BY Zenon
<1>2. l \in Seq(S)
  BY <1>1, SeqDef
<1>3. DOMAIN l = 1 .. n
  BY <1>1
<1>. QED
  BY <1>2, <1>3, SeqPlaces

(* The indices of a list in their order: none is left out.                 *)
LEMMA InOrderAll ==
  ASSUME NEW n \in Nat, NEW I \in SUBSET (1 .. n), NEW f \in InOrder(I)
  PROVE  /\ DOMAIN f = 1 .. Cardinality(I) /\ Cardinality(I) \in Nat
         /\ \A i \in DOMAIN f : f[i] \in I
         /\ \A k \in I : \E i \in DOMAIN f : f[i] = k
<1>1. IsFiniteSet(I)
  <2>1. IsFiniteSet(1 .. n)
    BY FS_Interval
  <2>. QED
    BY <2>1, FS_Subset
<1>2. Cardinality(I) \in Nat
  BY <1>1, FS_CardinalityType
<1>. DEFINE D == 1 .. Cardinality(I)
<1>0. D \subseteq Nat
  BY <1>2
<1>3. f \in [D -> I] /\ \A i, j \in D : i < j => f[i] < f[j]
  BY DEF InOrder
<1>4. Cardinality(D) = Cardinality(I)
  BY <1>2, FS_Interval
<1>. HIDE DEF D
<1>5. \A i, j \in D : f[i] = f[j] => i = j
  <2>1. SUFFICES ASSUME NEW i \in D, NEW j \in D, i < j
                 PROVE  f[i] # f[j]
    BY <1>0
  <2>2. f[i] \in I /\ f[j] \in I /\ f[i] < f[j]
    BY <1>3, <2>1
  <2>3. \A k \in I : k \in Nat
    OBVIOUS
  <2>4. f[i] \in Nat /\ f[j] \in Nat
    BY <2>2, <2>3
  <2>. QED
    BY <2>2, <2>4
<1>6. f \in Injection(D, I)
  BY <1>3, <1>5 DEF Injection, IsInjective
<1>7. f \in Surjection(D, I)
  BY <1>1, <1>4, <1>6, FS_Injection
<1>. QED
  BY <1>2, <1>3, <1>7 DEF Surjection, D

LEMMA EntryType ==
  ASSUME NEW m \in Numbered
  PROVE  Entry(m) \in Entries
  BY DEF Numbered, Entries, Entry

LEMMA AtDef ==
  ASSUME NEW l, NEW g
  PROVE  At(l, g) # {} <=> \E i \in DOMAIN l : l[i].ip = g
  BY DEF At

(* An entry e is of the flood of m and at least as good.                   *)
Covers(e, m) == e.id = m.id /\ e.metric <= m.metric
Had(l, m) == \E i \in DOMAIN l : l[i].ip = m.gw /\ Covers(l[i], m)

(* update_gw: each gateway known stays known, by an entry that is no       *)
(* worse, and the new one is known.                                        *)
LEMMA UpdateGwKeeps ==
  ASSUME NEW l \in Seq(Entries), NEW m \in Numbered
  PROVE  /\ UpdateGw(l, m) \in Seq(Entries)
         /\ \A i \in DOMAIN l : \E j \in DOMAIN UpdateGw(l, m) :
              /\ UpdateGw(l, m)[j].ip = l[i].ip
              /\ UpdateGw(l, m)[j] = l[i] \/ (l[i].ip = m.gw /\ UpdateGw(l, m)[j] = Entry(m))
         /\ \E j \in DOMAIN UpdateGw(l, m) : UpdateGw(l, m)[j] = Entry(m)
<1>. DEFINE u == UpdateGw(l, m)
<1>1. /\ Len(l) \in Nat /\ DOMAIN l = 1 .. Len(l)
      /\ \A i \in DOMAIN l : l[i] \in Entries
  BY SeqPlaces
<1>2. Entry(m) \in Entries /\ Entry(m).ip = m.gw
  BY EntryType DEF Entry
<1>3. CASE At(l, m.gw) = {}
  <2>1. u = <<Entry(m)>> \o l
    BY <1>3 DEF UpdateGw
  <2>2. <<Entry(m)>> \in Seq(Entries) /\ Len(<<Entry(m)>>) = 1
        /\ <<Entry(m)>>[1] = Entry(m)
    BY <1>2
  <2>3. /\ u \in Seq(Entries) /\ Len(u) = 1 + Len(l)
        /\ \A i \in 1 .. 1 + Len(l) : u[i] = IF i <= 1 THEN <<Entry(m)>>[i] ELSE l[i - 1]
    BY <2>1, <2>2, ConcatProperties
  <2>4. DOMAIN u = 1 .. 1 + Len(l)
    BY <2>3, SeqPlaces
  <2>. HIDE DEF u
  <2>5. u[1] = Entry(m) /\ 1 \in DOMAIN u
    BY <1>1, <2>2, <2>3, <2>4
  <2>6. ASSUME NEW i \in DOMAIN l
        PROVE  i + 1 \in DOMAIN u /\ u[i + 1] = l[i]
    BY <1>1, <2>3, <2>4, <2>6
  <2>. QED
    BY <2>3, <2>5, <2>6 DEF u
<1>4. CASE At(l, m.gw) # {}
  <2>1. u = [i \in 1 .. Len(l) |-> IF l[i].ip = m.gw THEN Entry(m) ELSE l[i]]
    BY <1>1, <1>4 DEF UpdateGw
  <2>. HIDE DEF u
  <2>2. u = [i \in 1 .. Len(l) |-> u[i]] /\ \A i \in 1 .. Len(l) : u[i] \in Entries
    BY <1>1, <1>2, <2>1
  <2>3. u \in Seq(Entries) /\ DOMAIN u = DOMAIN l
    BY <1>1, <2>2, PlacesSeq
  <2>4. PICK k \in DOMAIN l : l[k].ip = m.gw
    BY <1>4 DEF At
  <2>5. u[k] = Entry(m)
    BY <1>1, <2>1, <2>4
  <2>6. ASSUME NEW i \in DOMAIN l
        PROVE  /\ u[i].ip = l[i].ip
               /\ u[i] = l[i] \/ (l[i].ip = m.gw /\ u[i] = Entry(m))
    BY <1>1, <1>2, <2>1
  <2>. QED
    BY <2>3, <2>5, <2>6 DEF u
<1>. QED
  BY <1>3, <1>4

LEMMA UpdateGwCovers ==
  ASSUME NEW l \in Seq(Entries), NEW m \in Numbered, ~ Refused(l, m)
  PROVE  /\ Had(UpdateGw(l, m), m)
         /\ \A w \in Numbered : (w.gw = m.gw => w.id = m.id) /\ Had(l, w)
                                  => Had(UpdateGw(l, m), w)
<1>. DEFINE u == UpdateGw(l, m)
<1>1. Entry(m).ip = m.gw /\ Covers(Entry(m), m)
  BY DEF Entry, Covers, Numbered
<1>2. ASSUME NEW w \in Numbered, w.gw = m.gw => w.id = m.id,
             NEW i \in DOMAIN l, l[i].ip = w.gw, Covers(l[i], w)
      PROVE  Had(u, w)
  <2>1. PICK j \in DOMAIN u :
          u[j].ip = l[i].ip /\ (u[j] = l[i] \/ (l[i].ip = m.gw /\ u[j] = Entry(m)))
    BY UpdateGwKeeps
  <2>2. CASE u[j] = l[i]
    BY <1>2, <2>1, <2>2 DEF Had
  <2>3. CASE l[i].ip = m.gw /\ u[j] = Entry(m)
    <3>1. ~ (l[i].id > m.id \/ (l[i].id = m.id /\ l[i].metric < m.metric))
      BY <2>3 DEF Refused, At
    <3>2. l[i] \in Entries
      BY SeqPlaces
    <3>3. Covers(Entry(m), w)
      BY <1>2, <2>3, <3>1, <3>2 DEF Covers, Entry, Entries, Numbered
    <3>. QED
      BY <1>2, <2>1, <2>3, <3>3 DEF Had
  <2>. QED
    BY <2>1, <2>2, <2>3
<1>. QED
  BY <1>1, <1>2, UpdateGwKeeps DEF Had

(* The walk of update_gw_lifetimes: the list that is left.                 *)
LiveOf(l, keep) == [i \in DOMAIN keep |-> l[keep[i]]]
LeftOf(l, keep, end) == LiveOf(l, keep) \o SubSeq(l, end + 1, Len(l))

\* Of l live is what the walk met and kept, left that and what it never reached.
Walked(l, due, live, left) ==
  /\ live \in Seq(Entries) /\ left \in Seq(Entries)
  /\ \A i \in DOMAIN live : \E j \in DOMAIN left : left[j] = live[i]
  /\ \A i \in DOMAIN l \ due : \E j \in DOMAIN left : left[j] = l[i]
  /\ \A j \in DOMAIN left : \E i \in DOMAIN l : left[j] = l[i]

LEMMA WalkKeeps ==
  ASSUME NEW l \in Seq(Entries), NEW due, NEW end \in Nat, end <= Len(l),
         NEW keep, keep \in InOrder((1 .. end) \ due)
  PROVE  Walked(l, due, LiveOf(l, keep), LeftOf(l, keep, end))
<1>. DEFINE I == (1 .. end) \ due
            live == LiveOf(l, keep)
            tail == SubSeq(l, end + 1, Len(l))
            out == LeftOf(l, keep, end)
<1>1. /\ Len(l) \in Nat /\ DOMAIN l = 1 .. Len(l)
      /\ \A i \in DOMAIN l : l[i] \in Entries
  BY SeqPlaces
<1>2. end \in Nat /\ end <= Len(l)
  OBVIOUS
<1>3. /\ DOMAIN keep = 1 .. Cardinality(I) /\ Cardinality(I) \in Nat
      /\ \A i \in DOMAIN keep : keep[i] \in I
      /\ \A k \in I : \E i \in DOMAIN keep : keep[i] = k
  <2>1. I \in SUBSET (1 .. end)
    OBVIOUS
  <2>. QED
    BY <1>2, <2>1, InOrderAll
<1>4. /\ live \in Seq(Entries) /\ Len(live) = Cardinality(I)
      /\ DOMAIN live = DOMAIN keep /\ \A i \in DOMAIN keep : live[i] = l[keep[i]]
  <2>1. live = [i \in 1 .. Cardinality(I) |-> l[keep[i]]]
    BY <1>3 DEF LiveOf
  <2>2. \A k \in I : l[k] \in Entries
    BY <1>1, <1>2
  <2>. HIDE DEF live, I
  <2>3. live = [i \in 1 .. Cardinality(I) |-> live[i]]
    BY <2>1
  <2>4. \A i \in 1 .. Cardinality(I) : live[i] \in Entries
    BY <1>3, <2>1, <2>2
  <2>5. live \in Seq(Entries) /\ Len(live) = Cardinality(I)
    BY <1>3, <2>3, <2>4, PlacesSeq
  <2>. QED
    BY <1>3, <2>1, <2>5
<1>5. /\ tail \in Seq(Entries) /\ Len(tail) = Len(l) - end
      /\ \A i \in 1 .. Len(l) - end : tail[i] = l[end + i]
  <2>1. end + 1 \in Int /\ Len(l) \in Int
    BY <1>1, <1>2
  <2>2. \A i \in end + 1 .. Len(l) : l[i] \in Entries
    BY <1>1, <1>2
  <2>3. /\ tail \in Seq(Entries)
        /\ Len(tail) = IF end + 1 <= Len(l) THEN Len(l) - (end + 1) + 1 ELSE 0
        /\ \A i \in 1 .. Len(l) - (end + 1) + 1 : tail[i] = l[end + 1 + i - 1]
    BY <2>1, <2>2, SubSeqProperties
  <2>. HIDE DEF tail
  <2>4. Len(tail) = Len(l) - end
    <3>. DEFINE a == Len(l)
                b == Len(tail)
    <3>1. a \in Nat /\ end <= a /\ b = IF end + 1 <= a THEN a - (end + 1) + 1 ELSE 0
      BY <1>1, <2>3
    <3>. HIDE DEF a, b
    <3>2. b = a - end
      BY <3>1
    <3>. QED
      BY <3>2 DEF a, b
  <2>5. ASSUME NEW i \in 1 .. Len(l) - end
        PROVE  tail[i] = l[end + i]
    <3>1. end + 1 + i - 1 = end + i /\ i \in 1 .. Len(l) - (end + 1) + 1
      BY <1>1, <1>2
    <3>. QED
      BY <2>3, <3>1
  <2>. QED
    BY <2>3, <2>4, <2>5
<1>. HIDE DEF live, tail, I
<1>6. out = live \o tail
  BY DEF LeftOf, live, tail
<1>. HIDE DEF out
<1>7. /\ out \in Seq(Entries) /\ Len(out) = Len(live) + Len(tail)
      /\ \A i \in 1 .. Len(live) + Len(tail) :
           out[i] = IF i <= Len(live) THEN live[i] ELSE tail[i - Len(live)]
  <2>1. /\ live \o tail \in Seq(Entries) /\ Len(live \o tail) = Len(live) + Len(tail)
        /\ \A i \in 1 .. Len(live) + Len(tail) :
             (live \o tail)[i] = IF i <= Len(live) THEN live[i] ELSE tail[i - Len(live)]
    BY <1>4, <1>5, ConcatProperties
  <2>. QED
    BY <1>6, <2>1
<1>8. DOMAIN out = 1 .. Len(live) + Len(tail)
  BY <1>7, SeqPlaces
<1>9. \A i \in DOMAIN live : i \in DOMAIN out /\ out[i] = live[i]
  BY <1>1, <1>2, <1>3, <1>4, <1>5, <1>7, <1>8
<1>10. ASSUME NEW i \in DOMAIN l \ due
       PROVE  \E j \in DOMAIN out : out[j] = l[i]
  <2>1. CASE i <= end
    <3>1. i \in I
      BY <1>1, <1>2, <2>1 DEF I
    <3>2. PICK j \in DOMAIN keep : keep[j] = i
      BY <1>3, <3>1
    <3>. QED
      BY <1>4, <1>9, <3>2
  <2>2. CASE i > end
    <3>. DEFINE j == Len(live) + (i - end)
    <3>1. j \in DOMAIN out /\ out[j] = tail[i - end]
      <4>. DEFINE a == Len(live)
                  b == Len(tail)
                  k == i - end
      <4>1. a \in Nat /\ b \in Nat
        BY <1>4, <1>5, SeqPlaces
      <4>2. k \in 1 .. b
        BY <1>1, <1>2, <1>5, <2>2
      <4>3. /\ DOMAIN out = 1 .. a + b
            /\ \A x \in 1 .. a + b : out[x] = IF x <= a THEN live[x] ELSE tail[x - a]
        BY <1>7, <1>8
      <4>4. j = a + k
        OBVIOUS
      <4>. HIDE DEF a, b, k, j
      <4>5. a + k \in 1 .. a + b /\ ~ (a + k <= a) /\ (a + k) - a = k
        BY <4>1, <4>2
      <4>6. j \in DOMAIN out /\ out[j] = tail[k]
        BY <4>3, <4>4, <4>5
      <4>. QED
        BY <4>6 DEF k
    <3>2. tail[i - end] = l[i]
      <4>1. i - end \in 1 .. Len(l) - end /\ end + (i - end) = i
        BY <1>1, <1>2, <2>2
      <4>. QED
        BY <1>5, <4>1
    <3>. HIDE DEF j
    <3>. QED
      BY <3>1, <3>2
  <2>. QED
    BY <1>1, <1>2, <2>1, <2>2
<1>11. ASSUME NEW j \in DOMAIN out
       PROVE  \E i \in DOMAIN l : out[j] = l[i]
  <2>1. CASE j \in DOMAIN live
    <3>1. \A k \in I : k \in DOMAIN l
      BY <1>1, <1>2 DEF I
    <3>2. keep[j] \in I
      BY <1>3, <1>4, <2>1
    <3>. QED
      BY <1>4, <1>9, <2>1, <3>1, <3>2
  <2>2. CASE j \notin DOMAIN live
    <3>. DEFINE i == j - Len(live)
    <3>1. i \in 1 .. Len(l) - end /\ out[j] = tail[i]
      BY <1>1, <1>2, <1>3, <1>4, <1>5, <1>7, <1>8, <2>2
    <3>2. end + i \in DOMAIN l /\ tail[i] = l[end + i]
      BY <1>1, <1>2, <1>5, <3>1
    <3>. QED
      BY <3>1, <3>2
  <2>. QED
    BY <2>1, <2>2
<1>. QED
  BY <1>4, <1>7, <1>9, <1>10, <1>11 DEF live, out, Walked

(* The default gateway is one of the list's, or there is none.             *)
LEMMA BestListed ==
  ASSUME NEW l \in Seq(Entries), Best(l) # Null
  PROVE  \E i \in DOMAIN l : l[i].ip = Best(l)
<1>. DEFINE fit == {i \in DOMAIN l : l[i].metric < Limit}
            least == {i \in fit : \A j \in fit : l[i].metric <= l[j].metric}
<1>1. /\ DOMAIN l \subseteq Nat /\ \A i \in DOMAIN l : l[i] \in Entries
  BY SeqPlaces
<1>2. fit # {} /\ Best(l) = l[CHOOSE i \in least : \A j \in least : i <= j].ip
  BY DEF Best
<1>3. \E i \in fit : i \in least
  <2>. DEFINE M == {l[i].metric : i \in fit}
  <2>1. M \subseteq Nat /\ M # {}
    BY <1>1, <1>2 DEF Entries
  <2>2. PICK x \in M : \A y \in M : x <= y
    BY <2>1, LeastNat
  <2>3. PICK i \in fit : l[i].metric = x
    BY <2>2
  <2>4. \A j \in fit : l[j].metric \in M
    OBVIOUS
  <2>. HIDE DEF M, fit
  <2>. QED
    BY <2>2, <2>3, <2>4
<1>4. \E i \in least : \A j \in least : i <= j
  <2>1. least \subseteq Nat /\ least # {}
    BY <1>1, <1>3
  <2>. HIDE DEF least
  <2>. QED
    BY <2>1, LeastNat
<1>5. (CHOOSE i \in least : \A j \in least : i <= j) \in least
  <2>. HIDE DEF least
  <2>. QED
    BY <1>4
<1>6. least \subseteq DOMAIN l
  OBVIOUS
<1>. HIDE DEF fit, least
<1>. QED
  BY <1>2, <1>5, <1>6
-----------------------------------------------------------------------------
(* Types, and who hears whom.                                              *)

(* What waits for n was sent by a node that reaches n.                     *)
Heard ==
  \A n \in Node : \A i \in DOMAIN tasks[n] : n \in Link[tasks[n][i].from]

Base == TypeOK /\ Heard

Comes(m, n, before) ==
  \A k \in Node : \A i \in DOMAIN tasks'[k] :
    \/ tasks'[k][i] = m /\ k \in Link[n]
    \/ \E j \in DOMAIN before[k] : tasks'[k][i] = before[k][j]

LEMMA BroadcastGives ==
  ASSUME NEW n \in Node, NEW m \in Numbered, NEW before \in [Node -> Seq(Numbered)],
         Broadcast(n, m, before)
  PROVE  tasks' \in [Node -> Seq(Numbered)] /\ Comes(m, n, before)
<1>1. Link[n] \subseteq Node
  BY GatewayAssumption DEF GatewayAssumption
<1>2. PICK heard \in SUBSET Link[n] :
        tasks' = [k \in Node |-> IF k \in heard THEN Append(before[k], m) ELSE before[k]]
  <2>. DEFINE reach == IF m.hops < NetDiameter THEN Link[n] ELSE {}
  <2>1. \E heard \in SUBSET reach :
          tasks' = [k \in Node |-> IF k \in heard THEN Append(before[k], m) ELSE before[k]]
    BY DEF Broadcast
  <2>2. reach \subseteq Link[n]
    OBVIOUS
  <2>. HIDE DEF reach
  <2>. QED
    BY <2>1, <2>2
<1>3. ASSUME NEW k \in Node
      PROVE  /\ tasks'[k] \in Seq(Numbered)
             /\ \A i \in DOMAIN tasks'[k] :
                  \/ tasks'[k][i] = m /\ k \in Link[n]
                  \/ \E j \in DOMAIN before[k] : tasks'[k][i] = before[k][j]
  <2>. DEFINE b == before[k]
  <2>1. b \in Seq(Numbered) /\ Len(b) \in Nat /\ DOMAIN b = 1 .. Len(b)
    BY SeqPlaces
  <2>2. CASE k \notin heard
    BY <1>2, <2>1, <2>2
  <2>3. CASE k \in heard
    <3>1. tasks'[k] = Append(b, m) /\ k \in Link[n]
      BY <1>2, <2>3
    <3>. HIDE DEF b
    <3>2. /\ tasks'[k] \in Seq(Numbered) /\ Len(tasks'[k]) = Len(b) + 1
          /\ \A i \in 1 .. Len(b) : tasks'[k][i] = b[i]
          /\ tasks'[k][Len(b) + 1] = m
      BY <2>1, <3>1, AppendProperties
    <3>3. DOMAIN tasks'[k] = 1 .. Len(b) + 1
      BY <3>2, SeqPlaces
    <3>4. \A i \in DOMAIN tasks'[k] : i = Len(b) + 1 \/ i \in 1 .. Len(b)
      BY <2>1, <3>3
    <3>. QED
      BY <2>1, <3>1, <3>2, <3>4 DEF b
  <2>. QED
    BY <2>2, <2>3
<1>4. tasks' = [k \in Node |-> tasks'[k]]
  BY <1>2
<1>5. tasks' \in [Node -> Seq(Numbered)]
  BY <1>3, <1>4
<1>. QED
  BY <1>3, <1>5 DEF Comes

Earlier(before) ==
  \A k \in Node : \A i \in DOMAIN before[k] :
    \E j \in DOMAIN tasks[k] : before[k][i] = tasks[k][j]

(* What gen_st_rreq sends, and what recv_rreq_st passes on.                *)
First(g) == [gw |-> g, id |-> id[g] + 1, hops |-> 0, metric |-> 0, from |-> g]
Here(n, m) == [m EXCEPT !.hops = @ + 1, !.metric = @ + Cost[n][m.from], !.from = n]
Rest(n) == [tasks EXCEPT ![n] = Tail(@)]

LEMMA FirstType ==
  ASSUME TypeOK, NEW g \in Gateway
  PROVE  g \in Node /\ First(g) \in Numbered
<1>1. g \in Node /\ id[g] \in Nat
  BY GatewayAssumption DEF GatewayAssumption, TypeOK, RestOK
<1>. QED
  BY <1>1 DEF First, Numbered

LEMMA HeadHeard ==
  ASSUME Base, NEW n \in Node, tasks[n] # <<>>
  PROVE  /\ 1 \in DOMAIN tasks[n] /\ Head(tasks[n]) = tasks[n][1]
         /\ Head(tasks[n]) \in Numbered /\ n \in Link[Head(tasks[n]).from]
<1>1. tasks[n] \in Seq(Numbered)
  BY DEF Base, TypeOK, TasksOK
<1>2. Len(tasks[n]) \in Nat /\ DOMAIN tasks[n] = 1 .. Len(tasks[n]) /\ Len(tasks[n]) # 0
  BY <1>1, SeqPlaces, EmptySeq
<1>3. 1 \in DOMAIN tasks[n] /\ Head(tasks[n]) = tasks[n][1]
  BY <1>1, <1>2
<1>. QED
  BY <1>1, <1>3, HeadTailProperties DEF Base, Heard

LEMMA HereType ==
  ASSUME NEW n \in Node, NEW m \in Numbered, n \in Link[m.from]
  PROVE  /\ Here(n, m) \in Numbered
         /\ Here(n, m).gw = m.gw /\ Here(n, m).id = m.id
         /\ Here(n, m).hops = m.hops + 1 /\ Here(n, m).metric > m.metric
         /\ Here(n, m).metric = m.metric + Cost[n][m.from] /\ Here(n, m).from = n
<1>1. m.from \in Node
  BY DEF Numbered
<1>. DEFINE c == Cost[n][m.from]
<1>2. c \in Nat \ {0}
  BY <1>1, GatewayAssumption DEF GatewayAssumption
<1>3. Here(n, m) = [m EXCEPT !.hops = @ + 1, !.metric = @ + c, !.from = n]
  BY DEF Here
<1>. HIDE DEF c
<1>4. Here(n, m) = [gw |-> m.gw, id |-> m.id, hops |-> m.hops + 1,
                    metric |-> m.metric + c, from |-> n]
  BY <1>3 DEF Numbered
<1>5. m.gw \in Gateway /\ m.id \in Nat /\ m.hops \in Nat /\ m.metric \in Nat
  BY DEF Numbered
<1>6. m.hops + 1 \in Nat /\ m.metric + c \in Nat /\ m.metric + c > m.metric
  BY <1>2, <1>5
<1>7. Here(n, m) \in Numbered
  BY <1>4, <1>5, <1>6 DEF Numbered
<1>8. Here(n, m).metric = m.metric + Cost[n][m.from]
  BY <1>4 DEF c
<1>. QED
  BY <1>4, <1>6, <1>7, <1>8

LEMMA RestGives ==
  ASSUME TasksOK, NEW n \in Node, tasks[n] # <<>>
  PROVE  Rest(n) \in [Node -> Seq(Numbered)] /\ Earlier(Rest(n))
<1>. DEFINE t == Tail(tasks[n])
<1>1. tasks \in [Node -> Seq(Numbered)] /\ tasks[n] \in Seq(Numbered)
  BY DEF TasksOK
<1>2. /\ t \in Seq(Numbered) /\ Len(t) = Len(tasks[n]) - 1
      /\ \A i \in 1 .. Len(t) : t[i] = tasks[n][i + 1]
  BY <1>1, HeadTailProperties
<1>3. /\ DOMAIN t = 1 .. Len(t) /\ DOMAIN tasks[n] = 1 .. Len(tasks[n])
      /\ Len(tasks[n]) \in Nat
  BY <1>1, <1>2, SeqPlaces
<1>. HIDE DEF t
<1>4. ASSUME NEW i \in DOMAIN t
      PROVE  i + 1 \in DOMAIN tasks[n] /\ t[i] = tasks[n][i + 1]
  BY <1>2, <1>3
<1>5. Rest(n) = [tasks EXCEPT ![n] = t]
  BY DEF Rest, t
<1>. QED
  BY <1>1, <1>2, <1>4, <1>5 DEF Earlier

(* A message that waits after a step waited before it, or is new.          *)
LEMMA ComesHeard ==
  ASSUME NEW n \in Node, NEW m \in Numbered, m.from = n, NEW before, Heard,
         Earlier(before), Comes(m, n, before)
  PROVE  Heard'
<1>. SUFFICES ASSUME NEW k \in Node, NEW i \in DOMAIN tasks'[k]
              PROVE  k \in Link[tasks'[k][i].from]
  BY DEF Heard
<1>1. CASE tasks'[k][i] = m /\ k \in Link[n]
  BY <1>1
<1>2. CASE \E j \in DOMAIN before[k] : tasks'[k][i] = before[k][j]
  <2>1. PICK j \in DOMAIN tasks[k] : tasks'[k][i] = tasks[k][j]
    BY <1>2 DEF Earlier
  <2>. QED
    BY <2>1 DEF Heard
<1>. QED
  BY <1>1, <1>2 DEF Comes

LEMMA GenStep ==
  ASSUME Base, NEW g \in Gateway, GenStRreq(g)
  PROVE  Base' /\ Comes(First(g), g, tasks) /\ list' = list
<1>1. g \in Node /\ First(g) \in Numbered
  BY FirstType DEF Base
<1>2. Broadcast(g, First(g), tasks)
  BY DEF GenStRreq, First
<1>3. tasks' \in [Node -> Seq(Numbered)] /\ Comes(First(g), g, tasks)
  BY <1>1, <1>2, BroadcastGives DEF Base, TypeOK, TasksOK
<1>4. Heard'
  <2>1. Earlier(tasks) /\ First(g).from = g
    BY DEF Earlier, First
  <2>. QED
    BY <1>1, <1>3, <2>1, ComesHeard DEF Base
<1>5. id' \in [Gateway -> Nat]
  BY DEF Base, TypeOK, RestOK, GenStRreq
<1>. QED
  BY <1>3, <1>4, <1>5 DEF Base, TypeOK, ListOK, TasksOK, RestOK, GenStRreq

(* recv_rreq_st drops the first ST-RREQ, or takes it and passes it on.     *)
Drops(n) ==
  LET m == Head(tasks[n]) IN
  /\ n = m.gw \/ Refused(list[n], Here(n, m))
  /\ tasks' = Rest(n) /\ list' = list
Takes(n) ==
  LET m == Head(tasks[n]) IN
  /\ n # m.gw /\ ~ Refused(list[n], Here(n, m))
  /\ list' = [list EXCEPT ![n] = UpdateGw(@, Here(n, m))]
  /\ Broadcast(n, Here(n, m), Rest(n))

LEMMA RecvStep ==
  ASSUME Base, NEW n \in Node, RecvRreqSt(n)
  PROVE  /\ Base' /\ tasks[n] # <<>>
         /\ \/ Drops(n)
            \/ Takes(n) /\ Comes(Here(n, Head(tasks[n])), n, Rest(n))
<1>. DEFINE m == Head(tasks[n])
            here == Here(n, m)
<1>1. tasks[n] # <<>> /\ UNCHANGED <<id, default, restarts>>
  BY DEF RecvRreqSt
<1>2. Drops(n) \/ Takes(n)
  BY DEF RecvRreqSt, Drops, Takes, Here, Rest
<1>3. m \in Numbered /\ n \in Link[m.from] /\ here \in Numbered /\ here.from = n
  BY <1>1, HeadHeard, HereType
<1>4. Rest(n) \in [Node -> Seq(Numbered)] /\ Earlier(Rest(n))
  BY <1>1, RestGives DEF Base, TypeOK
<1>. HIDE DEF m, here
<1>5. CASE Drops(n)
  <2>1. tasks' = Rest(n) /\ list' = list
    BY <1>5 DEF Drops
  <2>2. Heard'
    <3>. SUFFICES ASSUME NEW k \in Node, NEW i \in DOMAIN tasks'[k]
                  PROVE  k \in Link[tasks'[k][i].from]
      BY DEF Heard
    <3>1. PICK j \in DOMAIN tasks[k] : tasks'[k][i] = tasks[k][j]
      BY <1>4, <2>1 DEF Earlier
    <3>. QED
      BY <3>1 DEF Base, Heard
  <2>. QED
    BY <1>1, <1>4, <1>5, <2>1, <2>2 DEF Base, TypeOK, ListOK, TasksOK, RestOK
<1>6. CASE Takes(n)
  <2>1. Broadcast(n, here, Rest(n)) /\ list' = [list EXCEPT ![n] = UpdateGw(@, here)]
    BY <1>6 DEF Takes, m, here
  <2>2. tasks' \in [Node -> Seq(Numbered)] /\ Comes(here, n, Rest(n))
    BY <1>3, <1>4, <2>1, BroadcastGives
  <2>3. Heard'
    BY <1>3, <1>4, <2>2, ComesHeard DEF Base
  <2>4. list' \in [Node -> Seq(Entries)]
    <3>1. list[n] \in Seq(Entries) /\ list \in [Node -> Seq(Entries)]
      BY DEF Base, TypeOK, ListOK
    <3>2. UpdateGw(list[n], here) \in Seq(Entries)
      BY <1>3, <3>1, UpdateGwKeeps
    <3>. QED
      BY <2>1, <3>1, <3>2
  <2>. QED
    BY <1>1, <1>6, <2>2, <2>3, <2>4 DEF Base, TypeOK, ListOK, TasksOK, RestOK, m, here
<1>. QED
  BY <1>2, <1>5, <1>6

(* update_gw_lifetimes: an entry that the flood under way renewed stays,   *)
(* and the default gateway is one of those left.                           *)
LEMMA WalkStep ==
  ASSUME Base, NEW n \in Node, UpdateGwLifetimes(n)
  PROVE  /\ Base' /\ tasks' = tasks
         /\ \A k \in Node \ {n} : list'[k] = list[k] /\ default'[k] = default[k]
         /\ \A i \in DOMAIN list[n] :
              Waiting(list[n][i].ip, list[n][i].id)
                => \E j \in DOMAIN list'[n] : list'[n][j] = list[n][i]
         /\ default'[n] \notin {Null, Stray} =>
              \E j \in DOMAIN list'[n] : list'[n][j].ip = default'[n]
<1>. DEFINE l == list[n]
<1>1. PICK due, end, keep :
        /\ due \in SUBSET {i \in DOMAIN l : ~ Waiting(l[i].ip, l[i].id)}
        /\ end \in due \cup {Len(l)} /\ keep \in InOrder((1 .. end) \ due)
        /\ list' = [list EXCEPT ![n] = LeftOf(l, keep, end)]
        /\ \/ default' = [default EXCEPT ![n] = Best(LiveOf(l, keep))]
           \/ end \in due /\ default' = [default EXCEPT ![n] = Stray]
        /\ UNCHANGED <<id, tasks, restarts, hurt>>
  BY DEF UpdateGwLifetimes, MayBeDue, LeftOf, LiveOf
<1>4. /\ list \in [Node -> Seq(Entries)] /\ l \in Seq(Entries)
      /\ default \in [Node -> Gateway \cup {Null, Stray}]
  BY DEF Base, TypeOK, ListOK, RestOK
<1>5. Len(l) \in Nat /\ DOMAIN l = 1 .. Len(l)
  BY <1>4, SeqPlaces
<1>6. end \in Nat /\ end <= Len(l)
  BY <1>1, <1>5
<1>. DEFINE live == LiveOf(l, keep)
            left == LeftOf(l, keep, end)
<1>7. /\ live \in Seq(Entries) /\ left \in Seq(Entries)
      /\ \A i \in DOMAIN live : \E j \in DOMAIN left : left[j] = live[i]
      /\ \A i \in DOMAIN l \ due : \E j \in DOMAIN left : left[j] = l[i]
  <2>1. keep \in InOrder((1 .. end) \ due)
    BY <1>1
  <2>2. l \in Seq(Entries)
    BY <1>4
  <2>. HIDE DEF l
  <2>3. Walked(l, due, live, left)
    BY <1>6, <2>1, <2>2, WalkKeeps
  <2>. QED
    BY <2>3 DEF Walked
<1>. HIDE DEF l, live, left
<1>8. list' = [list EXCEPT ![n] = left] /\ list'[n] = left
  BY <1>1, <1>4 DEF left
<1>9. Best(live) # Null => \E j \in DOMAIN left : left[j].ip = Best(live)
  BY <1>7, BestListed
<1>10. Best(live) \in Gateway \cup {Null}
  <2>0. \A j \in DOMAIN left : left[j] \in Entries
    BY <1>7, SeqPlaces
  <2>1. \A j \in DOMAIN left : left[j].ip \in Gateway
    BY <2>0 DEF Entries
  <2>. QED
    BY <1>9, <2>1
<1>11. \/ default' = [default EXCEPT ![n] = Best(live)]
       \/ default' = [default EXCEPT ![n] = Stray]
  BY <1>1 DEF live
<1>12. Base'
  <2>1. UNCHANGED <<id, tasks>>
    BY <1>1
  <2>2. ListOK'
    BY <1>4, <1>7, <1>8 DEF ListOK
  <2>3. RestOK'
    BY <1>4, <1>10, <1>11, <2>1 DEF Base, TypeOK, RestOK
  <2>4. TasksOK' /\ Heard'
    BY <2>1 DEF Base, TypeOK, TasksOK, Heard
  <2>. QED
    BY <2>2, <2>3, <2>4 DEF Base, TypeOK
<1>13. \A i \in DOMAIN l : Waiting(l[i].ip, l[i].id) => i \notin due
  BY <1>1
<1>. QED
  BY <1>1, <1>4, <1>7, <1>8, <1>9, <1>11, <1>12, <1>13 DEF l

LEMMA RestartStep ==
  ASSUME Base, NEW g \in Gateway, Restart(g)
  PROVE  /\ Base' /\ \A h \in Gateway \ {g} : Quiet(h)
         /\ \A k \in Node \ {g} : list'[k] = list[k] /\ default'[k] = default[k]
         /\ default'[g] = Null
         /\ \A k \in Node : \A i \in DOMAIN tasks'[k] :
              i \in DOMAIN tasks[k] /\ tasks'[k][i] = tasks[k][i]
<1>1. g \in Node
  BY GatewayAssumption DEF GatewayAssumption
<1>2. /\ list \in [Node -> Seq(Entries)] /\ tasks \in [Node -> Seq(Numbered)]
      /\ default \in [Node -> Gateway \cup {Null, Stray}]
      /\ id \in [Gateway -> Nat]
  BY DEF Base, TypeOK, ListOK, TasksOK, RestOK
<1>3. /\ id' = [id EXCEPT ![g] = 0] /\ list' = [list EXCEPT ![g] = <<>>]
      /\ default' = [default EXCEPT ![g] = Null] /\ tasks' = [tasks EXCEPT ![g] = <<>>]
      /\ \A h \in Gateway \ {g} : Quiet(h)
  BY DEF Restart
<1>4. <<>> \in Seq(Entries) /\ <<>> \in Seq(Numbered) /\ DOMAIN <<>> = {}
  BY EmptySeq
<1>5. \A k \in Node : \A i \in DOMAIN tasks'[k] :
        i \in DOMAIN tasks[k] /\ tasks'[k][i] = tasks[k][i]
  BY <1>2, <1>3, <1>4
<1>6. TypeOK'
  BY <1>2, <1>3, <1>4 DEF TypeOK, ListOK, TasksOK, RestOK
<1>7. Heard'
  BY <1>5 DEF Base, Heard
<1>. QED
  BY <1>1, <1>2, <1>3, <1>5, <1>6, <1>7 DEF Base

LEMMA InitBase == Init => Base
<1>. SUFFICES ASSUME Init
              PROVE  Base
  OBVIOUS
<1>1. <<>> \in Seq(Entries) /\ <<>> \in Seq(Numbered) /\ DOMAIN <<>> = {}
  BY EmptySeq
<1>. QED
  BY <1>1 DEF Init, Base, TypeOK, ListOK, TasksOK, RestOK, Heard

LEMMA NextBase == Base /\ [Next]_vars => Base'
<1>. SUFFICES ASSUME Base, [Next]_vars
              PROVE  Base'
  OBVIOUS
<1>1. CASE UNCHANGED vars
  BY <1>1 DEF vars, Base, TypeOK, ListOK, TasksOK, RestOK, Heard
<1>. QED
  BY <1>1, GenStep, RestartStep, RecvStep, WalkStep DEF Next
-----------------------------------------------------------------------------
(* The default gateway.                                                    *)

ListedAt(n) ==
  default[n] \notin {Null, Stray} => \E i \in DOMAIN list[n] : list[n][i].ip = default[n]

LEMMA DefaultIs == DefaultListed <=> \A n \in Node : ListedAt(n)
  BY AtDef DEF DefaultListed, ListedAt

LEMMA DefaultIsNext == DefaultListed' <=> \A n \in Node : ListedAt(n)'
  BY AtDef DEF DefaultListed, ListedAt

LEMMA NextDefault == Base /\ DefaultListed /\ [Next]_vars => DefaultListed'
<1>. SUFFICES ASSUME Base, DefaultListed, [Next]_vars, NEW k \in Node
              PROVE  ListedAt(k)'
  BY DefaultIsNext
<1>1. ASSUME default'[k] = default[k], list'[k] = list[k]
      PROVE  ListedAt(k)'
  BY <1>1, DefaultIs DEF ListedAt
<1>2. CASE UNCHANGED vars
  BY <1>1, <1>2 DEF vars
<1>3. ASSUME NEW g \in Gateway, GenStRreq(g)
      PROVE  ListedAt(k)'
  BY <1>1, <1>3 DEF GenStRreq
<1>4. ASSUME NEW g \in Gateway, Restart(g)
      PROVE  ListedAt(k)'
  <2>1. CASE k = g
    BY <1>4, <2>1, RestartStep DEF ListedAt
  <2>2. CASE k # g
    BY <1>1, <1>4, <2>2, RestartStep
  <2>. QED
    BY <2>1, <2>2
<1>5. ASSUME NEW n \in Node, RecvRreqSt(n)
      PROVE  ListedAt(k)'
  <2>1. default' = default
    BY <1>5 DEF RecvRreqSt
  <2>2. CASE list'[k] = list[k]
    BY <1>1, <2>1, <2>2
  <2>3. CASE list'[k] # list[k]
    <3>. DEFINE m == Here(n, Head(tasks[n]))
    <3>1. Takes(n) /\ tasks[n] # <<>>
      BY <1>5, <2>3, RecvStep DEF Drops
    <3>2. list \in [Node -> Seq(Entries)]
      BY DEF Base, TypeOK, ListOK
    <3>3. k = n /\ list'[k] = UpdateGw(list[k], m)
      BY <2>3, <3>1, <3>2 DEF Takes
    <3>4. m \in Numbered
      BY <3>1, HeadHeard, HereType
    <3>. HIDE DEF m
    <3>5. \A i \in DOMAIN list[k] : \E j \in DOMAIN list'[k] :
            list'[k][j].ip = list[k][i].ip
      BY <3>2, <3>3, <3>4, UpdateGwKeeps
    <3>. QED
      BY <2>1, <3>5, DefaultIs DEF ListedAt
  <2>. QED
    BY <2>2, <2>3
<1>6. ASSUME NEW n \in Node, UpdateGwLifetimes(n)
      PROVE  ListedAt(k)'
  <2>1. CASE k = n
    BY <1>6, <2>1, WalkStep DEF ListedAt
  <2>2. CASE k # n
    BY <1>1, <1>6, <2>2, WalkStep
  <2>. QED
    BY <2>1, <2>2
<1>. QED
  BY <1>2, <1>3, <1>4, <1>5, <1>6 DEF Next

(* The default gateway of a node is one of its list, whatever              *)
(* comes, goes and times out, and also when the walk over the list ends    *)
(* early (gw_list.c:154, 166), unless freed memory led it astray.          *)
THEOREM GatewayListed == Spec => []DefaultListed
<1>1. Init => Base /\ DefaultListed
  <2>1. Init => DefaultListed
    BY DEF Init, DefaultListed
  <2>. QED
    BY <2>1, InitBase
<1>2. Base /\ DefaultListed /\ [Next]_vars => (Base /\ DefaultListed)'
  BY NextBase, NextDefault
<1>. QED
  BY <1>1, <1>2, PTL DEF Spec
-----------------------------------------------------------------------------
(* The nodes an ST-RREQ has been at.                                       *)

(* Its gateway, and the nodes that would have it no more: each of them     *)
(* holds an entry of the same flood that is no worse.                      *)
Seen(m) == {m.gw} \cup {n \in Node : Had(list[n], m)}

(* A message has made no more hops than there are such nodes, but for the  *)
(* one it waits for.                                                       *)
HopsSeen ==
  \A n \in Node : \A i \in DOMAIN tasks[n] :
    tasks[n][i].hops < Cardinality(Seen(tasks[n][i]))

(* No gateway has two floods under way.                                    *)
OneFlood ==
  \A n, k \in Node : \A i \in DOMAIN tasks[n] : \A j \in DOMAIN tasks[k] :
    tasks[n][i].gw = tasks[k][j].gw => tasks[n][i].id = tasks[k][j].id

PathInv == Base /\ OneFlood /\ HopsSeen

LEMMA SeenFinite ==
  ASSUME NEW m \in Numbered
  PROVE  /\ Seen(m) \subseteq Node /\ IsFiniteSet(Seen(m))
         /\ Cardinality(Seen(m)) \in Nat /\ Cardinality(Seen(m)) <= Cardinality(Node)
<1>1. Seen(m) \subseteq Node /\ IsFiniteSet(Node)
  BY GatewayAssumption DEF GatewayAssumption, Seen, Numbered
<1>. QED
  BY <1>1, FS_Subset, FS_CardinalityType

LEMMA HadType ==
  ASSUME ListOK, NEW n \in Node
  PROVE  list \in [Node -> Seq(Entries)] /\ list[n] \in Seq(Entries)
  BY DEF ListOK

LEMMA WaitingAt ==
  ASSUME NEW n \in Node, NEW i \in DOMAIN tasks[n]
  PROVE  Waiting(tasks[n][i].gw, tasks[n][i].id)
  BY DEF Waiting

(* While a flood is under way no node forgets what it knows of it.         *)
LEMMA HadStays ==
  ASSUME Base, OneFlood, [Next]_vars, NEW m \in Numbered, Waiting(m.gw, m.id),
         NEW k \in Node, k # m.gw, Had(list[k], m)
  PROVE  Had(list'[k], m)
<1>1. CASE list'[k] = list[k]
  BY <1>1
<1>2. ASSUME NEW g \in Gateway, GenStRreq(g)
      PROVE  list'[k] = list[k]
  BY <1>2 DEF GenStRreq
<1>3. ASSUME NEW g \in Gateway, Restart(g)
      PROVE  list'[k] = list[k]
  <2>1. m.gw \in Gateway
    BY DEF Numbered
  <2>2. ~ Quiet(m.gw)
    BY DEF Waiting, Quiet
  <2>. QED
    BY <1>3, <2>1, <2>2, RestartStep
<1>4. ASSUME NEW n \in Node, RecvRreqSt(n)
      PROVE  Had(list'[k], m)
  <2>1. CASE list'[k] # list[k]
    <3>. DEFINE h == Here(n, Head(tasks[n]))
    <3>1. Takes(n) /\ tasks[n] # <<>>
      BY <1>4, <2>1, RecvStep DEF Drops
    <3>2. list \in [Node -> Seq(Entries)]
      BY DEF Base, TypeOK, ListOK
    <3>3. k = n /\ list'[k] = UpdateGw(list[k], h) /\ ~ Refused(list[k], h)
      BY <2>1, <3>1, <3>2 DEF Takes
    <3>4. h \in Numbered /\ list[k] \in Seq(Entries)
      BY <3>1, <3>2, HeadHeard, HereType
    <3>5. m.gw = h.gw => m.id = h.id
      <4>1. PICK w \in Node : \E j \in DOMAIN tasks[w] :
              tasks[w][j].gw = m.gw /\ tasks[w][j].id = m.id
        BY DEF Waiting
      <4>2. /\ 1 \in DOMAIN tasks[n] /\ tasks[n][1] = Head(tasks[n])
            /\ h.gw = Head(tasks[n]).gw /\ h.id = Head(tasks[n]).id
        BY <3>1, HeadHeard, HereType
      <4>. QED
        BY <4>1, <4>2 DEF OneFlood
    <3>. HIDE DEF h
    <3>. QED
      BY <3>3, <3>4, <3>5, UpdateGwCovers
  <2>. QED
    BY <1>1, <2>1
<1>5. ASSUME NEW n \in Node, UpdateGwLifetimes(n)
      PROVE  Had(list'[k], m)
  <2>1. CASE k # n
    BY <1>1, <1>5, <2>1, WalkStep
  <2>2. CASE k = n
    <3>1. PICK i \in DOMAIN list[k] : list[k][i].ip = m.gw /\ Covers(list[k][i], m)
      BY DEF Had
    <3>2. \E j \in DOMAIN list'[k] : list'[k][j] = list[k][i]
      BY <1>5, <2>2, <3>1, WalkStep DEF Covers
    <3>. QED
      BY <3>1, <3>2 DEF Had
  <2>. QED
    BY <2>1, <2>2
<1>6. CASE UNCHANGED vars
  BY <1>1, <1>6 DEF vars
<1>. QED
  BY <1>1, <1>2, <1>3, <1>4, <1>5, <1>6 DEF Next

LEMMA SeenStays ==
  ASSUME Base, OneFlood, [Next]_vars, NEW m \in Numbered, Waiting(m.gw, m.id)
  PROVE  Seen(m) \subseteq Seen(m)'
  BY HadStays DEF Seen

(* The node that takes a message had not seen it.                          *)
LEMMA TakerIsNew ==
  ASSUME Base, NEW n \in Node, tasks[n] # <<>>, Takes(n)
  PROVE  n \notin Seen(Head(tasks[n]))
<1>. DEFINE m == Head(tasks[n])
            h == Here(n, m)
<1>1. /\ m \in Numbered /\ h \in Numbered /\ h.gw = m.gw /\ h.id = m.id
      /\ h.metric > m.metric
  BY HeadHeard, HereType
<1>2. n # m.gw /\ ~ Refused(list[n], h)
  BY DEF Takes
<1>. HIDE DEF m, h
<1>3. SUFFICES ASSUME Had(list[n], m)
               PROVE  FALSE
  BY <1>2 DEF Seen, m
<1>4. PICK i \in DOMAIN list[n] : list[n][i].ip = m.gw /\ Covers(list[n][i], m)
  BY <1>3 DEF Had
<1>5. list[n][i] \in Entries
  BY HadType, SeqPlaces DEF Base, TypeOK
<1>6. list[n][i].id = h.id /\ list[n][i].metric < h.metric
  BY <1>1, <1>4, <1>5 DEF Covers, Entries, Numbered
<1>. QED
  BY <1>1, <1>2, <1>4, <1>6 DEF Refused, At

LEMMA TakerSees ==
  ASSUME Base, OneFlood, [Next]_vars, NEW n \in Node, tasks[n] # <<>>, Takes(n),
         NEW m, m = Head(tasks[n]), NEW h, h = Here(n, m)
  PROVE  Seen(m) \cup {n} \subseteq Seen(h)'
<1>1. /\ m \in Numbered /\ h \in Numbered /\ h.gw = m.gw /\ h.id = m.id
      /\ h.metric > m.metric
  BY HeadHeard, HereType
<1>2. Waiting(m.gw, m.id)
  BY HeadHeard, WaitingAt
<1>3. list'[n] = UpdateGw(list[n], h) /\ ~ Refused(list[n], h)
  BY HadType DEF Base, TypeOK, Takes
<1>4. Had(list'[n], h)
  BY <1>1, <1>3, HadType, UpdateGwCovers DEF Base, TypeOK
<1>5. ASSUME NEW k \in Node, k # m.gw, Had(list[k], m)
      PROVE  Had(list'[k], h)
  <2>1. Had(list'[k], m)
    BY <1>1, <1>2, <1>5, HadStays
  <2>2. PICK i \in DOMAIN list'[k] : list'[k][i].ip = m.gw /\ Covers(list'[k][i], m)
    BY <2>1 DEF Had
  <2>3. list'[k] \in Seq(Entries)
    BY NextBase DEF Base, TypeOK, ListOK
  <2>4. list'[k][i] \in Entries
    BY <2>3, SeqPlaces
  <2>5. Covers(list'[k][i], h)
    BY <1>1, <2>2, <2>4 DEF Covers, Entries, Numbered
  <2>. QED
    BY <1>1, <2>2, <2>5 DEF Had
<1>. QED
  BY <1>1, <1>4, <1>5 DEF Seen

LEMMA InitOneFlood == Init => OneFlood
  BY EmptySeq DEF Init, OneFlood

LEMMA InitHops == Init => HopsSeen
  BY EmptySeq DEF Init, HopsSeen

(* A gateway floods again only when its last flood is over.                *)
LEMMA NextOneFlood == Base /\ OneFlood /\ [Next]_vars => OneFlood'
<1>. SUFFICES ASSUME Base, OneFlood, [Next]_vars, NEW n \in Node, NEW k \in Node,
                     NEW i \in DOMAIN tasks'[n], NEW j \in DOMAIN tasks'[k],
                     tasks'[n][i].gw = tasks'[k][j].gw
              PROVE  tasks'[n][i].id = tasks'[k][j].id
  BY DEF OneFlood
<1>. DEFINE Old(m) == \E w \in Node : \E x \in DOMAIN tasks[w] :
                        tasks[w][x].gw = m.gw /\ tasks[w][x].id = m.id
<1>1. CASE \A w \in Node : \A x \in DOMAIN tasks'[w] : Old(tasks'[w][x])
  <2>1. Old(tasks'[n][i]) /\ Old(tasks'[k][j])
    BY <1>1
  <2>. QED
    BY <2>1 DEF OneFlood
<1>2. CASE UNCHANGED vars
  BY <1>1, <1>2 DEF vars
<1>3. ASSUME NEW g \in Gateway, GenStRreq(g)
      PROVE  tasks'[n][i].id = tasks'[k][j].id
  <2>1. /\ tasks'[n][i] = First(g) \/ \E x \in DOMAIN tasks[n] : tasks'[n][i] = tasks[n][x]
        /\ tasks'[k][j] = First(g) \/ \E x \in DOMAIN tasks[k] : tasks'[k][j] = tasks[k][x]
    BY <1>3, GenStep DEF Comes
  <2>2. \A w \in Node : \A x \in DOMAIN tasks[w] : tasks[w][x].gw # First(g).gw
    BY <1>3 DEF GenStRreq, Quiet, First
  <2>. QED
    BY <2>1, <2>2 DEF OneFlood
<1>4. ASSUME NEW g \in Gateway, Restart(g)
      PROVE  tasks'[n][i].id = tasks'[k][j].id
  BY <1>1, <1>4, RestartStep
<1>5. ASSUME NEW w \in Node, RecvRreqSt(w)
      PROVE  tasks'[n][i].id = tasks'[k][j].id
  <2>1. Earlier(Rest(w)) /\ tasks[w] # <<>>
    BY <1>5, RecvStep, RestGives DEF Base, TypeOK
  <2>2. CASE Drops(w)
    BY <1>1, <2>1, <2>2 DEF Drops, Earlier
  <2>3. CASE Takes(w) /\ Comes(Here(w, Head(tasks[w])), w, Rest(w))
    <3>1. /\ 1 \in DOMAIN tasks[w] /\ tasks[w][1] = Head(tasks[w])
          /\ Here(w, Head(tasks[w])).gw = tasks[w][1].gw
          /\ Here(w, Head(tasks[w])).id = tasks[w][1].id
      BY <2>1, HeadHeard, HereType
    <3>2. Old(Here(w, Head(tasks[w])))
      BY <3>1
    <3>. QED
      BY <1>1, <2>1, <2>3, <3>2 DEF Comes, Earlier
  <2>. QED
    BY <1>5, <2>2, <2>3, RecvStep
<1>6. ASSUME NEW w \in Node, UpdateGwLifetimes(w)
      PROVE  tasks'[n][i].id = tasks'[k][j].id
  BY <1>1, <1>6, WalkStep
<1>. QED
  BY <1>2, <1>3, <1>4, <1>5, <1>6 DEF Next

LEMMA NextHops == PathInv /\ [Next]_vars => HopsSeen'
<1>. SUFFICES ASSUME Base, OneFlood, HopsSeen, [Next]_vars,
                     NEW k \in Node, NEW i \in DOMAIN tasks'[k],
                     NEW m, m = tasks'[k][i]
              PROVE  m.hops < Cardinality(Seen(m)')
  BY DEF PathInv, HopsSeen
<1>. USE DEF PathInv
<1>1. m \in Numbered
  <2>1. tasks'[k] \in Seq(Numbered)
    BY NextBase DEF Base, TypeOK, TasksOK
  <2>. QED
    BY <2>1, SeqPlaces
<1>2. IsFiniteSet(Seen(m)') /\ Cardinality(Seen(m)') \in Nat
  <2>1. Seen(m)' \subseteq Node /\ IsFiniteSet(Node)
    BY <1>1, GatewayAssumption DEF GatewayAssumption, Seen, Numbered
  <2>. QED
    BY <2>1, FS_Subset, FS_CardinalityType
<1>3. ASSUME NEW w \in Node, NEW j \in DOMAIN tasks[w], tasks[w][j] = m
      PROVE  m.hops < Cardinality(Seen(m)')
  <2>1. m.hops < Cardinality(Seen(m))
    BY <1>3 DEF HopsSeen
  <2>2. Seen(m) \subseteq Seen(m)'
    BY <1>1, <1>3, SeenStays, WaitingAt
  <2>3. Cardinality(Seen(m)) <= Cardinality(Seen(m)') /\ Cardinality(Seen(m)) \in Nat
    BY <1>1, <1>2, <2>2, FS_Subset, SeenFinite
  <2>. QED
    BY <1>1, <1>2, <2>1, <2>3 DEF Numbered
<1>4. CASE UNCHANGED vars
  BY <1>3, <1>4 DEF vars
<1>5. ASSUME NEW g \in Gateway, GenStRreq(g)
      PROVE  m.hops < Cardinality(Seen(m)')
  <2>1. CASE m = First(g)
    <3>1. m.hops = 0 /\ m.gw \in Seen(m)'
      BY <2>1 DEF First, Seen
    <3>2. Cardinality(Seen(m)') # 0
      BY <1>2, <3>1, FS_EmptySet
    <3>. QED
      BY <1>2, <3>1, <3>2
  <2>. QED
    BY <1>3, <1>5, <2>1, GenStep DEF Comes
<1>6. ASSUME NEW g \in Gateway, Restart(g)
      PROVE  m.hops < Cardinality(Seen(m)')
  BY <1>3, <1>6, RestartStep
<1>7. ASSUME NEW n \in Node, RecvRreqSt(n)
      PROVE  m.hops < Cardinality(Seen(m)')
  <2>1. Earlier(Rest(n)) /\ tasks[n] # <<>>
    BY <1>7, RecvStep, RestGives DEF Base, TypeOK
  <2>2. CASE Drops(n)
    BY <1>3, <2>1, <2>2 DEF Drops, Earlier
  <2>3. CASE Takes(n) /\ Comes(Here(n, Head(tasks[n])), n, Rest(n))
    <3>1. CASE \E j \in DOMAIN Rest(n)[k] : m = Rest(n)[k][j]
      BY <1>3, <2>1, <3>1 DEF Earlier
    <3>2. CASE m = Here(n, Head(tasks[n]))
      <4>1. PICK w : w = Head(tasks[n])
        OBVIOUS
      <4>2. /\ 1 \in DOMAIN tasks[n] /\ tasks[n][1] = w
            /\ w \in Numbered /\ m.hops = w.hops + 1
        BY <2>1, <3>2, <4>1, HeadHeard, HereType
      <4>3. w.hops < Cardinality(Seen(w))
        BY <4>2 DEF HopsSeen
      <4>4. n \notin Seen(w)
        BY <2>1, <2>3, <4>1, TakerIsNew
      <4>5. Seen(w) \cup {n} \subseteq Seen(m)'
        BY <2>1, <2>3, <3>2, <4>1, TakerSees
      <4>6. /\ IsFiniteSet(Seen(w)) /\ Cardinality(Seen(w)) \in Nat
            /\ Cardinality(Seen(w) \cup {n}) = Cardinality(Seen(w)) + 1
        BY <4>2, <4>4, SeenFinite, FS_AddElement
      <4>7. Cardinality(Seen(w) \cup {n}) <= Cardinality(Seen(m)')
        BY <1>2, <4>5, FS_Subset
      <4>8. w.hops \in Nat
        BY <4>2 DEF Numbered
      <4>. QED
        BY <1>2, <4>2, <4>3, <4>6, <4>7, <4>8
    <3>. QED
      BY <2>3, <3>1, <3>2 DEF Comes
  <2>. QED
    BY <1>7, <2>2, <2>3, RecvStep
<1>8. ASSUME NEW n \in Node, UpdateGwLifetimes(n)
      PROVE  m.hops < Cardinality(Seen(m)')
  BY <1>3, <1>8, WalkStep
<1>. QED
  BY <1>4, <1>5, <1>6, <1>7, <1>8 DEF Next

(* No ST-RREQ comes back to where it was, although a node takes one again  *)
(* that came over a path as good, or once its entry is gone: whatever the  *)
(* network and its metric, it makes fewer hops than there are nodes        *)
(* (gw_list.c:63).                                                         *)
THEOREM FloodsEnd == Spec => []NoneComesBack
<1>1. Init => PathInv
  BY InitBase, InitHops, InitOneFlood DEF PathInv
<1>2. PathInv /\ [Next]_vars => PathInv'
  BY NextBase, NextOneFlood, NextHops DEF PathInv
<1>3. PathInv => NoneComesBack
  <2>. SUFFICES ASSUME PathInv, NEW n \in Node, NEW i \in DOMAIN tasks[n]
                PROVE  tasks[n][i].hops < Cardinality(Node)
    BY DEF NoneComesBack
  <2>. DEFINE m == tasks[n][i]
  <2>1. tasks[n] \in Seq(Numbered)
    BY DEF PathInv, Base, TypeOK, TasksOK
  <2>2. m \in Numbered
    BY <2>1, SeqPlaces
  <2>3. m.hops < Cardinality(Seen(m))
    BY DEF PathInv, HopsSeen
  <2>4. m.hops \in Nat
    BY <2>2 DEF Numbered
  <2>. HIDE DEF m
  <2>5. /\ Cardinality(Seen(m)) \in Nat /\ Cardinality(Node) \in Nat
        /\ Cardinality(Seen(m)) <= Cardinality(Node)
    BY <2>2, SeenFinite, GatewayAssumption, FS_CardinalityType DEF GatewayAssumption
  <2>6. m.hops < Cardinality(Node)
    BY <2>3, <2>4, <2>5
  <2>. QED
    BY <2>6 DEF m
<1>. QED
  BY <1>1, <1>2, <1>3, PTL DEF Spec
-----------------------------------------------------------------------------
(* Every network has least metrics: what LeastAssumption calls Least is    *)
(* there for each gateway.  The metrics at which nodes can hear g are the  *)
(* least family of sets that is closed under hearing one hop further.      *)

Families == [Node -> SUBSET Nat]
Closed(g, F) ==
  /\ 0 \in F[g]
  /\ \A m \in Node : \A x \in F[m] : \A n \in Link[m] : x + Cost[n][m] \in F[n]
Heards(g) ==
  [n \in Node |-> {x \in Nat : \A F \in Families : Closed(g, F) => x \in F[n]}]
LeastOf(g) ==
  [n \in {n \in Node : Heards(g)[n] # {}} |->
     CHOOSE x \in Heards(g)[n] : \A y \in Heards(g)[n] : x <= y]

LEMMA CostType ==
  ASSUME NEW m \in Node, NEW n \in Link[m]
  PROVE  n \in Node /\ Cost[n][m] \in Nat /\ Cost[n][m] > 0
  BY GatewayAssumption DEF GatewayAssumption

LEMMA HeardsClosed ==
  ASSUME NEW g \in Gateway
  PROVE  Heards(g) \in Families /\ Closed(g, Heards(g))
<1>1. Heards(g) \in Families
  BY DEF Heards, Families
<1>2. g \in Node
  BY GatewayAssumption DEF GatewayAssumption
<1>3. 0 \in Heards(g)[g]
  BY <1>2 DEF Heards, Closed
<1>4. ASSUME NEW m \in Node, NEW x \in Heards(g)[m], NEW n \in Link[m]
      PROVE  x + Cost[n][m] \in Heards(g)[n]
  <2>1. /\ n \in Node /\ x \in Nat /\ x + Cost[n][m] \in Nat
        /\ \A F \in Families : Closed(g, F) => x \in F[m]
    BY <1>4, CostType DEF Heards
  <2>2. \A F \in Families : Closed(g, F) => x + Cost[n][m] \in F[n]
    BY <2>1 DEF Closed
  <2>. QED
    BY <2>1, <2>2 DEF Heards
<1>. QED
  BY <1>1, <1>3, <1>4 DEF Closed

(* Every metric but the gateway's own 0 comes over one hop more.           *)
LEMMA HeardsCome ==
  ASSUME NEW g \in Gateway, NEW n \in Node, NEW x \in Heards(g)[n], n # g \/ x # 0
  PROVE  \E m \in Node : n \in Link[m] /\ \E y \in Heards(g)[m] : x = y + Cost[n][m]
<1>. DEFINE H == Heards(g)
            F == [H EXCEPT ![n] = H[n] \ {x}]
<1>1. H \in Families /\ Closed(g, H) /\ g \in Node
  BY HeardsClosed, GatewayAssumption DEF GatewayAssumption
<1>2. SUFFICES ASSUME ~ \E m \in Node : n \in Link[m] /\ \E y \in H[m] : x = y + Cost[n][m]
               PROVE  FALSE
  OBVIOUS
<1>. HIDE DEF H
<1>3. F \in Families
  BY <1>1 DEF Families
<1>4. /\ \A m \in Node : F[m] \subseteq H[m]
      /\ \A m \in Node : \A y \in H[m] : y \in F[m] \/ (m = n /\ y = x)
  BY <1>1 DEF Families
<1>5. 0 \in F[g]
  BY <1>1, <1>4 DEF Closed
<1>6. ASSUME NEW m \in Node, NEW y \in F[m], NEW q \in Link[m]
      PROVE  y + Cost[q][m] \in F[q]
  <2>1. y \in H[m] /\ q \in Node
    BY <1>4, <1>6, CostType
  <2>2. y + Cost[q][m] \in H[q]
    BY <1>1, <2>1 DEF Closed
  <2>3. ~ (q = n /\ y + Cost[q][m] = x)
    BY <1>2, <2>1
  <2>. QED
    BY <1>4, <2>1, <2>2, <2>3
<1>. HIDE DEF F
<1>7. Closed(g, F)
  BY <1>5, <1>6 DEF Closed
<1>8. x \in F[n]
  BY <1>3, <1>7 DEF H, Heards
<1>. QED
  BY <1>1, <1>8 DEF F, Families

(* What LeastAssumption asks for exists in every network: of the metrics at *)
(* which copies can come (st_rreq.c:86-139), the least at each node.        *)
THEOREM LeastExists ==
  ASSUME NEW g \in Gateway
  PROVE  IsLeast(g, LeastOf(g))
<1>. DEFINE H == Heards(g)
            d == LeastOf(g)
<1>1. H \in Families /\ Closed(g, H) /\ g \in Node
  BY HeardsClosed, GatewayAssumption DEF GatewayAssumption
<1>2. \A n \in Node : H[n] \subseteq Nat
  BY <1>1 DEF Families
<1>3. DOMAIN d = {n \in Node : H[n] # {}}
  BY DEF LeastOf
<1>4. ASSUME NEW n \in DOMAIN d
      PROVE  d[n] \in H[n] /\ d[n] \in Nat /\ \A y \in H[n] : d[n] <= y
  <2>1. n \in Node /\ H[n] # {} /\ H[n] \subseteq Nat
    BY <1>2, <1>3
  <2>2. \E x \in H[n] : \A y \in H[n] : x <= y
    BY <2>1, LeastNat
  <2>3. d[n] = CHOOSE x \in H[n] : \A y \in H[n] : x <= y
    BY <1>3 DEF LeastOf
  <2>. HIDE DEF d, H
  <2>. QED
    BY <2>1, <2>2, <2>3
<1>. HIDE DEF d, H
<1>5. g \in DOMAIN d /\ d[g] = 0
  <2>1. 0 \in H[g] /\ g \in DOMAIN d
    BY <1>1, <1>3 DEF Closed
  <2>. QED
    BY <1>4, <2>1
<1>6. ASSUME NEW m \in DOMAIN d, NEW n \in Link[m]
      PROVE  n \in DOMAIN d /\ d[n] <= d[m] + Cost[n][m]
  <2>1. m \in Node /\ n \in Node
    BY <1>3, CostType
  <2>2. d[m] + Cost[n][m] \in H[n]
    BY <1>1, <1>4, <2>1 DEF Closed
  <2>. QED
    BY <1>3, <1>4, <2>1, <2>2
<1>7. ASSUME NEW n \in DOMAIN d \ {g}
      PROVE  \E m \in DOMAIN d : n \in Link[m] /\ d[n] = d[m] + Cost[n][m]
  <2>1. n \in Node /\ d[n] \in H[n]
    BY <1>3, <1>4
  <2>2. PICK m \in Node : n \in Link[m] /\ \E y \in H[m] : d[n] = y + Cost[n][m]
    BY <2>1, HeardsCome DEF H
  <2>3. PICK y \in H[m] : d[n] = y + Cost[n][m]
    BY <2>2
  <2>4. m \in DOMAIN d /\ d[m] <= y /\ y \in Nat /\ d[m] \in Nat
    BY <1>2, <1>3, <1>4, <2>3
  <2>5. d[n] <= d[m] + Cost[n][m]
    BY <1>6, <2>2, <2>4
  <2>6. Cost[n][m] \in Nat
    BY <2>2, CostType
  <2>7. d[n] = d[m] + Cost[n][m]
    BY <1>4, <2>3, <2>4, <2>5, <2>6
  <2>. QED
    BY <2>2, <2>4, <2>7
<1>. QED
  BY <1>3, <1>4, <1>5, <1>6, <1>7 DEF IsLeast, d
-----------------------------------------------------------------------------
(* What a list, or a queue, holds.                                         *)

Held(l) == {l[i] : i \in DOMAIN l}

LEMMA HeldBy ==
  ASSUME NEW S, NEW l \in Seq(S)
  PROVE  Held(l) \subseteq S
  BY SeqPlaces DEF Held

LEMMA UpdateGwHeld ==
  ASSUME NEW l \in Seq(Entries), NEW m \in Numbered
  PROVE  Held(UpdateGw(l, m)) = {e \in Held(l) : e.ip # m.gw} \cup {Entry(m)}
<1>. DEFINE u == UpdateGw(l, m)
<1>1. DOMAIN l = 1 .. Len(l) /\ Len(l) \in Nat /\ Held(l) \subseteq Entries
  BY SeqPlaces, HeldBy
<1>2. Entry(m) \in Held(u) /\ \A e \in Held(l) : e.ip # m.gw => e \in Held(u)
  BY UpdateGwKeeps DEF Held
<1>3. ASSUME NEW e \in Held(u)
      PROVE  e = Entry(m) \/ (e \in Held(l) /\ e.ip # m.gw)
  <2>1. CASE At(l, m.gw) = {}
    <3>1. u = <<Entry(m)>> \o l
      BY <2>1 DEF UpdateGw
    <3>2. /\ <<Entry(m)>> \in Seq(Entries) /\ Len(<<Entry(m)>>) = 1
          /\ <<Entry(m)>>[1] = Entry(m)
      BY EntryType
    <3>3. /\ u \in Seq(Entries) /\ Len(u) = 1 + Len(l)
          /\ \A i \in 1 .. 1 + Len(l) :
               u[i] = IF i <= 1 THEN <<Entry(m)>>[i] ELSE l[i - 1]
      BY <3>1, <3>2, ConcatProperties
    <3>4. DOMAIN u = 1 .. 1 + Len(l)
      BY <3>3, SeqPlaces
    <3>. HIDE DEF u
    <3>5. PICK i \in DOMAIN u : e = u[i]
      BY <1>3 DEF Held
    <3>6. CASE i = 1
      BY <1>1, <3>2, <3>3, <3>4, <3>5, <3>6
    <3>7. CASE i # 1
      <4>1. i - 1 \in DOMAIN l /\ e = l[i - 1]
        BY <1>1, <3>3, <3>4, <3>5, <3>7
      <4>. QED
        BY <2>1, <4>1 DEF Held, At
    <3>. QED
      BY <3>6, <3>7
  <2>2. CASE At(l, m.gw) # {}
    <3>1. u = [i \in DOMAIN l |-> IF l[i].ip = m.gw THEN Entry(m) ELSE l[i]]
      BY <2>2 DEF UpdateGw
    <3>. HIDE DEF u
    <3>2. PICK i \in DOMAIN l : e = u[i]
      BY <1>3, <3>1 DEF Held
    <3>. QED
      BY <3>1, <3>2 DEF Held
  <2>. QED
    BY <2>1, <2>2
<1>. QED
  BY <1>2, <1>3

(* The walk leaves nothing that was not there.                             *)
LEMMA WalkHeld ==
  ASSUME Base, NEW n \in Node, UpdateGwLifetimes(n)
  PROVE  \A k \in Node : /\ Held(list'[k]) \subseteq Held(list[k])
                         /\ \A e \in Held(list[k]) : Waiting(e.ip, e.id) => e \in Held(list'[k])
<1>. DEFINE l == list[n]
<1>1. PICK due, end, keep :
        /\ due \in SUBSET {i \in DOMAIN l : ~ Waiting(l[i].ip, l[i].id)}
        /\ end \in due \cup {Len(l)} /\ keep \in InOrder((1 .. end) \ due)
        /\ list' = [list EXCEPT ![n] = LeftOf(l, keep, end)]
        /\ \/ default' = [default EXCEPT ![n] = Best(LiveOf(l, keep))]
           \/ end \in due /\ default' = [default EXCEPT ![n] = Stray]
        /\ UNCHANGED <<id, tasks, restarts, hurt>>
  BY DEF UpdateGwLifetimes, MayBeDue, LeftOf, LiveOf
<1>2. l \in Seq(Entries) /\ list \in [Node -> Seq(Entries)]
  BY HadType DEF Base, TypeOK
<1>3. Len(l) \in Nat /\ DOMAIN l = 1 .. Len(l)
  BY <1>2, SeqPlaces
<1>4. end \in Nat /\ end <= Len(l)
  BY <1>1, <1>3
<1>5. Held(LeftOf(l, keep, end)) \subseteq Held(l)
  <2>1. keep \in InOrder((1 .. end) \ due)
    BY <1>1
  <2>. HIDE DEF l
  <2>2. Walked(l, due, LiveOf(l, keep), LeftOf(l, keep, end))
    BY <1>2, <1>4, <2>1, WalkKeeps
  <2>. QED
    BY <2>2 DEF Walked, Held
<1>6. ASSUME NEW k \in Node
      PROVE  /\ Held(list'[k]) \subseteq Held(list[k])
             /\ \A e \in Held(list[k]) : Waiting(e.ip, e.id) => e \in Held(list'[k])
  <2>1. CASE k # n
    BY <2>1, WalkStep
  <2>2. CASE k = n
    <3>1. list'[k] = LeftOf(l, keep, end)
      BY <1>1, <1>2, <2>2
    <3>2. \A e \in Held(list[k]) : Waiting(e.ip, e.id) => e \in Held(list'[k])
      BY <2>2, WalkStep DEF Held
    <3>. HIDE DEF l
    <3>. QED
      BY <1>5, <2>2, <3>1, <3>2 DEF l
  <2>. QED
    BY <2>1, <2>2
<1>. QED
  BY <1>6

(* local_broadcast adds m to some queues, and to all in reach when no copy *)
(* is lost.                                                                *)
LEMMA BroadcastHeld ==
  ASSUME NEW n \in Node, NEW m \in Numbered, NEW before \in [Node -> Seq(Numbered)],
         Broadcast(n, m, before)
  PROVE  /\ hurt \subseteq hurt'
         /\ \A k \in Node : /\ Held(before[k]) \subseteq Held(tasks'[k])
                            /\ Held(tasks'[k]) \subseteq Held(before[k]) \cup {m}
                            /\ k \in Link[n] /\ <<m.gw, m.id>> \notin hurt'
                                 => m \in Held(tasks'[k])
<1>. DEFINE reach == IF m.hops < NetDiameter THEN Link[n] ELSE {}
<1>1. PICK heard \in SUBSET reach :
        /\ tasks' = [k \in Node |-> IF k \in heard THEN Append(before[k], m) ELSE before[k]]
        /\ hurt' = IF heard = Link[n] THEN hurt ELSE hurt \cup {<<m.gw, m.id>>}
  BY DEF Broadcast
<1>. HIDE DEF reach
<1>2. hurt \subseteq hurt' /\ (<<m.gw, m.id>> \notin hurt' => heard = Link[n])
  BY <1>1
<1>3. ASSUME NEW k \in Node
      PROVE  Held(Append(before[k], m)) = Held(before[k]) \cup {m}
  <2>. DEFINE b == before[k]
              c == Append(b, m)
  <2>1. b \in Seq(Numbered) /\ Len(b) \in Nat /\ DOMAIN b = 1 .. Len(b)
    BY SeqPlaces
  <2>. HIDE DEF b
  <2>2. /\ c \in Seq(Numbered) /\ Len(c) = Len(b) + 1
        /\ \A i \in 1 .. Len(b) : c[i] = b[i]
        /\ c[Len(b) + 1] = m
    BY <2>1, AppendProperties
  <2>3. DOMAIN c = 1 .. Len(b) + 1
    BY <2>2, SeqPlaces
  <2>. HIDE DEF c
  <2>4. \A i : i \in DOMAIN c <=> i = Len(b) + 1 \/ i \in DOMAIN b
    BY <2>1, <2>3
  <2>5. Held(c) = Held(b) \cup {m}
    BY <2>1, <2>2, <2>4 DEF Held
  <2>. QED
    BY <2>5 DEF b, c
<1>. QED
  BY <1>1, <1>2, <1>3

LEMMA RestHeld ==
  ASSUME TasksOK, NEW n \in Node, tasks[n] # <<>>
  PROVE  /\ \A k \in Node : Held(Rest(n)[k]) \subseteq Held(tasks[k])
         /\ \A k \in Node \ {n} : Rest(n)[k] = tasks[k]
         /\ Held(tasks[n]) \subseteq Held(Rest(n)[n]) \cup {Head(tasks[n])}
<1>1. \A k \in Node : Held(Rest(n)[k]) \subseteq Held(tasks[k])
  BY RestGives DEF Earlier, Held
<1>2. tasks \in [Node -> Seq(Numbered)] /\ tasks[n] \in Seq(Numbered)
  BY DEF TasksOK
<1>3. Rest(n)[n] = Tail(tasks[n]) /\ \A k \in Node \ {n} : Rest(n)[k] = tasks[k]
  BY <1>2 DEF Rest
<1>. DEFINE s == tasks[n]
            t == Tail(s)
<1>4. /\ t \in Seq(Numbered) /\ Len(t) = Len(s) - 1
      /\ \A i \in 1 .. Len(t) : t[i] = s[i + 1]
  BY <1>2, HeadTailProperties
<1>5. DOMAIN t = 1 .. Len(t) /\ DOMAIN s = 1 .. Len(s) /\ Len(s) \in Nat
  BY <1>2, <1>4, SeqPlaces
<1>6. Head(s) = s[1]
  BY <1>2
<1>. HIDE DEF s, t
<1>7. ASSUME NEW i \in DOMAIN s, i # 1
      PROVE  i - 1 \in DOMAIN t /\ t[i - 1] = s[i]
  BY <1>4, <1>5, <1>7
<1>8. Held(s) \subseteq Held(t) \cup {Head(s)}
  BY <1>6, <1>7 DEF Held
<1>. QED
  BY <1>1, <1>3, <1>8 DEF s, t

Dropped(n, m, h) ==
  /\ n = m.gw \/ Refused(list[n], h)
  /\ list' = list /\ \A q \in Node : Held(tasks'[q]) \subseteq Held(tasks[q])
PassedOn(n, m, h) ==
  /\ n # m.gw /\ ~ Refused(list[n], h)
  /\ \A q \in Node \ {n} : list'[q] = list[q]
  /\ Held(list'[n]) = {e \in Held(list[n]) : e.ip # h.gw} \cup {Entry(h)}
  /\ \A q \in Node : Held(tasks'[q]) \subseteq Held(tasks[q]) \cup {h}
  /\ \A q \in Link[n] : <<h.gw, h.id>> \notin hurt' => h \in Held(tasks'[q])

LEMMA RecvHeld ==
  ASSUME Base, NEW n \in Node, RecvRreqSt(n),
         NEW m, m = Head(tasks[n]), NEW h, h = Here(n, m)
  PROVE  /\ m \in Held(tasks[n]) /\ m \in Numbered /\ h \in Numbered
         /\ id' = id /\ hurt \subseteq hurt'
         /\ \A q \in Node \ {n} : Held(tasks[q]) \subseteq Held(tasks'[q])
         /\ Held(tasks[n]) \subseteq Held(tasks'[n]) \cup {m}
         /\ Dropped(n, m, h) \/ PassedOn(n, m, h)
<1>1. tasks[n] # <<>> /\ TasksOK
  BY RecvStep DEF Base, TypeOK
<1>2. m \in Held(tasks[n]) /\ m \in Numbered /\ h \in Numbered /\ h.gw = m.gw
  BY <1>1, HeadHeard, HereType DEF Held
<1>3. /\ Rest(n) \in [Node -> Seq(Numbered)]
      /\ \A k \in Node : Held(Rest(n)[k]) \subseteq Held(tasks[k])
      /\ \A k \in Node \ {n} : Rest(n)[k] = tasks[k]
      /\ Held(tasks[n]) \subseteq Held(Rest(n)[n]) \cup {m}
  BY <1>1, RestHeld, RestGives
<1>4. id' = id
  BY DEF RecvRreqSt
<1>5. CASE Drops(n)
  <2>1. hurt \subseteq hurt'
    <3>1. UNCHANGED hurt \/ \E x : hurt' = hurt \cup {x} \/ hurt' = hurt
      BY DEF RecvRreqSt, Broadcast
    <3>. QED
      BY <3>1
  <2>2. Dropped(n, m, h)
    BY <1>3, <1>5 DEF Drops, Dropped
  <2>3. tasks' = Rest(n)
    BY <1>5 DEF Drops
  <2>. QED
    BY <1>2, <1>3, <1>4, <2>1, <2>2, <2>3
<1>6. CASE Takes(n)
  <2>1. /\ n # m.gw /\ ~ Refused(list[n], h) /\ Broadcast(n, h, Rest(n))
        /\ list' = [list EXCEPT ![n] = UpdateGw(@, h)]
    BY <1>6 DEF Takes
  <2>2. /\ hurt \subseteq hurt'
        /\ \A k \in Node : /\ Held(Rest(n)[k]) \subseteq Held(tasks'[k])
                           /\ Held(tasks'[k]) \subseteq Held(Rest(n)[k]) \cup {h}
                           /\ k \in Link[n] /\ <<h.gw, h.id>> \notin hurt'
                                => h \in Held(tasks'[k])
    BY <1>2, <1>3, <2>1, BroadcastHeld
  <2>3. Link[n] \subseteq Node
    BY GatewayAssumption DEF GatewayAssumption
  <2>4. /\ \A q \in Node \ {n} : list'[q] = list[q]
        /\ list'[n] = UpdateGw(list[n], h) /\ list[n] \in Seq(Entries)
    BY <2>1, HadType DEF Base, TypeOK
  <2>5. Held(list'[n]) = {e \in Held(list[n]) : e.ip # h.gw} \cup {Entry(h)}
    BY <1>2, <2>4, UpdateGwHeld
  <2>6. PassedOn(n, m, h)
    BY <1>3, <2>1, <2>2, <2>3, <2>4, <2>5 DEF PassedOn
  <2>. QED
    BY <1>2, <1>3, <1>4, <2>2, <2>6
<1>. QED
  BY <1>5, <1>6, RecvStep

LEMMA GenHeld ==
  ASSUME Base, NEW g \in Gateway, GenStRreq(g), NEW h, h = First(g)
  PROVE  /\ h \in Numbered /\ list' = list /\ id' = [id EXCEPT ![g] = @ + 1] /\ Quiet(g)
         /\ hurt \subseteq hurt'
         /\ \A q \in Node : /\ Held(tasks[q]) \subseteq Held(tasks'[q])
                            /\ Held(tasks'[q]) \subseteq Held(tasks[q]) \cup {h}
                            /\ q \in Link[g] /\ <<g, h.id>> \notin hurt'
                                 => h \in Held(tasks'[q])
<1>1. g \in Node /\ h \in Numbered /\ h.gw = g
  BY FirstType DEF Base, First
<1>2. Broadcast(g, h, tasks)
  BY DEF GenStRreq, First
<1>3. tasks \in [Node -> Seq(Numbered)]
  BY DEF Base, TypeOK, TasksOK
<1>. QED
  BY <1>1, <1>2, <1>3, BroadcastHeld DEF GenStRreq

LEMMA RestartHeld ==
  ASSUME Base, NEW g \in Gateway, Restart(g)
  PROVE  /\ \A q \in Node : /\ Held(tasks'[q]) \subseteq Held(tasks[q])
                            /\ Held(list'[q]) \subseteq Held(list[q])
         /\ \A h \in Gateway : \A k \in 1 .. MaxId[h] : <<h, k>> \in hurt'
<1>1. /\ list \in [Node -> Seq(Entries)] /\ list' = [list EXCEPT ![g] = <<>>]
      /\ hurt' = hurt \cup UNION {{h} \X (1 .. MaxId[h]) : h \in Gateway}
  BY DEF Base, TypeOK, ListOK, Restart
<1>2. \A q \in Node : Held(list'[q]) \subseteq Held(list[q])
  BY <1>1, EmptySeq DEF Held
<1>3. \A q \in Node : Held(tasks'[q]) \subseteq Held(tasks[q])
  BY RestartStep DEF Held
<1>4. \A h \in Gateway : \A k \in 1 .. MaxId[h] : <<h, k>> \in hurt'
  BY <1>1
<1>. QED
  BY <1>2, <1>3, <1>4
-----------------------------------------------------------------------------
(* The metric a flood finds.                                               *)

(* A list has one entry of a gateway.                                      *)
Same == \A n \in Node : \A e, f \in Held(list[n]) : e.ip = f.ip => e = f

(* No metric is less than the least.                                       *)
Lower ==
  \A g \in Gateway : \A n \in Node :
    /\ \A m \in Held(tasks[n]) :
         m.gw = g => m.from \in DOMAIN Least[g] /\ Least[g][m.from] <= m.metric
    /\ \A e \in Held(list[n]) :
         e.ip = g => n \in DOMAIN Least[g] /\ Least[g][n] <= e.metric

Whole(g, k) == k \in 1 .. MaxId[g] /\ <<g, k>> \notin hurt

(* What is under way of a gateway that was never restarted is its last     *)
(* flood, and no entry is newer.                                           *)
Current ==
  \A g \in Gateway : (\E k : Whole(g, k)) =>
    \A n \in Node : /\ \A m \in Held(tasks[n]) : m.gw = g => m.id = id[g]
                    /\ \A e \in Held(list[n]) : e.ip = g => e.id <= id[g]

LEMMA HeldTypes ==
  ASSUME Base, NEW n \in Node
  PROVE  /\ \A m \in Held(tasks[n]) : m \in Numbered /\ n \in Link[m.from]
         /\ \A e \in Held(list[n]) : e \in Entries
<1>1. tasks[n] \in Seq(Numbered) /\ list[n] \in Seq(Entries)
  BY DEF Base, TypeOK, TasksOK, ListOK
<1>2. Held(tasks[n]) \subseteq Numbered /\ Held(list[n]) \subseteq Entries
  BY <1>1, HeldBy
<1>3. \A m \in Held(tasks[n]) : n \in Link[m.from]
  BY DEF Base, Heard, Held
<1>. QED
  BY <1>2, <1>3

LEMMA HereFacts ==
  ASSUME Base, NEW n \in Node, NEW m \in Held(tasks[n]), NEW h, h = Here(n, m)
  PROVE  /\ m \in Numbered /\ h \in Numbered /\ n \in Link[m.from]
         /\ h.gw = m.gw /\ h.id = m.id /\ h.from = n
         /\ h.metric = m.metric + Cost[n][m.from]
         /\ Entry(h).ip = m.gw /\ Entry(h).id = m.id /\ Entry(h).metric = h.metric
  BY HeldTypes, HereType DEF Entry

LEMMA LeastType ==
  ASSUME NEW g \in Gateway
  PROVE  /\ g \in DOMAIN Least[g] /\ Least[g][g] = 0 /\ DOMAIN Least[g] \subseteq Node
         /\ \A n \in DOMAIN Least[g] : Least[g][n] \in Nat
         /\ \A m \in DOMAIN Least[g] : \A n \in Link[m] :
              n \in DOMAIN Least[g] /\ Least[g][n] <= Least[g][m] + Cost[n][m]
         /\ \A n \in DOMAIN Least[g] \ {g} : \E m \in DOMAIN Least[g] :
              n \in Link[m] /\ Least[g][n] = Least[g][m] + Cost[n][m]
  BY LeastAssumption DEF IsLeast

LEMMA NextSame == Base /\ Same /\ [Next]_vars => Same'
<1>. SUFFICES ASSUME Base, Same, [Next]_vars, NEW k \in Node,
                     NEW e \in Held(list'[k]), NEW f \in Held(list'[k]), e.ip = f.ip
              PROVE  e = f
  BY DEF Same, Held
<1>1. CASE Held(list'[k]) \subseteq Held(list[k])
  BY <1>1 DEF Same
<1>2. ASSUME NEW n \in Node, RecvRreqSt(n)
      PROVE  e = f
  <2>1. PICK m, h : m = Head(tasks[n]) /\ h = Here(n, m)
    OBVIOUS
  <2>2. /\ m \in Held(tasks[n]) /\ h.gw = m.gw /\ Entry(h).ip = m.gw
        /\ Dropped(n, m, h) \/ PassedOn(n, m, h)
    BY <1>2, <2>1, RecvHeld, HereFacts
  <2>3. CASE list'[k] = list[k]
    BY <1>1, <2>3
  <2>4. CASE PassedOn(n, m, h) /\ k = n
    BY <2>2, <2>4 DEF PassedOn, Same
  <2>. QED
    BY <2>2, <2>3, <2>4 DEF Dropped, PassedOn
<1>3. ASSUME NEW n \in Node, UpdateGwLifetimes(n)
      PROVE  e = f
  BY <1>1, <1>3, WalkHeld
<1>4. ASSUME NEW g \in Gateway, Restart(g)
      PROVE  e = f
  BY <1>1, <1>4, RestartHeld
<1>5. ASSUME NEW g \in Gateway, GenStRreq(g)
      PROVE  e = f
  BY <1>1, <1>5 DEF GenStRreq
<1>6. CASE UNCHANGED vars
  BY <1>1, <1>6 DEF vars
<1>. QED
  BY <1>2, <1>3, <1>4, <1>5, <1>6 DEF Next

LowerTask(m) ==
  \A g \in Gateway :
    m.gw = g => m.from \in DOMAIN Least[g] /\ Least[g][m.from] <= m.metric
LowerEntry(n, e) ==
  \A g \in Gateway : e.ip = g => n \in DOMAIN Least[g] /\ Least[g][n] <= e.metric

LEMMA NextLower == Base /\ Lower /\ [Next]_vars => Lower'
<1>. SUFFICES ASSUME Base, Lower, [Next]_vars, NEW k \in Node
              PROVE  /\ \A m \in Held(tasks'[k]) : LowerTask(m)
                     /\ \A e \in Held(list'[k]) : LowerEntry(k, e)
  BY DEF Lower, LowerTask, LowerEntry, Held
<1>1. \A q \in Node : /\ \A m \in Held(tasks[q]) : LowerTask(m)
                      /\ \A e \in Held(list[q]) : LowerEntry(q, e)
  BY DEF Lower, LowerTask, LowerEntry
<1>2. ASSUME NEW n \in Node, RecvRreqSt(n)
      PROVE  /\ \A m \in Held(tasks'[k]) : LowerTask(m)
             /\ \A e \in Held(list'[k]) : LowerEntry(k, e)
  <2>1. PICK m, h : m = Head(tasks[n]) /\ h = Here(n, m)
    OBVIOUS
  <2>2. /\ m \in Held(tasks[n]) /\ m \in Numbered /\ n \in Link[m.from]
        /\ h.gw = m.gw /\ h.from = n /\ h.metric = m.metric + Cost[n][m.from]
        /\ Entry(h).ip = m.gw /\ Entry(h).metric = h.metric
        /\ Dropped(n, m, h) \/ PassedOn(n, m, h)
    BY <1>2, <2>1, RecvHeld, HereFacts
  <2>3. LowerTask(h) /\ LowerEntry(n, Entry(h))
    <3>1. PICK g : g = m.gw
      OBVIOUS
    <3>2. g \in Gateway /\ m.metric \in Nat /\ m.from \in Node
      BY <2>2, <3>1 DEF Numbered
    <3>3. m.from \in DOMAIN Least[g] /\ Least[g][m.from] <= m.metric
      BY <1>1, <2>2, <3>1, <3>2 DEF LowerTask
    <3>4. /\ n \in DOMAIN Least[g] /\ Least[g][n] <= Least[g][m.from] + Cost[n][m.from]
          /\ Least[g][n] \in Nat /\ Least[g][m.from] \in Nat
      BY <2>2, <3>2, <3>3, LeastType
    <3>5. Cost[n][m.from] \in Nat
      BY <2>2, <3>2, CostType
    <3>6. Least[g][n] <= h.metric
      BY <2>2, <3>2, <3>3, <3>4, <3>5
    <3>. QED
      BY <2>2, <3>1, <3>4, <3>6 DEF LowerTask, LowerEntry
  <2>4. CASE Dropped(n, m, h)
    BY <1>1, <2>4 DEF Dropped
  <2>5. CASE PassedOn(n, m, h)
    BY <1>1, <2>3, <2>5 DEF PassedOn
  <2>. QED
    BY <2>2, <2>4, <2>5
<1>3. ASSUME NEW n \in Node, UpdateGwLifetimes(n)
      PROVE  /\ \A m \in Held(tasks'[k]) : LowerTask(m)
             /\ \A e \in Held(list'[k]) : LowerEntry(k, e)
  BY <1>1, <1>3, WalkHeld, WalkStep
<1>4. ASSUME NEW g \in Gateway, Restart(g)
      PROVE  /\ \A m \in Held(tasks'[k]) : LowerTask(m)
             /\ \A e \in Held(list'[k]) : LowerEntry(k, e)
  BY <1>1, <1>4, RestartHeld
<1>5. ASSUME NEW g \in Gateway, GenStRreq(g)
      PROVE  /\ \A m \in Held(tasks'[k]) : LowerTask(m)
             /\ \A e \in Held(list'[k]) : LowerEntry(k, e)
  <2>1. PICK h : h = First(g)
    OBVIOUS
  <2>2. LowerTask(h)
    BY <2>1, LeastType DEF LowerTask, First
  <2>3. list' = list /\ Held(tasks'[k]) \subseteq Held(tasks[k]) \cup {h}
    BY <1>5, <2>1, GenHeld
  <2>. QED
    BY <1>1, <2>2, <2>3
<1>6. CASE UNCHANGED vars
  BY <1>1, <1>6 DEF vars
<1>. QED
  BY <1>2, <1>3, <1>4, <1>5, <1>6 DEF Next

LEMMA WholeBefore ==
  ASSUME Base, [Next]_vars, NEW g \in Gateway, NEW k, Whole(g, k)'
  PROVE  Whole(g, k) /\ \A h \in Gateway : ~ Restart(h)
<1>1. hurt \subseteq hurt'
  <2>1. ASSUME NEW n \in Node, RecvRreqSt(n)
        PROVE  hurt \subseteq hurt'
    <3>1. PICK m, h : m = Head(tasks[n]) /\ h = Here(n, m)
      OBVIOUS
    <3>. QED
      BY <2>1, <3>1, RecvHeld
  <2>2. ASSUME NEW h \in Gateway, GenStRreq(h)
        PROVE  hurt \subseteq hurt'
    <3>1. PICK m : m = First(h)
      OBVIOUS
    <3>. QED
      BY <2>2, <3>1, GenHeld
  <2>. QED
    BY <2>1, <2>2 DEF Next, UpdateGwLifetimes, Restart, vars
<1>2. ASSUME NEW h \in Gateway, Restart(h)
      PROVE  FALSE
  BY <1>2, RestartHeld DEF Whole
<1>. QED
  BY <1>1, <1>2 DEF Whole

LEMMA NextCurrent == Base /\ Current /\ [Next]_vars => Current'
<1>. SUFFICES ASSUME Base, Current, [Next]_vars, NEW g \in Gateway, NEW w, Whole(g, w)',
                     NEW k \in Node
              PROVE  /\ \A m \in Held(tasks'[k]) : m.gw = g => m.id = id'[g]
                     /\ \A e \in Held(list'[k]) : e.ip = g => e.id <= id'[g]
  BY DEF Current, Held
<1>. DEFINE Goal == /\ \A m \in Held(tasks'[k]) : m.gw = g => m.id = id'[g]
                    /\ \A e \in Held(list'[k]) : e.ip = g => e.id <= id'[g]
<1>1. \A q \in Node : /\ \A m \in Held(tasks[q]) : m.gw = g => m.id = id[g]
                      /\ \A e \in Held(list[q]) : e.ip = g => e.id <= id[g]
  BY WholeBefore DEF Current
<1>2. \A h \in Gateway : ~ Restart(h)
  BY WholeBefore
<1>3. id \in [Gateway -> Nat] /\ id[g] \in Nat
  BY DEF Base, TypeOK, RestOK
<1>4. ASSUME NEW n \in Node, RecvRreqSt(n)
      PROVE  Goal
  <2>1. PICK m, h : m = Head(tasks[n]) /\ h = Here(n, m)
    OBVIOUS
  <2>2. /\ m \in Held(tasks[n]) /\ h.gw = m.gw /\ h.id = m.id
        /\ Entry(h).ip = m.gw /\ Entry(h).id = m.id /\ id' = id
        /\ Dropped(n, m, h) \/ PassedOn(n, m, h)
    BY <1>4, <2>1, RecvHeld, HereFacts
  <2>3. m.gw = g => m.id = id[g] /\ m.id <= id[g]
    BY <1>1, <1>3, <2>2
  <2>4. CASE Dropped(n, m, h)
    BY <1>1, <2>2, <2>4 DEF Dropped
  <2>5. CASE PassedOn(n, m, h)
    BY <1>1, <2>2, <2>3, <2>5 DEF PassedOn
  <2>. QED
    BY <2>2, <2>4, <2>5
<1>5. ASSUME NEW n \in Node, UpdateGwLifetimes(n)
      PROVE  Goal
  <2>1. id' = id
    BY <1>5 DEF UpdateGwLifetimes
  <2>. QED
    BY <1>1, <1>5, <2>1, WalkHeld, WalkStep
<1>6. ASSUME NEW x \in Gateway, GenStRreq(x)
      PROVE  Goal
  <2>1. PICK h : h = First(x)
    OBVIOUS
  <2>2. /\ list' = list /\ Held(tasks'[k]) \subseteq Held(tasks[k]) \cup {h}
        /\ id' = [id EXCEPT ![x] = @ + 1] /\ Quiet(x)
        /\ h.gw = x /\ h.id = id[x] + 1
    <3>1. h.gw = x /\ h.id = id[x] + 1
      BY <2>1 DEF First
    <3>. QED
      BY <1>6, <2>1, <3>1, GenHeld
  <2>3. CASE x = g
    <3>1. \A m \in Held(tasks[k]) : m.gw # g
      BY <2>2, <2>3 DEF Quiet, Held
    <3>2. id'[g] = id[g] + 1
      BY <1>3, <2>2, <2>3
    <3>3. \A e \in Held(list[k]) : e.ip = g => e.id <= id[g] + 1
      <4>1. \A e \in Held(list[k]) : e.id \in Nat
        BY HeldTypes DEF Entries
      <4>. QED
        BY <1>1, <1>3, <4>1
    <3>. QED
      BY <2>2, <2>3, <3>1, <3>2, <3>3
  <2>4. CASE x # g
    BY <1>1, <1>3, <2>2, <2>4
  <2>. QED
    BY <2>3, <2>4
<1>7. CASE UNCHANGED vars
  BY <1>1, <1>7 DEF vars
<1>. QED
  BY <1>2, <1>4, <1>5, <1>6, <1>7 DEF Next

Told(g, k, m, x) ==
  \/ m = g /\ x = 0
  \/ m # g /\ \E e \in Held(list[m]) : e.ip = g /\ e.id = k /\ e.metric = x
OnItsWay(g, k, m, x, n) ==
  \E w \in Held(tasks[n]) : w.gw = g /\ w.id = k /\ w.from = m /\ w.metric = x
Knows(g, k, n, y) ==
  \E e \in Held(list[n]) : e.ip = g /\ e.id = k /\ e.metric <= y

(* What a node found, all in its reach have found or are about to.         *)
Spread(g, k) ==
  \A m \in Node : \A x \in Nat : Told(g, k, m, x) =>
    \A n \in Link[m] \ {g} : OnItsWay(g, k, m, x, n) \/ Knows(g, k, n, x + Cost[n][m])

Settled(g, k) ==
  \A n \in Node \ {g} : \A e \in Held(list[n]) :
    e.ip = g /\ e.id = k => e.metric = Least[g][n]

Flood(g, k) == Spread(g, k) \/ (~ Waiting(g, k) /\ Settled(g, k))

LEMMA WaitingHeld ==
  ASSUME NEW g, NEW k
  PROVE  /\ Waiting(g, k) <=>
              \E n \in Node : \E m \in Held(tasks[n]) : m.gw = g /\ m.id = k
         /\ Waiting(g, k)' <=>
              \E n \in Node : \E m \in Held(tasks'[n]) : m.gw = g /\ m.id = k
         /\ Quiet(g) => ~ Waiting(g, k)
  BY DEF Waiting, Held, Quiet

(* When it is over all have: a node at the least distance that has not,    *)
(* or only over a longer path, would hear it from the node before it.      *)
LEMMA SpreadSettles ==
  ASSUME Base, Lower, Same, NEW g \in Gateway, NEW k, Spread(g, k), ~ Waiting(g, k)
  PROVE  Settled(g, k)
<1>. DEFINE R == DOMAIN Least[g]
            Found(n) == \E x \in Nat : x <= Least[g][n] /\ Told(g, k, n, x)
            far == {Least[g][n] : n \in {n \in R : ~ Found(n)}}
<1>1. \A n \in R : n \in Node /\ Least[g][n] \in Nat
  BY LeastType
<1>2. far = {}
  <2>1. SUFFICES ASSUME far # {}
                 PROVE  FALSE
    OBVIOUS
  <2>2. far \subseteq Nat
    BY <1>1
  <2>3. PICK y \in far : \A z \in far : y <= z
    BY <2>1, <2>2, LeastNat
  <2>4. PICK n \in R : ~ Found(n) /\ y = Least[g][n]
    BY <2>3
  <2>5. n # g
    <3>1. Least[g][g] = 0 /\ Told(g, k, g, 0)
      BY LeastType DEF Told
    <3>. QED
      BY <2>4, <3>1
  <2>6. PICK m \in R : n \in Link[m] /\ Least[g][n] = Least[g][m] + Cost[n][m]
    BY <2>5, LeastType
  <2>7. Cost[n][m] \in Nat /\ Cost[n][m] > 0
    BY <1>1, <2>6, CostType
  <2>8. Least[g][m] < y
    BY <1>1, <2>4, <2>6, <2>7
  <2>9. Found(m)
    <3>1. SUFFICES ASSUME ~ Found(m)
                   PROVE  FALSE
      OBVIOUS
    <3>2. Least[g][m] \in far
      BY <3>1
    <3>3. y <= Least[g][m] /\ y \in Nat /\ Least[g][m] \in Nat
      BY <1>1, <2>2, <2>3, <3>2
    <3>. QED
      BY <2>8, <3>3
  <2>10. PICK x \in Nat : x <= Least[g][m] /\ Told(g, k, m, x)
    BY <2>9
  <2>11. ~ OnItsWay(g, k, m, x, n)
    BY <1>1, WaitingHeld DEF OnItsWay
  <2>12. Knows(g, k, n, x + Cost[n][m])
    BY <1>1, <2>5, <2>6, <2>10, <2>11 DEF Spread
  <2>13. PICK e \in Held(list[n]) : e.ip = g /\ e.id = k /\ e.metric <= x + Cost[n][m]
    BY <2>12 DEF Knows
  <2>14. e.metric \in Nat
    BY <1>1, HeldTypes DEF Entries
  <2>15. Told(g, k, n, e.metric)
    BY <2>5, <2>13 DEF Told
  <2>16. e.metric <= Least[g][n]
    <3>1. Least[g][m] \in Nat /\ Least[g][n] \in Nat
      BY <1>1
    <3>. QED
      BY <2>6, <2>7, <2>10, <2>13, <2>14, <3>1
  <2>. QED
    BY <2>4, <2>14, <2>15, <2>16
<1>3. \A n \in R : Found(n)
  BY <1>2
<1>4. ASSUME NEW n \in Node \ {g}, NEW e \in Held(list[n]), e.ip = g, e.id = k
      PROVE  e.metric = Least[g][n]
  <2>1. n \in R /\ Least[g][n] <= e.metric
    BY <1>4 DEF Lower
  <2>2. PICK x \in Nat : x <= Least[g][n] /\ Told(g, k, n, x)
    BY <1>3, <2>1
  <2>3. e.metric = x
    BY <1>4, <2>2 DEF Told, Same
  <2>. QED
    BY <1>1, <2>1, <2>2, <2>3
<1>. QED
  BY <1>4 DEF Settled

(* While a flood is under way it spreads.                                  *)
LEMMA SpreadStays ==
  ASSUME Base, Current, Same, [Next]_vars, NEW g \in Gateway, NEW k, Whole(g, k)',
         Spread(g, k), Waiting(g, k)
  PROVE  Spread(g, k)'
<1>. SUFFICES ASSUME NEW p \in Node, NEW x \in Nat, Told(g, k, p, x)',
                     NEW q \in Link[p], q # g
              PROVE  OnItsWay(g, k, p, x, q)' \/ Knows(g, k, q, x + Cost[q][p])'
  BY DEF Spread, Told, OnItsWay, Knows, Held
<1>. DEFINE y == x + Cost[q][p]
            Goal == OnItsWay(g, k, p, x, q)' \/ Knows(g, k, q, y)'
<1>1. Whole(g, k) /\ \A h \in Gateway : ~ Restart(h)
  BY WholeBefore
<1>2. k = id[g]
  <2>1. PICK n \in Node : \E m \in Held(tasks[n]) : m.gw = g /\ m.id = k
    BY WaitingHeld
  <2>. QED
    BY <1>1, <2>1, WaitingHeld DEF Current
<1>3. q \in Node /\ y \in Nat
  BY CostType
<1>. HIDE DEF y
<1>4. Told(g, k, p, x) => OnItsWay(g, k, p, x, q) \/ Knows(g, k, q, y)
  BY DEF Spread, y
\* What leaves the entries of the flood and the messages in flight alone.
<1>5. ASSUME Held(list'[p]) \subseteq Held(list[p]),
             \A e \in Held(list[q]) : e.ip = g /\ e.id = k => e \in Held(list'[q]),
             Held(tasks[q]) \subseteq Held(tasks'[q])
      PROVE  Goal
  <2>1. Told(g, k, p, x)
    BY <1>5 DEF Told, Held
  <2>2. CASE OnItsWay(g, k, p, x, q)
    BY <1>5, <2>2 DEF OnItsWay, Held
  <2>3. CASE Knows(g, k, q, y)
    BY <1>5, <2>3 DEF Knows, Held
  <2>. QED
    BY <1>4, <2>1, <2>2, <2>3
<1>6. ASSUME NEW n \in Node, UpdateGwLifetimes(n)
      PROVE  Goal
  BY <1>3, <1>5, <1>6, WalkHeld, WalkStep
<1>7. ASSUME NEW h \in Gateway, GenStRreq(h)
      PROVE  Goal
  <2>1. PICK m : m = First(h)
    OBVIOUS
  <2>2. list' = list /\ Held(tasks[q]) \subseteq Held(tasks'[q])
    BY <1>3, <1>7, <2>1, GenHeld
  <2>. QED
    BY <1>5, <2>2
<1>8. ASSUME UNCHANGED vars
      PROVE  Goal
  BY <1>5, <1>8 DEF vars
<1>9. ASSUME NEW n \in Node, RecvRreqSt(n)
      PROVE  Goal
  <2>1. PICK m, h : m = Head(tasks[n]) /\ h = Here(n, m)
    OBVIOUS
  <2>2. /\ m \in Held(tasks[n]) /\ m \in Numbered /\ h \in Numbered
        /\ h.gw = m.gw /\ h.id = m.id /\ h.from = n
        /\ h.metric = m.metric + Cost[n][m.from]
        /\ Entry(h).ip = m.gw /\ Entry(h).id = m.id /\ Entry(h).metric = h.metric
    BY <1>9, <2>1, RecvHeld, HereFacts
  <2>3. /\ \A z \in Node \ {n} : Held(tasks[z]) \subseteq Held(tasks'[z])
        /\ Held(tasks[n]) \subseteq Held(tasks'[n]) \cup {m}
        /\ Dropped(n, m, h) \/ PassedOn(n, m, h)
    BY <1>9, <2>1, RecvHeld
  <2>4. m.gw = g => m.id = k
    BY <1>1, <1>2, <2>2 DEF Current
  <2>5. \A e \in Held(list[n]) : e \in Entries /\ (e.ip = g => e.id <= k)
    BY <1>1, <1>2, HeldTypes DEF Current
  \* The message that goes was one on its way from p, and is known now.
  <2>6. ASSUME q = n, m.gw = g, m.from = p, m.metric = x
        PROVE  Knows(g, k, q, y)'
    <3>1. h.metric = y
      BY <2>2, <2>6 DEF y
    <3>2. CASE Dropped(n, m, h)
      <4>1. PICK i \in At(list[n], g) :
              \/ list[n][i].id > h.id
              \/ list[n][i].id = h.id /\ list[n][i].metric < h.metric
        BY <2>2, <2>6, <3>2 DEF Dropped, Refused
      <4>2. PICK e \in Held(list[n]) :
              e.ip = g /\ (e.id > h.id \/ (e.id = h.id /\ e.metric < h.metric))
        BY <4>1 DEF At, Held
      <4>3. h.id = k /\ h.id \in Nat /\ e.id \in Nat /\ e.metric \in Nat /\ e.id <= k
        BY <2>2, <2>4, <2>5, <2>6, <4>2 DEF Numbered, Entries
      <4>4. e.id = k /\ e.metric <= y
        BY <1>3, <3>1, <4>2, <4>3
      <4>. QED
        BY <2>6, <3>2, <4>2, <4>4 DEF Knows, Dropped, Held
    <3>3. CASE PassedOn(n, m, h)
      <4>1. Entry(h) \in Held(list'[n]) /\ Entry(h).metric <= y
        BY <1>3, <2>2, <3>1, <3>3 DEF PassedOn
      <4>. QED
        BY <2>2, <2>4, <2>6, <4>1 DEF Knows, Held
    <3>. QED
      BY <2>3, <3>2, <3>3
  \* What was known stays known, by an entry that is no worse.
  <2>7. ASSUME Knows(g, k, q, y)
        PROVE  Knows(g, k, q, y)'
    <3>1. PICK e \in Held(list[q]) : e.ip = g /\ e.id = k /\ e.metric <= y
      BY <2>7 DEF Knows
    <3>2. CASE e \in Held(list'[q])
      BY <3>1, <3>2 DEF Knows, Held
    <3>3. CASE e \notin Held(list'[q])
      <4>1. PassedOn(n, m, h) /\ q = n /\ m.gw = g
        BY <1>3, <2>2, <2>3, <3>1, <3>3 DEF Dropped, PassedOn
      <4>2. PICK i \in DOMAIN list[n] : e = list[n][i]
        BY <3>1, <4>1 DEF Held
      <4>3. ~ (e.id = h.id /\ e.metric < h.metric)
        BY <2>2, <3>1, <4>1, <4>2 DEF PassedOn, Refused, At
      <4>4. e.metric \in Nat /\ h.metric \in Nat /\ h.id = k
        BY <2>2, <2>4, <2>5, <3>1, <4>1 DEF Entries, Numbered
      <4>5. h.metric <= y
        BY <1>3, <3>1, <4>3, <4>4
      <4>. QED
        BY <2>2, <2>4, <4>1, <4>5 DEF PassedOn, Knows, Held
    <3>. QED
      BY <3>2, <3>3
  <2>8. CASE Told(g, k, p, x)
    <3>1. CASE OnItsWay(g, k, p, x, q)
      <4>1. PICK w \in Held(tasks[q]) : w.gw = g /\ w.id = k /\ w.from = p /\ w.metric = x
        BY <3>1 DEF OnItsWay
      <4>2. CASE w \in Held(tasks'[q])
        BY <4>1, <4>2 DEF OnItsWay, Held
      <4>3. CASE w \notin Held(tasks'[q])
        <5>1. q = n /\ w = m
          BY <1>3, <2>3, <4>3
        <5>. QED
          BY <2>6, <4>1, <5>1 DEF y
      <4>. QED
        BY <4>2, <4>3
    <3>. QED
      BY <1>4, <2>7, <2>8, <3>1
  <2>9. CASE ~ Told(g, k, p, x)
    <3>1. PassedOn(n, m, h) /\ p = n /\ p # g
      BY <2>3, <2>9 DEF Told, Dropped, PassedOn, Held
    <3>2. PICK e \in Held(list'[n]) : e.ip = g /\ e.id = k /\ e.metric = x
      BY <3>1 DEF Told, Held
    <3>3. e = Entry(h)
      BY <2>9, <3>1, <3>2 DEF Told, PassedOn
    <3>4. <<h.gw, h.id>> = <<g, k>> /\ h.metric = x
      BY <2>2, <3>2, <3>3
    <3>5. h \in Held(tasks'[q])
      BY <3>1, <3>4 DEF PassedOn, Whole
    <3>. QED
      BY <2>2, <3>1, <3>4, <3>5 DEF OnItsWay, Held
  <2>. QED
    BY <2>8, <2>9
<1>10. Goal
  <2>. HIDE DEF Goal
  <2>. QED
    BY <1>1, <1>6, <1>7, <1>8, <1>9 DEF Next
<1>. QED
  BY <1>10 DEF y, OnItsWay, Knows, Held

(* Once it is over nothing of it comes up again.                           *)
LEMMA SettledStays ==
  ASSUME Base, Current, [Next]_vars, NEW g \in Gateway, NEW k, Whole(g, k)',
         ~ Waiting(g, k), Settled(g, k)
  PROVE  Flood(g, k)'
<1>1. Whole(g, k) /\ \A h \in Gateway : ~ Restart(h)
  BY WholeBefore
<1>2. \A n \in Node : \A m \in Held(tasks[n]) : ~ (m.gw = g /\ m.id = k)
  BY WaitingHeld
<1>3. ASSUME \A n \in Node : \A m \in Held(tasks'[n]) : ~ (m.gw = g /\ m.id = k),
             \A n \in Node : \A e \in Held(list'[n]) :
               e \in Held(list[n]) \/ ~ (e.ip = g /\ e.id = k)
      PROVE  Flood(g, k)'
  <2>1. ~ Waiting(g, k)'
    BY <1>3, WaitingHeld
  <2>2. Settled(g, k)'
    <3>1. \A n \in Node \ {g} : \A e \in Held(list'[n]) :
            e.ip = g /\ e.id = k => e.metric = Least[g][n]
      BY <1>3 DEF Settled
    <3>. QED
      BY <3>1 DEF Settled, Held
  <2>. QED
    BY <2>1, <2>2 DEF Flood
<1>4. CASE UNCHANGED vars
  BY <1>2, <1>3, <1>4 DEF vars
<1>5. ASSUME NEW n \in Node, UpdateGwLifetimes(n)
      PROVE  Flood(g, k)'
  <2>1. tasks' = tasks /\ \A q \in Node : Held(list'[q]) \subseteq Held(list[q])
    BY <1>5, WalkHeld, WalkStep
  <2>. QED
    BY <1>2, <1>3, <2>1
<1>6. ASSUME NEW n \in Node, RecvRreqSt(n)
      PROVE  Flood(g, k)'
  <2>1. PICK m, h : m = Head(tasks[n]) /\ h = Here(n, m)
    OBVIOUS
  <2>2. /\ m \in Held(tasks[n]) /\ h.gw = m.gw /\ h.id = m.id
        /\ Entry(h).ip = m.gw /\ Entry(h).id = m.id
        /\ Dropped(n, m, h) \/ PassedOn(n, m, h)
    BY <1>6, <2>1, RecvHeld, HereFacts
  <2>3. ~ (h.gw = g /\ h.id = k) /\ ~ (Entry(h).ip = g /\ Entry(h).id = k)
    BY <1>2, <2>2
  <2>4. CASE Dropped(n, m, h)
    <3>1. list' = list /\ \A q \in Node : Held(tasks'[q]) \subseteq Held(tasks[q])
      BY <2>4 DEF Dropped
    <3>. QED
      BY <1>2, <1>3, <3>1
  <2>5. CASE PassedOn(n, m, h)
    <3>1. /\ \A q \in Node \ {n} : list'[q] = list[q]
          /\ Held(list'[n]) = {e \in Held(list[n]) : e.ip # h.gw} \cup {Entry(h)}
          /\ \A q \in Node : Held(tasks'[q]) \subseteq Held(tasks[q]) \cup {h}
      BY <2>5 DEF PassedOn
    <3>. QED
      BY <1>2, <1>3, <2>3, <3>1
  <2>. QED
    BY <2>2, <2>4, <2>5
<1>7. ASSUME NEW x \in Gateway, GenStRreq(x)
      PROVE  Flood(g, k)'
  <2>1. PICK h : h = First(x)
    OBVIOUS
  <2>2. h.gw = x /\ h.id = id[x] + 1 /\ h.from = x /\ h.metric = 0
    BY <2>1 DEF First
  <2>3. /\ list' = list
        /\ \A q \in Node : /\ Held(tasks'[q]) \subseteq Held(tasks[q]) \cup {h}
                           /\ q \in Link[x] /\ <<x, h.id>> \notin hurt'
                                => h \in Held(tasks'[q])
    BY <1>7, <2>1, GenHeld
  <2>4. CASE ~ (x = g /\ k = id[g] + 1)
    BY <1>2, <1>3, <2>2, <2>3, <2>4
  <2>5. CASE x = g /\ k = id[g] + 1
    <3>1. \A n \in Node : \A e \in Held(list'[n]) : ~ (e.ip = g /\ e.id = k)
      <4>1. id[g] \in Nat
        BY DEF Base, TypeOK, RestOK
      <4>2. \A n \in Node : \A e \in Held(list[n]) :
              e.id \in Nat /\ (e.ip = g => e.id <= id[g])
        BY <1>1, HeldTypes DEF Current, Entries
      <4>. QED
        BY <2>3, <2>5, <4>1, <4>2
    <3>2. \A q \in Link[g] : h \in Held(tasks'[q])
      BY <2>2, <2>3, <2>5, CostType, GatewayAssumption DEF Whole, GatewayAssumption
    <3>3. ASSUME NEW p \in Node, NEW y \in Nat, Told(g, k, p, y)', NEW q \in Link[p] \ {g}
          PROVE  OnItsWay(g, k, p, y, q)'
      <4>1. p = g /\ y = 0
        BY <3>1, <3>3 DEF Told, Held
      <4>. QED
        BY <2>2, <2>5, <3>2, <3>3, <4>1 DEF OnItsWay, Held
    <3>4. Spread(g, k)'
      BY <3>3 DEF Spread, Told, OnItsWay, Knows, Held
    <3>. QED
      BY <3>4 DEF Flood
  <2>. QED
    BY <2>4, <2>5
<1>. QED
  BY <1>1, <1>4, <1>5, <1>6, <1>7 DEF Next

LeastInv ==
  /\ Base /\ Same /\ Lower /\ Current
  /\ \A g \in Gateway : \A k \in 1 .. MaxId[g] : Whole(g, k) => Flood(g, k)

LEMMA InitLeast == Init => LeastInv
<1>. SUFFICES ASSUME Init
              PROVE  LeastInv
  OBVIOUS
<1>1. \A n \in Node : Held(list[n]) = {} /\ Held(tasks[n]) = {}
  BY EmptySeq DEF Init, Held
<1>2. \A g \in Gateway : \A k \in 1 .. MaxId[g] : Flood(g, k)
  BY <1>1, WaitingHeld DEF Flood, Settled
<1>. QED
  BY <1>1, <1>2, InitBase DEF LeastInv, Same, Lower, Current

LEMMA NextLeast == LeastInv /\ [Next]_vars => LeastInv'
<1>. SUFFICES ASSUME LeastInv, [Next]_vars
              PROVE  LeastInv'
  OBVIOUS
<1>. USE DEF LeastInv
<1>1. ASSUME NEW g \in Gateway, NEW k \in 1 .. MaxId[g], Whole(g, k)'
      PROVE  Flood(g, k)'
  <2>1. Whole(g, k)
    BY <1>1, WholeBefore
  <2>2. Flood(g, k)
    BY <2>1
  <2>3. CASE Spread(g, k) /\ Waiting(g, k)
    BY <1>1, <2>3, SpreadStays DEF Flood
  <2>4. CASE ~ Waiting(g, k)
    <3>1. Settled(g, k)
      BY <2>2, <2>4, SpreadSettles DEF Flood
    <3>. QED
      BY <1>1, <2>4, <3>1, SettledStays
  <2>. QED
    BY <2>2, <2>3, <2>4 DEF Flood
<1>2. \A g \in Gateway : \A k \in 1 .. MaxId[g] : Whole(g, k)' => Flood(g, k)'
  BY <1>1
<1>. QED
  BY <1>2, NextBase, NextSame, NextLower, NextCurrent

(* A flood of which no copy was lost leaves each node that still has its   *)
(* entry with the least metric at which it can hear the gateway, in        *)
(* whatever order the copies came, on every network (gw_list.c:59).        *)
THEOREM FloodsFindLeast == Spec => []FloodFindsLeast
<1>1. LeastInv => FloodFindsLeast
  <2>. SUFFICES ASSUME LeastInv, NEW g \in Gateway, NEW k \in 1 .. MaxId[g],
                       <<g, k>> \notin hurt, ~ Waiting(g, k),
                       NEW n \in Node \ {g}, NEW i \in At(list[n], g), list[n][i].id = k
                PROVE  list[n][i].metric = Least[g][n]
    BY DEF FloodFindsLeast
  <2>1. Flood(g, k)
    BY DEF LeastInv, Whole
  <2>2. Settled(g, k)
    BY <2>1, SpreadSettles DEF LeastInv, Flood
  <2>3. list[n][i] \in Held(list[n]) /\ list[n][i].ip = g
    BY DEF At, Held
  <2>. QED
    BY <2>2, <2>3 DEF Settled
<1>. QED
  BY <1>1, InitLeast, NextLeast, PTL DEF Spec
=============================================================================
