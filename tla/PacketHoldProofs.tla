-------------------------- MODULE PacketHoldProofs --------------------------
(***************************************************************************)
(* Safety of PacketHold for every number of packets, of retries and of     *)
(* RREPs, and every length of the queue.                                   *)
(***************************************************************************)
EXTENDS PacketHold, WellFoundedInduction, FiniteSetTheorems, SequenceTheorems, TLAPS

Routes == [state : {"none", "INVALID", "REPLIED", "ACTIVE"}, id : Nat]
Fates  == {"new", "queueing", "held", "sent", "dropped"}
Tasks  == [kind : {"gen", "resend", "rrep"}, arg : Nat]
Timers == [left : Nat, retries : 0 .. Retries]

(* What a timer has put among the tasks is still within the retries.       *)
ResendsOK ==
  \A i \in DOMAIN tasks : tasks[i].kind = "resend" => tasks[i].arg <= Retries

(* The timers are in the order of their times: when the first is not due,  *)
(* none is.                                                                *)
InTime(l) == \A i, j \in DOMAIN l : i < j => l[i].left <= l[j].left

TypeInv == TypeOK /\ ResendsOK /\ InTime(timers)

LEMMA TypeParts ==
  TypeOK <=> /\ route \in Routes /\ fate \in [Packet -> Fates] /\ held \in Seq(Packet)
             /\ tasks \in Seq(Tasks) /\ timers \in Seq(Timers)
             /\ air \subseteq Nat /\ dst_id \in Nat /\ rreqs \in Nat /\ open \in BOOLEAN
  BY DEF TypeOK, Routes, Fates, Tasks, Timers

LEMMA TypePartsNext ==
  TypeOK' <=> /\ route' \in Routes /\ fate' \in [Packet -> Fates] /\ held' \in Seq(Packet)
              /\ tasks' \in Seq(Tasks) /\ timers' \in Seq(Timers)
              /\ air' \subseteq Nat /\ dst_id' \in Nat /\ rreqs' \in Nat /\ open' \in BOOLEAN
  BY DEF TypeOK, Routes, Fates, Tasks, Timers

LEMMA LeastNat ==
  ASSUME NEW T, T \subseteq Nat, T # {}
  PROVE  \E x \in T : \A y \in T : x <= y
<1>. DEFINE R == OpToRel(<, Nat)
<1>1. PICK x \in T : \A y \in T : <<y, x>> \notin R
  <2>1. IsWellFoundedOn(R, Nat)
    BY NatLessThanWellFounded
  <2>. HIDE DEF R
  <2>. QED
    BY <2>1, WFMin
<1>2. \A y \in T : ~ (y < x)
  BY <1>1 DEF OpToRel
<1>. QED
  BY <1>2
-----------------------------------------------------------------------------
(* Queues.                                                                 *)

LEMMA SeqPlaces ==
  ASSUME NEW S, NEW l \in Seq(S)
  PROVE  /\ Len(l) \in Nat /\ DOMAIN l = 1 .. Len(l)
         /\ \A i \in DOMAIN l : l[i] \in S
  BY LenProperties

LEMMA Prepended ==
  ASSUME NEW S, NEW l \in Seq(S), NEW e \in S
  PROVE  LET n == <<e>> \o l IN
         /\ n \in Seq(S) /\ DOMAIN n = 1 .. Len(l) + 1 /\ n[1] = e
         /\ \A i \in 1 .. Len(l) : n[i + 1] = l[i]
<1>. DEFINE n == <<e>> \o l
<1>1. <<e>> \in Seq(S) /\ Len(<<e>>) = 1 /\ <<e>>[1] = e
  OBVIOUS
<1>2. /\ n \in Seq(S) /\ Len(n) = 1 + Len(l)
      /\ \A i \in 1 .. 1 + Len(l) : n[i] = IF i <= 1 THEN <<e>>[i] ELSE l[i - 1]
  BY <1>1, ConcatProperties
<1>3. Len(l) \in Nat /\ DOMAIN n = 1 .. Len(n)
  BY <1>2, SeqPlaces
<1>. HIDE DEF n
<1>4. n[1] = e /\ \A i \in 1 .. Len(l) : n[i + 1] = l[i]
  BY <1>1, <1>2, <1>3
<1>. QED
  BY <1>2, <1>3, <1>4 DEF n

LEMMA Appended ==
  ASSUME NEW S, NEW l \in Seq(S), NEW e \in S
  PROVE  LET n == Append(l, e) IN
         /\ n \in Seq(S) /\ DOMAIN n = 1 .. Len(l) + 1 /\ n[Len(l) + 1] = e
         /\ \A i \in 1 .. Len(l) : n[i] = l[i]
<1>. DEFINE n == Append(l, e)
<1>1. /\ n \in Seq(S) /\ Len(n) = Len(l) + 1
      /\ \A i \in 1 .. Len(l) : n[i] = l[i]
      /\ n[Len(l) + 1] = e
  BY AppendProperties
<1>. QED
  BY <1>1, SeqPlaces

LEMMA Shifted ==
  ASSUME NEW S, NEW l \in Seq(S), l # <<>>
  PROVE  /\ Tail(l) \in Seq(S) /\ DOMAIN Tail(l) = 1 .. Len(l) - 1 /\ Len(l) \in Nat \ {0}
         /\ Head(l) = l[1] /\ \A i \in 1 .. Len(l) - 1 : Tail(l)[i] = l[i + 1]
<1>. DEFINE n == Tail(l)
<1>1. /\ n \in Seq(S) /\ Len(n) = Len(l) - 1
      /\ \A i \in 1 .. Len(n) : n[i] = l[i + 1]
  BY HeadTailProperties
<1>2. Len(l) \in Nat /\ Len(l) # 0 /\ Head(l) = l[1]
  BY SeqPlaces, EmptySeq
<1>. QED
  BY <1>1, <1>2, SeqPlaces

(* Arm puts a timer somewhere among the others.                            *)
Placed(l, n, at, e) ==
  /\ at \in 1 .. Len(l) + 1 /\ DOMAIN n = 1 .. Len(l) + 1 /\ n[at] = e
  /\ \A i \in 1 .. at - 1 : n[i] = l[i]
  /\ \A i \in at .. Len(l) : n[i + 1] = l[i]

LEMMA Inserted ==
  ASSUME NEW S, NEW l \in Seq(S), NEW e \in S, NEW at \in 1 .. Len(l) + 1
  PROVE  LET n == SubSeq(l, 1, at - 1) \o <<e>> \o SubSeq(l, at, Len(l)) IN
         n \in Seq(S) /\ Placed(l, n, at, e)
<1>. DEFINE a == SubSeq(l, 1, at - 1)
            b == SubSeq(l, at, Len(l))
            c == a \o <<e>>
            n == c \o b
<1>1. Len(l) \in Nat /\ DOMAIN l = 1 .. Len(l) /\ \A i \in 1 .. Len(l) : l[i] \in S
  BY SeqPlaces
<1>2. a \in Seq(S) /\ Len(a) = at - 1 /\ \A i \in 1 .. at - 1 : a[i] = l[i]
  <2>1. \A i \in 1 .. at - 1 : l[i] \in S
    BY <1>1
  <2>2. 1 \in Int /\ at - 1 \in Int
    BY <1>1
  <2>3. /\ a \in Seq(S) /\ Len(a) = IF 1 <= at - 1 THEN at - 1 - 1 + 1 ELSE 0
        /\ \A i \in 1 .. at - 1 - 1 + 1 : a[i] = l[1 + i - 1]
    BY <2>1, <2>2, SubSeqProperties
  <2>. HIDE DEF a
  <2>4. Len(a) = at - 1
    BY <1>1, <2>3
  <2>5. at - 1 - 1 + 1 = at - 1 /\ \A i \in 1 .. at - 1 : 1 + i - 1 = i
    BY <1>1
  <2>. QED
    BY <2>3, <2>4, <2>5
<1>3. /\ b \in Seq(S) /\ Len(b) = Len(l) - at + 1
      /\ \A i \in 1 .. Len(l) - at + 1 : b[i] = l[at + i - 1]
  <2>1. \A i \in at .. Len(l) : l[i] \in S
    BY <1>1
  <2>2. at \in Int /\ Len(l) \in Int
    BY <1>1
  <2>3. /\ b \in Seq(S) /\ Len(b) = IF at <= Len(l) THEN Len(l) - at + 1 ELSE 0
        /\ \A i \in 1 .. Len(l) - at + 1 : b[i] = l[at + i - 1]
    BY <2>1, <2>2, SubSeqProperties
  <2>. HIDE DEF b
  <2>4. Len(b) = Len(l) - at + 1
    BY <1>1, <2>3
  <2>. QED
    BY <2>3, <2>4
<1>. HIDE DEF a, b
<1>4. c \in Seq(S) /\ DOMAIN c = 1 .. at /\ c[at] = e /\ \A i \in 1 .. at - 1 : c[i] = l[i]
  <2>1. <<e>> \in Seq(S) /\ Len(<<e>>) = 1 /\ <<e>>[1] = e
    OBVIOUS
  <2>2. /\ c \in Seq(S) /\ Len(c) = Len(a) + 1
        /\ \A i \in 1 .. Len(a) + 1 : c[i] = IF i <= Len(a) THEN a[i] ELSE <<e>>[i - Len(a)]
    BY <1>2, <2>1, ConcatProperties
  <2>3. Len(c) = at /\ DOMAIN c = 1 .. Len(c)
    BY <1>1, <1>2, <2>2, SeqPlaces
  <2>. HIDE DEF c
  <2>4. at \in 1 .. at /\ at \in Nat /\ ~ (at <= Len(a)) /\ at - Len(a) = 1 /\ Len(a) + 1 = at
    BY <1>1, <1>2
  <2>5. c[at] = e
    BY <2>1, <2>2, <2>4
  <2>6. ASSUME NEW i \in 1 .. at - 1
        PROVE  c[i] = l[i]
    <3>1. i \in 1 .. Len(a) + 1 /\ i <= Len(a)
      BY <1>1, <1>2
    <3>2. c[i] = a[i] /\ a[i] = l[i]
      BY <1>2, <2>2, <3>1
    <3>. QED
      BY <3>2
  <2>. QED
    BY <2>2, <2>3, <2>5, <2>6
<1>. HIDE DEF c
<1>5. Len(c) = at
  BY <1>1, <1>4, SeqPlaces
<1>6. /\ n \in Seq(S) /\ Len(n) = at + Len(b)
      /\ \A i \in 1 .. at + Len(b) : n[i] = IF i <= at THEN c[i] ELSE b[i - at]
  BY <1>3, <1>4, <1>5, ConcatProperties
<1>7. DOMAIN n = 1 .. Len(l) + 1
  <2>1. DOMAIN n = 1 .. Len(n) /\ Len(n) = Len(l) + 1
    BY <1>1, <1>3, <1>6, SeqPlaces
  <2>. QED
    BY <2>1
<1>. HIDE DEF n
<1>8. ASSUME NEW i \in 1 .. at - 1
      PROVE  n[i] = l[i]
  <2>1. n[i] = c[i]
    BY <1>1, <1>3, <1>6
  <2>. QED
    BY <1>4, <2>1
<1>9. n[at] = e
  BY <1>1, <1>3, <1>4, <1>6
<1>10. ASSUME NEW i \in at .. Len(l)
       PROVE  n[i + 1] = l[i]
  <2>1. n[i + 1] = b[i + 1 - at] /\ i + 1 - at \in 1 .. Len(l) - at + 1
    BY <1>1, <1>3, <1>6
  <2>2. at + (i + 1 - at) - 1 = i
    BY <1>1
  <2>. QED
    BY <1>3, <2>1, <2>2
<1>. QED
  BY <1>6, <1>7, <1>8, <1>9, <1>10 DEF Placed, n, c, a, b
-----------------------------------------------------------------------------
(* Types.                                                                  *)

LEMMA XorNat ==
  ASSUME NEW n \in Nat
  PROVE  Xor2(n) \in Nat
<1>1. CASE n < 2
  BY <1>1 DEF Xor2
<1>2. CASE n >= 2
  BY <1>2 DEF Xor2
<1>. QED
  BY <1>1, <1>2

NewTimer(retries) == [left |-> Xor2(Retries - retries), retries |-> retries]

LEMMA ShiftedInTime ==
  ASSUME NEW l \in Seq(Timers), l # <<>>, InTime(l)
  PROVE  InTime(Tail(l))
<1>1. /\ DOMAIN Tail(l) = 1 .. Len(l) - 1 /\ Len(l) \in Nat \ {0}
      /\ \A i \in 1 .. Len(l) - 1 : Tail(l)[i] = l[i + 1]
  BY Shifted
<1>2. DOMAIN l = 1 .. Len(l)
  BY SeqPlaces
<1>3. SUFFICES ASSUME NEW i \in DOMAIN Tail(l), NEW j \in DOMAIN Tail(l), i < j
               PROVE  Tail(l)[i].left <= Tail(l)[j].left
  BY DEF InTime
<1>4. Tail(l)[i] = l[i + 1] /\ Tail(l)[j] = l[j + 1]
  BY <1>1
<1>5. i + 1 \in DOMAIN l /\ j + 1 \in DOMAIN l /\ i + 1 < j + 1
  BY <1>1, <1>2, <1>3
<1>. QED
  BY <1>4, <1>5 DEF InTime

LEMMA PlacedInTime ==
  ASSUME NEW l \in Seq(Timers), NEW n, NEW at, NEW e \in Timers, Placed(l, n, at, e), InTime(l),
         \A i \in 1 .. at - 1 : l[i].left <= e.left,
         at <= Len(l) => e.left <= l[at].left
  PROVE  InTime(n)
<1>1. DOMAIN l = 1 .. Len(l) /\ Len(l) \in Nat /\ \A i \in DOMAIN l : l[i] \in Timers
  BY SeqPlaces
<1>2. at \in 1 .. Len(l) + 1 /\ DOMAIN n = 1 .. Len(l) + 1 /\ n[at] = e
  BY DEF Placed
<1>3. \A i \in DOMAIN n : i < at => n[i] = l[i] /\ i \in DOMAIN l /\ l[i].left <= e.left
  BY <1>1, <1>2 DEF Placed
<1>4. ASSUME NEW i \in DOMAIN n, at < i
      PROVE  n[i] = l[i - 1] /\ i - 1 \in DOMAIN l /\ e.left <= l[i - 1].left
  <2>1. i - 1 \in at .. Len(l) /\ (i - 1) + 1 = i
    BY <1>1, <1>2, <1>4
  <2>2. n[i] = l[i - 1] /\ i - 1 \in DOMAIN l /\ at \in DOMAIN l
    BY <1>1, <1>2, <2>1 DEF Placed
  <2>3. e.left <= l[at].left /\ (at = i - 1 \/ l[at].left <= l[i - 1].left)
    BY <1>1, <1>2, <2>1, <2>2 DEF InTime
  <2>4. e.left \in Nat /\ l[at].left \in Nat /\ l[i - 1].left \in Nat
    BY <1>1, <2>2 DEF Timers
  <2>. QED
    BY <2>2, <2>3, <2>4
<1>5. SUFFICES ASSUME NEW i \in DOMAIN n, NEW j \in DOMAIN n, i < j
               PROVE  n[i].left <= n[j].left
  BY DEF InTime
<1>6. \A k \in DOMAIN l : l[k].left \in Nat
  BY <1>1 DEF Timers
<1>7. e.left \in Nat
  BY DEF Timers
<1>8. CASE j < at
  <2>1. n[i] = l[i] /\ n[j] = l[j] /\ i \in DOMAIN l /\ j \in DOMAIN l
    BY <1>2, <1>3, <1>5, <1>8
  <2>. QED
    BY <1>5, <2>1 DEF InTime
<1>9. CASE j = at
  BY <1>2, <1>3, <1>5, <1>9
<1>10. CASE i = at
  BY <1>2, <1>4, <1>5, <1>10
<1>11. CASE i < at /\ at < j
  <2>1. n[i].left <= e.left /\ n[i].left \in Nat
    BY <1>3, <1>6, <1>11
  <2>2. e.left <= n[j].left /\ n[j].left \in Nat
    BY <1>4, <1>6, <1>11
  <2>. QED
    BY <1>7, <2>1, <2>2
<1>12. CASE at < i
  <2>1. n[i] = l[i - 1] /\ i - 1 \in DOMAIN l
    BY <1>4, <1>12
  <2>2. n[j] = l[j - 1] /\ j - 1 \in DOMAIN l /\ i - 1 < j - 1
    BY <1>2, <1>4, <1>5, <1>12
  <2>. QED
    BY <2>1, <2>2 DEF InTime
<1>. QED
  BY <1>2, <1>5, <1>8, <1>9, <1>10, <1>11, <1>12

LEMMA Armed ==
  ASSUME TypeInv, NEW r \in 0 .. Retries, Arm(r)
  PROVE  /\ timers' \in Seq(Timers) /\ InTime(timers')
         /\ \E at \in 1 .. Len(timers) + 1 : Placed(timers, timers', at, NewTimer(r))
<1>. DEFINE later == {i \in 1 .. Len(timers) : timers[i].left >= NewTimer(r).left}
            all == later \cup {Len(timers) + 1}
            at == CHOOSE i \in all : \A j \in later : i <= j
<1>1. timers \in Seq(Timers) /\ Len(timers) \in Nat
  BY TypeParts, SeqPlaces DEF TypeInv
<1>2. all \subseteq Nat /\ all # {} /\ all \subseteq 1 .. Len(timers) + 1 /\ later \subseteq all
  BY <1>1
<1>3. \E i \in all : \A j \in later : i <= j
  <2>. HIDE DEF later, all
  <2>1. PICK i \in all : \A j \in all : i <= j
    BY <1>2, LeastNat
  <2>. QED
    BY <1>2, <2>1
<1>4. at \in all /\ \A j \in later : at <= j
  <2>. HIDE DEF later, all
  <2>. QED
    BY <1>3
<1>5. at \in 1 .. Len(timers) + 1
  BY <1>2, <1>4
<1>6. NewTimer(r) \in Timers
  <2>1. Retries \in Nat
    BY HoldAssumption
  <2>2. Xor2(Retries - r) \in Nat
    BY <2>1, XorNat
  <2>. QED
    BY <2>2 DEF NewTimer, Timers
<1>7. timers' = SubSeq(timers, 1, at - 1) \o <<NewTimer(r)>>
                  \o SubSeq(timers, at, Len(timers))
  BY DEF Arm, NewTimer
<1>. HIDE DEF at
<1>8. timers' \in Seq(Timers) /\ Placed(timers, timers', at, NewTimer(r))
  BY <1>1, <1>5, <1>6, <1>7, Inserted
<1>9. \A i \in 1 .. Len(timers) : timers[i].left \in Nat
  <2>1. \A i \in 1 .. Len(timers) : timers[i] \in Timers
    BY <1>1, SeqPlaces
  <2>. QED
    BY <2>1 DEF Timers
<1>10. \A i \in 1 .. at - 1 : timers[i].left <= NewTimer(r).left
  <2>1. NewTimer(r).left \in Nat
    BY <1>6 DEF Timers
  <2>. QED
    BY <1>1, <1>4, <1>5, <1>9, <2>1
<1>11. at <= Len(timers) => NewTimer(r).left <= timers[at].left
  <2>1. NewTimer(r).left \in Nat
    BY <1>6 DEF Timers
  <2>. QED
    BY <1>1, <1>4, <1>5, <1>9, <2>1
<1>12. InTime(timers')
  BY <1>1, <1>6, <1>8, <1>10, <1>11, PlacedInTime DEF TypeInv
<1>. QED
  BY <1>5, <1>8, <1>12

LEMMA TakenType ==
  ASSUME TypeInv, NEW k, Take(k)
  PROVE  /\ tasks # <<>> /\ tasks[1].kind = k /\ Head(tasks) = tasks[1] /\ tasks[1] \in Tasks
         /\ tasks' \in Seq(Tasks) /\ ResendsOK'
         /\ tasks[1].kind = "resend" => tasks[1].arg <= Retries
<1>1. tasks \in Seq(Tasks) /\ tasks # <<>> /\ tasks' = Tail(tasks) /\ Head(tasks).kind = k
  BY TypeParts DEF Take, TypeInv
<1>2. /\ tasks' \in Seq(Tasks) /\ DOMAIN tasks' = 1 .. Len(tasks) - 1
      /\ Len(tasks) \in Nat \ {0} /\ Head(tasks) = tasks[1]
      /\ \A i \in 1 .. Len(tasks) - 1 : tasks'[i] = tasks[i + 1]
  BY <1>1, Shifted
<1>3. DOMAIN tasks = 1 .. Len(tasks) /\ \A i \in DOMAIN tasks : tasks[i] \in Tasks
  BY <1>1, SeqPlaces
<1>4. ResendsOK'
  <2>1. \A i \in DOMAIN tasks : tasks[i].kind = "resend" => tasks[i].arg <= Retries
    BY DEF TypeInv, ResendsOK
  <2>2. SUFFICES ASSUME NEW i \in DOMAIN tasks', tasks'[i].kind = "resend"
                 PROVE  tasks'[i].arg <= Retries
    BY DEF ResendsOK
  <2>3. tasks'[i] = tasks[i + 1] /\ i + 1 \in DOMAIN tasks
    BY <1>2, <1>3
  <2>. QED
    BY <2>1, <2>2, <2>3
<1>. QED
  BY <1>1, <1>2, <1>3, <1>4 DEF TypeInv, ResendsOK

LEMMA ReleasedType ==
  ASSUME TypeOK, NEW v \in Fates, Release(v)
  PROVE  held' \in Seq(Packet) /\ fate' \in [Packet -> Fates]
<1>1. fate \in [Packet -> Fates]
  BY TypeParts
<1>. QED
  BY <1>1 DEF Release

LEMMA NextType ==
  ASSUME TypeInv, [Next]_vars
  PROVE  TypeInv'
<1>1. /\ route \in Routes /\ fate \in [Packet -> Fates] /\ held \in Seq(Packet)
      /\ tasks \in Seq(Tasks) /\ timers \in Seq(Timers)
      /\ air \subseteq Nat /\ dst_id \in Nat /\ rreqs \in Nat /\ open \in BOOLEAN
  BY TypeParts DEF TypeInv
<1>2. ResendsOK /\ InTime(timers) /\ Retries \in Nat
  BY HoldAssumption DEF TypeInv
<1>. SUFFICES /\ route' \in Routes /\ fate' \in [Packet -> Fates] /\ held' \in Seq(Packet)
              /\ tasks' \in Seq(Tasks) /\ timers' \in Seq(Timers)
              /\ air' \subseteq Nat /\ dst_id' \in Nat /\ rreqs' \in Nat /\ open' \in BOOLEAN
              /\ ResendsOK' /\ InTime(timers')
  BY TypePartsNext DEF TypeInv, InTime
<1>3. ASSUME UNCHANGED tasks PROVE ResendsOK'
  BY <1>2, <1>3 DEF ResendsOK
<1>4. ASSUME NEW t \in Tasks, tasks' = Append(tasks, t), t.kind = "resend" => t.arg <= Retries
      PROVE  tasks' \in Seq(Tasks) /\ ResendsOK'
  <2>1. /\ tasks' \in Seq(Tasks) /\ DOMAIN tasks' = 1 .. Len(tasks) + 1
        /\ tasks'[Len(tasks) + 1] = t /\ \A i \in 1 .. Len(tasks) : tasks'[i] = tasks[i]
    BY <1>1, <1>4, Appended
  <2>2. DOMAIN tasks = 1 .. Len(tasks) /\ Len(tasks) \in Nat
    BY <1>1, SeqPlaces
  <2>. QED
    BY <1>2, <1>4, <2>1, <2>2 DEF ResendsOK
<1>5. CASE \E p \in Packet : Accept(p)
  BY <1>1, <1>2, <1>3, <1>5 DEF Accept, Routes, Fates, HasRoute
<1>6. CASE \E p \in Packet : Ask(p)
  <2>1. PICK p \in Packet : Ask(p)
    BY <1>6
  <2>2. Gen \in Tasks /\ Gen.kind # "resend"
    BY DEF Gen, Tasks
  <2>3. /\ tasks' \in Seq(Tasks) /\ DOMAIN tasks' = 1 .. Len(tasks) + 1 /\ tasks'[1] = Gen
        /\ \A i \in 1 .. Len(tasks) : tasks'[i + 1] = tasks[i]
    BY <1>1, <2>1, <2>2, Prepended DEF Ask
  <2>4. DOMAIN tasks = 1 .. Len(tasks) /\ Len(tasks) \in Nat
    BY <1>1, SeqPlaces
  <2>5. ResendsOK'
    <3>1. SUFFICES ASSUME NEW i \in DOMAIN tasks', tasks'[i].kind = "resend"
                   PROVE  tasks'[i].arg <= Retries
      BY DEF ResendsOK
    <3>2. i # 1
      BY <2>2, <2>3, <3>1
    <3>3. i - 1 \in 1 .. Len(tasks) /\ (i - 1) + 1 = i
      BY <2>3, <2>4, <3>2
    <3>4. tasks'[i] = tasks[i - 1]
      BY <2>3, <3>3
    <3>. QED
      BY <1>2, <2>4, <3>1, <3>3, <3>4 DEF ResendsOK
  <2>. QED
    BY <1>1, <1>2, <2>1, <2>3, <2>5 DEF Ask, Fates
<1>7. CASE \E p \in Packet : Enqueue(p)
  <2>1. PICK p \in Packet : Enqueue(p)
    BY <1>7
  <2>2. Append(held, p) \in Seq(Packet)
    BY <1>1, Appended
  <2>. QED
    BY <1>1, <1>2, <1>3, <2>1, <2>2 DEF Enqueue, Fates
<1>8. CASE Tick
  <2>1. \A i \in DOMAIN timers : timers[i] \in Timers
    BY <1>1, SeqPlaces
  <2>2. timers # <<>> /\ Head(timers).left > 0
    BY <1>8 DEF Tick
  <2>3. timers' = [i \in 1 .. Len(timers) |-> [timers[i] EXCEPT !.left = @ - 1]]
    BY <1>8 DEF Tick
  <2>4. timers[1] = Head(timers) /\ DOMAIN timers = 1 .. Len(timers) /\ Len(timers) \in Nat
    BY <1>1, <2>2, Shifted, SeqPlaces
  <2>5. ASSUME NEW i \in 1 .. Len(timers)
        PROVE  /\ timers'[i] \in Timers /\ timers'[i].left = timers[i].left - 1
               /\ timers[i].left \in Nat
    <3>1. timers[i] \in Timers
      BY <2>1, <2>4
    <3>2. timers[1].left <= timers[i].left /\ timers[1].left > 0 /\ timers[1] \in Timers
      BY <1>2, <2>1, <2>2, <2>4, <3>1 DEF InTime, Timers
    <3>3. timers'[i] = [timers[i] EXCEPT !.left = @ - 1]
      BY <2>3
    <3>. QED
      BY <3>1, <3>2, <3>3 DEF Timers
  <2>6. DOMAIN timers' = 1 .. Len(timers)
    BY <2>3
  <2>7. timers' \in Seq(Timers)
    <3>1. timers' \in [1 .. Len(timers) -> Timers]
      BY <2>3, <2>5
    <3>. QED
      BY <2>4, <3>1, SeqDef
  <2>8. InTime(timers')
    BY <1>2, <2>4, <2>5, <2>6 DEF InTime
  <2>. QED
    BY <1>1, <1>3, <1>8, <2>7, <2>8 DEF Tick
<1>9. CASE Fire
  <2>1. /\ timers' = Tail(timers) /\ timers # <<>>
        /\ tasks' = Append(tasks, Resend(Head(timers).retries))
    BY <1>9 DEF Fire
  <2>2. /\ timers' \in Seq(Timers) /\ InTime(timers')
        /\ Head(timers) = timers[1] /\ 1 \in 1 .. Len(timers)
    BY <1>1, <1>2, <2>1, Shifted, ShiftedInTime
  <2>3. timers[1] \in Timers
    BY <1>1, <2>2, SeqPlaces
  <2>4. Resend(Head(timers).retries) \in Tasks /\ Resend(Head(timers).retries).arg <= Retries
    BY <1>2, <2>2, <2>3 DEF Resend, Tasks, Timers
  <2>. QED
    BY <1>1, <1>4, <1>9, <2>1, <2>2, <2>4 DEF Fire
<1>10. CASE GenRreq
  <2>1. Retries \in 0 .. Retries
    BY <1>2
  <2>2. timers' \in Seq(Timers) /\ InTime(timers')
    BY <1>10, <2>1, Armed DEF GenRreq
  <2>3. tasks' \in Seq(Tasks) /\ ResendsOK'
    BY <1>10, TakenType DEF GenRreq
  <2>. QED
    BY <1>1, <1>10, <2>2, <2>3 DEF GenRreq
<1>11. CASE ResendRreq
  <2>1. Take("resend")
    BY <1>11 DEF ResendRreq
  <2>2. tasks' \in Seq(Tasks) /\ ResendsOK'
    BY <2>1, TakenType
  <2>3. /\ tasks[1] \in Tasks /\ tasks[1].kind = "resend" /\ tasks[1].arg <= Retries
        /\ Head(tasks) = tasks[1]
    BY <2>1, TakenType
  <2>4. CASE Head(tasks).arg = 0
    <3>1. Release("dropped") /\ UNCHANGED <<timers, rreqs, route, air, dst_id, open>>
      BY <1>11, <2>4 DEF ResendRreq
    <3>2. held' \in Seq(Packet) /\ fate' \in [Packet -> Fates]
      BY <3>1, ReleasedType DEF TypeInv, Fates
    <3>. QED
      BY <1>1, <1>2, <2>2, <3>1, <3>2
  <2>5. CASE Head(tasks).arg > 0
    <3>1. /\ Arm(Head(tasks).arg - 1) /\ rreqs' = rreqs + 1
          /\ UNCHANGED <<fate, held, route, air, dst_id, open>>
      BY <1>11, <2>5 DEF ResendRreq
    <3>2. Head(tasks).arg - 1 \in 0 .. Retries
      BY <1>2, <2>3, <2>5 DEF Tasks
    <3>3. timers' \in Seq(Timers) /\ InTime(timers')
      BY <3>1, <3>2, Armed
    <3>. QED
      BY <1>1, <2>2, <3>1, <3>3
  <2>. QED
    BY <2>3, <2>4, <2>5 DEF Tasks
<1>12. CASE RecvRrep
  <2>1. Take("rrep") /\ Disarm
    BY <1>12 DEF RecvRrep
  <2>2. tasks' \in Seq(Tasks) /\ ResendsOK'
    BY <2>1, TakenType
  <2>3. tasks[1] \in Tasks /\ Head(tasks) = tasks[1]
    BY <2>1, TakenType
  <2>4. timers' \in Seq(Timers) /\ InTime(timers')
    <3>1. CASE timers = <<>>
      BY <1>1, <1>2, <2>1, <3>1 DEF Disarm
    <3>2. CASE timers # <<>>
      BY <1>1, <1>2, <2>1, <3>2, Shifted, ShiftedInTime DEF Disarm
    <3>. QED
      BY <3>1, <3>2
  <2>5. held' \in Seq(Packet) /\ fate' \in [Packet -> Fates]
    <3>1. CASE Release("sent")
      BY <3>1, ReleasedType DEF TypeInv, Fates
    <3>2. CASE UNCHANGED <<fate, held>>
      BY <1>1, <3>2
    <3>. QED
      BY <1>12, <3>1, <3>2 DEF RecvRrep
  <2>6. route' \in Routes
    BY <1>1, <1>12, <2>3 DEF RecvRrep, Routes, Tasks
  <2>. QED
    BY <1>1, <1>12, <2>2, <2>4, <2>5, <2>6 DEF RecvRrep
<1>13. CASE Invalidate
  BY <1>1, <1>2, <1>3, <1>13 DEF Invalidate, Routes
<1>14. CASE Remove
  BY <1>1, <1>2, <1>3, <1>14 DEF Remove, NoRoute, Routes
<1>15. CASE Destroy
  <2>1. held' \in Seq(Packet) /\ fate' \in [Packet -> Fates]
    BY <1>15, ReleasedType DEF Destroy, TypeInv, Fates
  <2>. QED
    BY <1>1, <1>2, <1>3, <1>15, <2>1 DEF Destroy
<1>16. CASE Answer
  <2>1. UNCHANGED <<route, fate, held, tasks, timers, rreqs, open>>
    BY <1>16 DEF Answer
  <2>2. dst_id' \in Nat /\ air' \subseteq Nat
    <3>1. dst_id' = dst_id + 1 /\ (air' = air \cup {dst_id + 1} \/ air' = air)
      BY <1>16 DEF Answer
    <3>2. dst_id + 1 \in Nat /\ air \subseteq Nat
      BY <1>1
    <3>. QED
      BY <3>1, <3>2
  <2>. QED
    BY <1>1, <1>2, <1>3, <2>1, <2>2
<1>17. CASE \E id \in air : Arrive(id)
  <2>1. PICK id \in air : Arrive(id)
    BY <1>17
  <2>2. Reply(id) \in Tasks /\ Reply(id).kind # "resend"
    BY <1>1 DEF Reply, Tasks
  <2>. QED
    BY <1>1, <1>2, <1>4, <2>1, <2>2 DEF Arrive
<1>18. CASE UNCHANGED vars
  BY <1>1, <1>2, <1>3, <1>18 DEF vars
<1>. QED
  BY <1>5, <1>6, <1>7, <1>8, <1>9, <1>10, <1>11, <1>12, <1>13, <1>14, <1>15, <1>16, <1>17,
     <1>18 DEF Next, Thread

(* Every variable has its type: what is sent again has retries left that   *)
(* no other timer and no task gave it.                                     *)
THEOREM HoldTypes == Spec => []TypeOK
<1>1. Init => TypeInv
  BY TypeParts DEF Init, TypeInv, ResendsOK, InTime, NoRoute, Routes, Fates
<1>2. TypeInv /\ [Next]_vars => TypeInv'
  BY NextType
<1>3. TypeInv => TypeOK
  BY DEF TypeInv
<1>. QED
  BY <1>1, <1>2, <1>3, PTL DEF Spec
-----------------------------------------------------------------------------
(* Floods.  The code counts retries for each discovery apart, and never    *)
(* asks who asked; so the books are kept here.  A place is where a flood   *)
(* to come is waiting: a task (by its place in the queue) or a timer (its  *)
(* place, negated); its worth is the RREQs it may still lead to.  A packet *)
(* brings Retries + 1 tokens and one place; a RREQ spends a token of the   *)
(* packet that owns the place it comes from.                               *)

Ledger(places, worth, asked, sent) ==
  \E Spent \in SUBSET (asked \X (0 .. Retries)), own \in [places -> asked] :
    /\ \A x, y \in places : own[x] = own[y] => x = y
    /\ \A x \in places : \A j \in 0 .. Retries : j < worth[x] => <<own[x], j>> \notin Spent
    /\ Cardinality(Spent) = sent

(* Where the places after a step come from, and that none is worth more.   *)
Traced(from, places2, worth2, places1, worth1) ==
  /\ from \in [places2 -> places1]
  /\ \A x, y \in places2 : from[x] = from[y] => x = y
  /\ \A x \in places2 : worth2[x] <= worth1[from[x]]

Worths(places) == [places -> 0 .. Retries + 1]

LEMMA LedgerKept ==
  ASSUME NEW P1, NEW w1 \in Worths(P1), NEW P2, NEW w2 \in Worths(P2), NEW A1, NEW A2, NEW n,
         Ledger(P1, w1, A1, n), A1 \subseteq A2, NEW from, Traced(from, P2, w2, P1, w1)
  PROVE  Ledger(P2, w2, A2, n)
<1>1. PICK Spent \in SUBSET (A1 \X (0 .. Retries)), own \in [P1 -> A1] :
        /\ \A x, y \in P1 : own[x] = own[y] => x = y
        /\ \A x \in P1 : \A j \in 0 .. Retries : j < w1[x] => <<own[x], j>> \notin Spent
        /\ Cardinality(Spent) = n
  BY DEF Ledger
<1>. DEFINE own2 == [x \in P2 |-> own[from[x]]]
<1>2. Retries \in Nat
  BY HoldAssumption
<1>3. own2 \in [P2 -> A2] /\ Spent \in SUBSET (A2 \X (0 .. Retries))
  BY <1>1 DEF Traced
<1>4. \A x, y \in P2 : own2[x] = own2[y] => x = y
  BY <1>1 DEF Traced
<1>5. ASSUME NEW x \in P2, NEW j \in 0 .. Retries, j < w2[x]
      PROVE  <<own2[x], j>> \notin Spent
  <2>1. from[x] \in P1 /\ w2[x] <= w1[from[x]]
    BY DEF Traced
  <2>2. w2[x] \in 0 .. Retries + 1 /\ w1[from[x]] \in 0 .. Retries + 1
    BY <2>1 DEF Worths
  <2>3. j < w1[from[x]]
    BY <1>2, <1>5, <2>1, <2>2
  <2>. QED
    BY <1>1, <2>1, <2>3
<1>. HIDE DEF own2
<1>. QED
  BY <1>1, <1>3, <1>4, <1>5 DEF Ledger

LEMMA LedgerSpends ==
  ASSUME NEW P1, NEW w1 \in Worths(P1), NEW P2, NEW w2 \in Worths(P2), NEW A, NEW n \in Nat,
         IsFiniteSet(A),
         Ledger(P1, w1, A, n), NEW from, Traced(from, P2, w2, P1, w1),
         NEW x0 \in P2, w2[x0] < w1[from[x0]]
  PROVE  Ledger(P2, w2, A, n + 1)
<1>1. PICK Spent \in SUBSET (A \X (0 .. Retries)), own \in [P1 -> A] :
        /\ \A x, y \in P1 : own[x] = own[y] => x = y
        /\ \A x \in P1 : \A j \in 0 .. Retries : j < w1[x] => <<own[x], j>> \notin Spent
        /\ Cardinality(Spent) = n
  BY DEF Ledger
<1>. DEFINE own2 == [x \in P2 |-> own[from[x]]]
            k == w1[from[x0]] - 1
            token == <<own2[x0], k>>
            Spent2 == Spent \cup {token}
<1>2. Retries \in Nat
  BY HoldAssumption
<1>3. own2 \in [P2 -> A]
  BY <1>1 DEF Traced
<1>4. \A x, y \in P2 : own2[x] = own2[y] => x = y
  BY <1>1 DEF Traced
<1>5. \A x \in P2 : from[x] \in P1 /\ w2[x] <= w1[from[x]] /\ own2[x] = own[from[x]]
  BY DEF Traced
<1>6. \A x \in P2 : w2[x] \in 0 .. Retries + 1 /\ w1[from[x]] \in 0 .. Retries + 1
  BY <1>5 DEF Worths
<1>7. k \in 0 .. Retries /\ k < w1[from[x0]] /\ w2[x0] <= k
  BY <1>2, <1>6
<1>8. token \notin Spent /\ token \in A \X (0 .. Retries)
  BY <1>1, <1>3, <1>5, <1>7
<1>9. Cardinality(Spent2) = n + 1
  <2>1. IsFiniteSet(Spent)
    <3>1. IsFiniteSet(0 .. Retries)
      BY <1>2, FS_Interval
    <3>2. IsFiniteSet(A \X (0 .. Retries))
      BY <3>1, FS_Product
    <3>. QED
      BY <1>1, <3>2, FS_Subset
  <2>. HIDE DEF token
  <2>. QED
    BY <1>1, <1>8, <2>1, FS_AddElement
<1>10. ASSUME NEW x \in P2, NEW j \in 0 .. Retries, j < w2[x]
       PROVE  <<own2[x], j>> \notin Spent2
  <2>. HIDE DEF own2, k
  <2>1. j < w1[from[x]]
    BY <1>2, <1>5, <1>6, <1>10
  <2>2. <<own2[x], j>> \notin Spent
    BY <1>1, <1>5, <2>1
  <2>3. <<own2[x], j>> # token
    <3>1. CASE x = x0
      <4>1. j # k
        BY <1>2, <1>6, <1>7, <1>10, <3>1
      <4>. QED
        BY <4>1
    <3>2. CASE x # x0
      BY <1>4, <3>2
    <3>. QED
      BY <3>1, <3>2
  <2>. QED
    BY <2>2, <2>3
<1>. HIDE DEF own2, token
<1>11. Spent2 \in SUBSET (A \X (0 .. Retries))
  BY <1>1, <1>8
<1>. HIDE DEF Spent2
<1>. QED
  BY <1>3, <1>4, <1>9, <1>10, <1>11 DEF Ledger

LEMMA LedgerAsks ==
  ASSUME NEW P1, NEW w1 \in Worths(P1), NEW P2, NEW w2 \in Worths(P2), NEW A, NEW n,
         Ledger(P1, w1, A, n), NEW p, p \notin A, NEW x0 \in P2,
         NEW from, Traced(from, P2 \ {x0}, w2, P1, w1)
  PROVE  Ledger(P2, w2, A \cup {p}, n)
<1>1. PICK Spent \in SUBSET (A \X (0 .. Retries)), own \in [P1 -> A] :
        /\ \A x, y \in P1 : own[x] = own[y] => x = y
        /\ \A x \in P1 : \A j \in 0 .. Retries : j < w1[x] => <<own[x], j>> \notin Spent
        /\ Cardinality(Spent) = n
  BY DEF Ledger
<1>. DEFINE own2 == [x \in P2 |-> IF x = x0 THEN p ELSE own[from[x]]]
<1>2. Retries \in Nat
  BY HoldAssumption
<1>3. own2 \in [P2 -> A \cup {p}] /\ Spent \in SUBSET ((A \cup {p}) \X (0 .. Retries))
  BY <1>1 DEF Traced
<1>4. ASSUME NEW x \in P2, NEW y \in P2, own2[x] = own2[y]
      PROVE  x = y
  <2>1. \A z \in P2 \ {x0} : from[z] \in P1 /\ own2[z] = own[from[z]] /\ own2[z] \in A
    BY <1>1 DEF Traced
  <2>2. own2[x0] = p
    OBVIOUS
  <2>. HIDE DEF own2
  <2>3. CASE x = x0 \/ y = x0
    BY <1>4, <2>1, <2>2, <2>3
  <2>4. CASE x # x0 /\ y # x0
    <3>1. from[x] = from[y]
      BY <1>1, <1>4, <2>1, <2>4
    <3>. QED
      BY <2>4, <3>1 DEF Traced
  <2>. QED
    BY <2>3, <2>4
<1>5. ASSUME NEW x \in P2, NEW j \in 0 .. Retries, j < w2[x]
      PROVE  <<own2[x], j>> \notin Spent
  <2>1. CASE x = x0
    BY <1>1, <2>1
  <2>2. CASE x # x0
    <3>1. from[x] \in P1 /\ w2[x] <= w1[from[x]] /\ own2[x] = own[from[x]]
      BY <2>2 DEF Traced
    <3>2. w2[x] \in 0 .. Retries + 1 /\ w1[from[x]] \in 0 .. Retries + 1
      BY <3>1 DEF Worths
    <3>3. j < w1[from[x]]
      BY <1>2, <1>5, <3>1, <3>2
    <3>. HIDE DEF own2
    <3>. QED
      BY <1>1, <3>1, <3>3
  <2>. QED
    BY <2>1, <2>2
<1>. HIDE DEF own2
<1>. QED
  BY <1>1, <1>3, <1>4, <1>5 DEF Ledger

LEMMA LedgerBounds ==
  ASSUME NEW P, NEW w, NEW A, IsFiniteSet(A), NEW n, Ledger(P, w, A, n)
  PROVE  n <= (Retries + 1) * Cardinality(A)
<1>1. PICK Spent \in SUBSET (A \X (0 .. Retries)) : Cardinality(Spent) = n
  BY DEF Ledger
<1>2. Retries \in Nat
  BY HoldAssumption
<1>3. IsFiniteSet(0 .. Retries) /\ Cardinality(0 .. Retries) = Retries + 1
  BY <1>2, FS_Interval
<1>4. /\ IsFiniteSet(A \X (0 .. Retries))
      /\ Cardinality(A \X (0 .. Retries)) = Cardinality(A) * (Retries + 1)
  BY <1>3, FS_Product
<1>5. n <= Cardinality(A) * (Retries + 1)
  BY <1>1, <1>4, FS_Subset
<1>6. Cardinality(A) \in Nat
  BY FS_CardinalityType
<1>7. Cardinality(A) * (Retries + 1) = (Retries + 1) * Cardinality(A)
  BY <1>2, <1>6
<1>. QED
  BY <1>5, <1>7
-----------------------------------------------------------------------------
(* The places and what they are worth.                                     *)

TaskWorth(t) == IF t.kind = "gen" THEN Retries + 1 ELSE t.arg

Places(ts, ms) ==
  {i \in DOMAIN ts : ts[i].kind # "rrep"} \cup {0 - j : j \in DOMAIN ms}
Worth(ts, ms) ==
  [x \in Places(ts, ms) |-> IF x > 0 THEN TaskWorth(ts[x]) ELSE ms[0 - x].retries]

(* A queue of tasks and a list of timers as the code makes them.           *)
Queues(ts, ms) ==
  /\ ts \in Seq(Tasks) /\ ms \in Seq(Timers)
  /\ \A i \in DOMAIN ts : ts[i].kind = "resend" => ts[i].arg <= Retries

Asked == {p \in Packet : fate[p] # "new"}
BooksInv == Ledger(Places(tasks, timers), Worth(tasks, timers), Asked, rreqs)
FloodInv == TypeInv /\ BooksInv

LEMMA PlacesAre ==
  ASSUME NEW ts, NEW ms, Queues(ts, ms)
  PROVE  /\ Len(ts) \in Nat /\ DOMAIN ts = 1 .. Len(ts)
         /\ Len(ms) \in Nat /\ DOMAIN ms = 1 .. Len(ms)
         /\ \A x \in Places(ts, ms) :
              \/ /\ x \in 1 .. Len(ts) /\ ts[x].kind # "rrep"
                 /\ Worth(ts, ms)[x] = TaskWorth(ts[x])
              \/ /\ 0 - x \in 1 .. Len(ms) /\ x \in Int
                 /\ Worth(ts, ms)[x] = ms[0 - x].retries
         /\ \A i \in 1 .. Len(ts) :
              ts[i].kind # "rrep" =>
                i \in Places(ts, ms) /\ Worth(ts, ms)[i] = TaskWorth(ts[i])
         /\ \A j \in 1 .. Len(ms) :
              0 - j \in Places(ts, ms) /\ Worth(ts, ms)[0 - j] = ms[j].retries
         /\ Worth(ts, ms) \in Worths(Places(ts, ms))
<1>1. /\ Len(ts) \in Nat /\ DOMAIN ts = 1 .. Len(ts)
      /\ Len(ms) \in Nat /\ DOMAIN ms = 1 .. Len(ms)
      /\ \A i \in DOMAIN ts : ts[i] \in Tasks
      /\ \A j \in DOMAIN ms : ms[j] \in Timers
  BY SeqPlaces DEF Queues
<1>2. Retries \in Nat
  BY HoldAssumption
<1>3. ASSUME NEW x \in Places(ts, ms)
      PROVE  \/ /\ x \in 1 .. Len(ts) /\ ts[x].kind # "rrep"
                /\ Worth(ts, ms)[x] = TaskWorth(ts[x])
             \/ /\ 0 - x \in 1 .. Len(ms) /\ x \in Int
                /\ Worth(ts, ms)[x] = ms[0 - x].retries
  <2>1. Worth(ts, ms)[x] = IF x > 0 THEN TaskWorth(ts[x]) ELSE ms[0 - x].retries
    BY DEF Worth
  <2>2. CASE x \in DOMAIN ts /\ ts[x].kind # "rrep"
    BY <1>1, <2>1, <2>2
  <2>3. CASE \E j \in DOMAIN ms : x = 0 - j
    BY <1>1, <2>1, <2>3
  <2>. QED
    BY <2>2, <2>3 DEF Places
<1>4. ASSUME NEW i \in 1 .. Len(ts), ts[i].kind # "rrep"
      PROVE  i \in Places(ts, ms) /\ Worth(ts, ms)[i] = TaskWorth(ts[i])
  BY <1>1, <1>4 DEF Places, Worth
<1>5. ASSUME NEW j \in 1 .. Len(ms)
      PROVE  0 - j \in Places(ts, ms) /\ Worth(ts, ms)[0 - j] = ms[j].retries
  <2>1. 0 - j \in Places(ts, ms)
    BY <1>1 DEF Places
  <2>2. ~ (0 - j > 0) /\ 0 - (0 - j) = j
    BY <1>1
  <2>. QED
    BY <2>1, <2>2 DEF Worth
<1>6. ASSUME NEW x \in Places(ts, ms)
      PROVE  Worth(ts, ms)[x] \in 0 .. Retries + 1
  <2>1. CASE x \in 1 .. Len(ts) /\ ts[x].kind # "rrep" /\ Worth(ts, ms)[x] = TaskWorth(ts[x])
    <3>1. ts[x] \in Tasks /\ (ts[x].kind = "resend" => ts[x].arg <= Retries)
      BY <1>1, <2>1 DEF Queues
    <3>. QED
      BY <1>2, <2>1, <3>1 DEF TaskWorth, Tasks
  <2>2. CASE 0 - x \in 1 .. Len(ms) /\ Worth(ts, ms)[x] = ms[0 - x].retries
    BY <1>1, <1>2, <2>2 DEF Timers
  <2>. QED
    BY <1>3, <2>1, <2>2
<1>7. Worth(ts, ms) \in Worths(Places(ts, ms))
  BY <1>6 DEF Worths, Worth
<1>. QED
  BY <1>1, <1>3, <1>4, <1>5, <1>7

LEMMA QueuesAre ==
  ASSUME TypeInv
  PROVE  Queues(tasks, timers)
  BY TypeParts DEF TypeInv, ResendsOK, Queues

LEMMA QueuesAreNext ==
  ASSUME TypeInv'
  PROVE  Queues(tasks', timers')
  BY TypePartsNext DEF TypeInv, ResendsOK, Queues

LEMMA AskedFinite ==
  IsFiniteSet(Asked) /\ Asked \subseteq Packet
<1>1. Asked \subseteq Packet
  BY DEF Asked
<1>. QED
  BY <1>1, HoldAssumption, FS_Subset

(* A queue without its first element.                                      *)
Follows(l, l2) ==
  /\ DOMAIN l2 = 1 .. Len(l) - 1 /\ Len(l) \in Nat \ {0}
  /\ \A i \in 1 .. Len(l) - 1 : l2[i] = l[i + 1]

(* A RREQ is sent for the first task, and a timer is armed with one retry  *)
(* less than that task was worth.                                          *)
LEMMA SpendTrace ==
  ASSUME NEW ts, NEW ms, Queues(ts, ms), ts[1].kind # "rrep",
         NEW ts2, NEW ms2, Queues(ts2, ms2), Follows(ts, ts2),
         NEW at, NEW e, Placed(ms, ms2, at, e), e.retries = TaskWorth(ts[1]) - 1
  PROVE  \E from, x0 :
           /\ Traced(from, Places(ts2, ms2), Worth(ts2, ms2), Places(ts, ms), Worth(ts, ms))
           /\ x0 \in Places(ts2, ms2)
           /\ Worth(ts2, ms2)[x0] < Worth(ts, ms)[from[x0]]
<1>. DEFINE P1 == Places(ts, ms)
            P2 == Places(ts2, ms2)
            w1 == Worth(ts, ms)
            w2 == Worth(ts2, ms2)
            from == [x \in P2 |->
                       IF x > 0 THEN x + 1
                       ELSE IF x = 0 - at THEN 1
                       ELSE IF 0 - x < at THEN x ELSE x + 1]
<1>1. /\ DOMAIN ts2 = 1 .. Len(ts) - 1 /\ Len(ts) \in Nat \ {0}
      /\ \A i \in 1 .. Len(ts) - 1 : ts2[i] = ts[i + 1]
  BY DEF Follows
<1>2. /\ Len(ms) \in Nat
      /\ \A x \in 1 .. Len(ts) : ts[x].kind # "rrep" => x \in P1 /\ w1[x] = TaskWorth(ts[x])
      /\ \A j \in 1 .. Len(ms) : 0 - j \in P1 /\ w1[0 - j] = ms[j].retries
      /\ w1 \in Worths(P1)
  BY PlacesAre
<1>3. /\ DOMAIN ms2 = 1 .. Len(ms2) /\ DOMAIN ts2 = 1 .. Len(ts2)
      /\ \A x \in P2 :
           \/ x \in 1 .. Len(ts2) /\ ts2[x].kind # "rrep" /\ w2[x] = TaskWorth(ts2[x])
           \/ 0 - x \in 1 .. Len(ms2) /\ x \in Int /\ w2[x] = ms2[0 - x].retries
      /\ \A j \in 1 .. Len(ms2) : 0 - j \in P2 /\ w2[0 - j] = ms2[j].retries
      /\ w2 \in Worths(P2)
  BY PlacesAre
<1>4. /\ at \in 1 .. Len(ms) + 1 /\ DOMAIN ms2 = 1 .. Len(ms) + 1 /\ ms2[at] = e
      /\ \A i \in 1 .. at - 1 : ms2[i] = ms[i]
      /\ \A i \in at .. Len(ms) : ms2[i + 1] = ms[i]
  BY DEF Placed
<1>5. 1 \in P1 /\ w1[1] = TaskWorth(ts[1]) /\ w1[1] \in Nat
  <2>1. 1 \in P1 /\ w1[1] = TaskWorth(ts[1])
    BY <1>1, <1>2
  <2>2. w1[1] \in 0 .. Retries + 1
    BY <1>2, <2>1 DEF Worths
  <2>. QED
    BY <2>1, <2>2
<1>6. 0 - at \in P2 /\ w2[0 - at] = w1[1] - 1
  BY <1>2, <1>3, <1>4, <1>5
<1>. HIDE DEF P1, P2, w1, w2
<1>7. ASSUME NEW x \in P2
      PROVE  \/ /\ x \in 1 .. Len(ts) - 1 /\ from[x] = x + 1 /\ from[x] \in P1
                /\ w2[x] <= w1[from[x]]
             \/ /\ x \in Int /\ x < 0 /\ x = 0 - at /\ from[x] = 1 /\ from[x] \in P1
                /\ w2[x] < w1[from[x]]
             \/ /\ x \in Int /\ x < 0 /\ 0 - x < at /\ from[x] = x /\ from[x] \in P1
                /\ w2[x] <= w1[from[x]]
             \/ /\ x \in Int /\ x < 0 /\ 0 - x > at /\ from[x] = x + 1 /\ from[x] < 0
                /\ from[x] \in P1 /\ w2[x] <= w1[from[x]]
  <2>1. \A y \in P2 : w2[y] \in Int
    BY <1>3 DEF Worths
  <2>2. CASE x \in 1 .. Len(ts2) /\ ts2[x].kind # "rrep" /\ w2[x] = TaskWorth(ts2[x])
    <3>1. x \in 1 .. Len(ts) - 1 /\ ts2[x] = ts[x + 1] /\ x + 1 \in 1 .. Len(ts)
      BY <1>1, <1>3, <2>2
    <3>2. from[x] = x + 1
      BY <1>1, <3>1
    <3>3. x + 1 \in P1 /\ w1[x + 1] = w2[x]
      BY <1>2, <2>2, <3>1
    <3>. QED
      BY <2>1, <3>1, <3>2, <3>3
  <2>3. CASE 0 - x \in 1 .. Len(ms2) /\ x \in Int /\ w2[x] = ms2[0 - x].retries
    <3>1. x < 0 /\ 0 - x \in 1 .. Len(ms) + 1
      BY <1>2, <1>3, <1>4, <2>3
    <3>2. CASE x = 0 - at
      <4>1. from[x] = 1
        BY <1>4, <2>3, <3>1, <3>2
      <4>. QED
        BY <1>5, <1>6, <2>3, <3>1, <3>2, <4>1
    <3>3. CASE 0 - x < at
      <4>1. from[x] = x
        BY <1>4, <2>3, <3>1, <3>3
      <4>2. 0 - x \in 1 .. at - 1 /\ 0 - x \in 1 .. Len(ms) /\ 0 - (0 - x) = x
        BY <1>2, <1>4, <2>3, <3>1, <3>3
      <4>3. ms2[0 - x] = ms[0 - x] /\ x \in P1 /\ w1[x] = ms[0 - x].retries
        BY <1>2, <1>4, <4>2
      <4>. QED
        BY <2>1, <2>3, <3>1, <3>3, <4>1, <4>3
    <3>4. CASE 0 - x > at
      <4>1. from[x] = x + 1
        BY <1>4, <2>3, <3>1, <3>4
      <4>. DEFINE j == 0 - x - 1
      <4>2. j \in at .. Len(ms) /\ j \in 1 .. Len(ms) /\ j + 1 = 0 - x /\ 0 - j = x + 1
        BY <1>2, <1>4, <2>3, <3>1, <3>4
      <4>. HIDE DEF j
      <4>3. ms2[0 - x] = ms[j] /\ x + 1 \in P1 /\ w1[x + 1] = ms[j].retries
        BY <1>2, <1>4, <4>2
      <4>4. x + 1 < 0
        BY <2>3, <4>2
      <4>. QED
        BY <2>1, <2>3, <3>1, <3>4, <4>1, <4>3, <4>4
    <3>. QED
      BY <1>4, <2>3, <3>2, <3>3, <3>4
  <2>. QED
    BY <1>3, <2>2, <2>3
<1>8. from \in [P2 -> P1]
  <2>1. \A x \in P2 : from[x] \in P1
    BY <1>7
  <2>. QED
    BY <2>1
<1>. HIDE DEF from
<1>9. \A x, y \in P2 : from[x] = from[y] => x = y
  BY <1>4, <1>7
<1>10. \A x \in P2 : w2[x] <= w1[from[x]]
  <2>1. \A y \in P2 : w2[y] \in Int
    BY <1>3 DEF Worths
  <2>2. \A y \in P1 : w1[y] \in Int
    BY <1>2 DEF Worths
  <2>. QED
    BY <1>7, <2>1, <2>2
<1>11. Traced(from, P2, w2, P1, w1)
  BY <1>8, <1>9, <1>10 DEF Traced
<1>12. from[0 - at] = 1
  BY <1>4, <1>6, <1>7
<1>13. w2[0 - at] < w1[from[0 - at]]
  BY <1>5, <1>6, <1>12
<1>. QED
  BY <1>6, <1>11, <1>13 DEF P1, P2, w1, w2

(* A task goes, and perhaps the first timer with it.                       *)
LEMMA DropTrace ==
  ASSUME NEW ts, NEW ms, Queues(ts, ms), NEW ts2, NEW ms2, Queues(ts2, ms2),
         Follows(ts, ts2), ms2 = ms \/ Follows(ms, ms2)
  PROVE  \E from :
           Traced(from, Places(ts2, ms2), Worth(ts2, ms2), Places(ts, ms), Worth(ts, ms))
<1>. DEFINE P1 == Places(ts, ms)
            P2 == Places(ts2, ms2)
            w1 == Worth(ts, ms)
            w2 == Worth(ts2, ms2)
            from == [x \in P2 |-> IF x > 0 THEN x + 1 ELSE IF ms2 = ms THEN x ELSE x - 1]
<1>1. /\ DOMAIN ts2 = 1 .. Len(ts) - 1 /\ Len(ts) \in Nat \ {0}
      /\ \A i \in 1 .. Len(ts) - 1 : ts2[i] = ts[i + 1]
  BY DEF Follows
<1>2. /\ Len(ms) \in Nat
      /\ \A x \in 1 .. Len(ts) : ts[x].kind # "rrep" => x \in P1 /\ w1[x] = TaskWorth(ts[x])
      /\ \A j \in 1 .. Len(ms) : 0 - j \in P1 /\ w1[0 - j] = ms[j].retries
      /\ w1 \in Worths(P1)
  BY PlacesAre
<1>3. /\ DOMAIN ms2 = 1 .. Len(ms2) /\ DOMAIN ts2 = 1 .. Len(ts2)
      /\ \A x \in P2 :
           \/ x \in 1 .. Len(ts2) /\ ts2[x].kind # "rrep" /\ w2[x] = TaskWorth(ts2[x])
           \/ 0 - x \in 1 .. Len(ms2) /\ x \in Int /\ w2[x] = ms2[0 - x].retries
      /\ w2 \in Worths(P2)
  BY PlacesAre
<1>. HIDE DEF P1, P2, w1, w2
<1>4. ASSUME NEW x \in P2
      PROVE  /\ x \in Int /\ x # 0 /\ from[x] \in P1 /\ w2[x] = w1[from[x]]
             /\ x > 0 => from[x] = x + 1
             /\ x < 0 => from[x] = IF ms2 = ms THEN x ELSE x - 1
  <2>1. CASE x \in 1 .. Len(ts2) /\ ts2[x].kind # "rrep" /\ w2[x] = TaskWorth(ts2[x])
    <3>1. x \in 1 .. Len(ts) - 1 /\ ts2[x] = ts[x + 1] /\ x + 1 \in 1 .. Len(ts)
      BY <1>1, <1>3, <2>1
    <3>2. from[x] = x + 1
      BY <1>1, <3>1
    <3>3. x + 1 \in P1 /\ w1[x + 1] = w2[x]
      BY <1>2, <2>1, <3>1
    <3>. QED
      BY <1>1, <3>1, <3>2, <3>3
  <2>2. CASE 0 - x \in 1 .. Len(ms2) /\ x \in Int /\ w2[x] = ms2[0 - x].retries
    <3>1. x < 0
      BY <2>2
    <3>2. from[x] = IF ms2 = ms THEN x ELSE x - 1
      BY <2>2, <3>1
    <3>3. CASE ms2 = ms
      <4>1. 0 - (0 - x) = x
        BY <2>2
      <4>2. x \in P1 /\ w1[x] = ms[0 - x].retries
        BY <1>2, <2>2, <3>3, <4>1
      <4>. QED
        BY <2>2, <3>1, <3>2, <3>3, <4>2
    <3>4. CASE Follows(ms, ms2) /\ ms2 # ms
      <4>. DEFINE j == 0 - x
      <4>1. j \in 1 .. Len(ms2) /\ 0 - (j + 1) = x - 1
        BY <2>2
      <4>. HIDE DEF j
      <4>2. j \in 1 .. Len(ms) - 1 /\ j + 1 \in 1 .. Len(ms) /\ ms2[j] = ms[j + 1]
        BY <1>2, <1>3, <3>4, <4>1 DEF Follows
      <4>3. x - 1 \in P1 /\ w1[x - 1] = ms[j + 1].retries
        BY <1>2, <4>1, <4>2
      <4>. QED
        BY <2>2, <3>1, <3>2, <3>4, <4>2, <4>3 DEF j
    <3>. QED
      BY <3>3, <3>4
  <2>. QED
    BY <1>3, <2>1, <2>2
<1>5. from \in [P2 -> P1]
  <2>1. \A x \in P2 : from[x] \in P1
    BY <1>4
  <2>. QED
    BY <2>1
<1>. HIDE DEF from
<1>6. ASSUME NEW x \in P2, NEW y \in P2, from[x] = from[y]
      PROVE  x = y
  <2>1. x \in Int /\ y \in Int /\ x # 0 /\ y # 0
    BY <1>4
  <2>2. /\ x > 0 => from[x] = x + 1
        /\ x < 0 => from[x] = IF ms2 = ms THEN x ELSE x - 1
        /\ y > 0 => from[y] = y + 1
        /\ y < 0 => from[y] = IF ms2 = ms THEN y ELSE y - 1
    BY <1>4
  <2>. QED
    BY <1>6, <2>1, <2>2
<1>7. \A x \in P2 : w2[x] <= w1[from[x]]
  <2>1. \A y \in P2 : w2[y] \in Int
    BY <1>3 DEF Worths
  <2>. QED
    BY <1>4, <2>1
<1>8. Traced(from, P2, w2, P1, w1)
  BY <1>5, <1>6, <1>7 DEF Traced
<1>. QED
  BY <1>8 DEF P1, P2, w1, w2

(* The first timer becomes the last task.                                  *)
LEMMA FireTrace ==
  ASSUME NEW ts, NEW ms, Queues(ts, ms), NEW ts2, NEW ms2, Queues(ts2, ms2), Follows(ms, ms2),
         DOMAIN ts2 = 1 .. Len(ts) + 1, \A i \in 1 .. Len(ts) : ts2[i] = ts[i],
         ts2[Len(ts) + 1] = Resend(ms[1].retries)
  PROVE  \E from :
           Traced(from, Places(ts2, ms2), Worth(ts2, ms2), Places(ts, ms), Worth(ts, ms))
<1>. DEFINE P1 == Places(ts, ms)
            P2 == Places(ts2, ms2)
            w1 == Worth(ts, ms)
            w2 == Worth(ts2, ms2)
            from == [x \in P2 |-> IF x = Len(ts) + 1 THEN 0 - 1 ELSE IF x > 0 THEN x ELSE x - 1]
<1>1. /\ DOMAIN ms2 = 1 .. Len(ms) - 1 /\ Len(ms) \in Nat \ {0}
      /\ \A i \in 1 .. Len(ms) - 1 : ms2[i] = ms[i + 1]
  BY DEF Follows
<1>2. /\ Len(ts) \in Nat
      /\ \A x \in 1 .. Len(ts) : ts[x].kind # "rrep" => x \in P1 /\ w1[x] = TaskWorth(ts[x])
      /\ \A j \in 1 .. Len(ms) : 0 - j \in P1 /\ w1[0 - j] = ms[j].retries
      /\ w1 \in Worths(P1)
  BY PlacesAre
<1>3. /\ DOMAIN ms2 = 1 .. Len(ms2) /\ DOMAIN ts2 = 1 .. Len(ts2)
      /\ \A x \in P2 :
           \/ x \in 1 .. Len(ts2) /\ ts2[x].kind # "rrep" /\ w2[x] = TaskWorth(ts2[x])
           \/ 0 - x \in 1 .. Len(ms2) /\ x \in Int /\ w2[x] = ms2[0 - x].retries
      /\ w2 \in Worths(P2)
  BY PlacesAre
<1>. HIDE DEF P1, P2, w1, w2
<1>4. ASSUME NEW x \in P2
      PROVE  /\ x \in Int /\ x # 0 /\ from[x] \in P1 /\ w2[x] = w1[from[x]]
             /\ from[x] = IF x = Len(ts) + 1 THEN 0 - 1 ELSE IF x > 0 THEN x ELSE x - 1
             /\ x <= Len(ts) + 1
  <2>1. CASE x \in 1 .. Len(ts2) /\ ts2[x].kind # "rrep" /\ w2[x] = TaskWorth(ts2[x])
    <3>1. x \in 1 .. Len(ts) + 1
      BY <1>3, <2>1
    <3>2. CASE x = Len(ts) + 1
      <4>1. w2[x] = ms[1].retries
        BY <2>1, <3>2 DEF TaskWorth, Resend
      <4>2. 0 - 1 \in P1 /\ w1[0 - 1] = ms[1].retries
        BY <1>1, <1>2
      <4>. QED
        BY <1>2, <3>1, <3>2, <4>1, <4>2
    <3>3. CASE x \in 1 .. Len(ts)
      <4>1. x \in P1 /\ w1[x] = w2[x]
        BY <1>2, <2>1, <3>3
      <4>. QED
        BY <1>2, <3>3, <4>1
    <3>. QED
      BY <1>2, <3>1, <3>2, <3>3
  <2>2. CASE 0 - x \in 1 .. Len(ms2) /\ x \in Int /\ w2[x] = ms2[0 - x].retries
    <3>. DEFINE j == 0 - x
    <3>1. x < 0 /\ j \in 1 .. Len(ms2) /\ 0 - (j + 1) = x - 1
      BY <2>2
    <3>2. from[x] = x - 1
      BY <1>2, <2>2, <3>1
    <3>. HIDE DEF j
    <3>3. j \in 1 .. Len(ms) - 1 /\ j + 1 \in 1 .. Len(ms) /\ ms2[j] = ms[j + 1]
      BY <1>1, <1>3, <3>1
    <3>4. x - 1 \in P1 /\ w1[x - 1] = ms[j + 1].retries
      BY <1>2, <3>1, <3>3
    <3>. QED
      BY <1>2, <2>2, <3>1, <3>2, <3>3, <3>4 DEF j
  <2>. QED
    BY <1>3, <2>1, <2>2
<1>5. from \in [P2 -> P1]
  <2>1. \A x \in P2 : from[x] \in P1
    BY <1>4
  <2>. QED
    BY <2>1
<1>. HIDE DEF from
<1>6. ASSUME NEW x \in P2, NEW y \in P2, from[x] = from[y]
      PROVE  x = y
  <2>1. x \in Int /\ y \in Int /\ x # 0 /\ y # 0 /\ x <= Len(ts) + 1 /\ y <= Len(ts) + 1
    BY <1>4
  <2>2. /\ x = Len(ts) + 1 => from[x] = 0 - 1
        /\ x > 0 /\ x # Len(ts) + 1 => from[x] = x
        /\ x < 0 => from[x] = x - 1
        /\ y = Len(ts) + 1 => from[y] = 0 - 1
        /\ y > 0 /\ y # Len(ts) + 1 => from[y] = y
        /\ y < 0 => from[y] = y - 1
    BY <1>2, <1>4
  <2>. QED
    BY <1>2, <1>6, <2>1, <2>2
<1>7. \A x \in P2 : w2[x] <= w1[from[x]]
  <2>1. \A y \in P2 : w2[y] \in Int
    BY <1>3 DEF Worths
  <2>. QED
    BY <1>4, <2>1
<1>8. Traced(from, P2, w2, P1, w1)
  BY <1>5, <1>6, <1>7 DEF Traced
<1>. QED
  BY <1>8 DEF P1, P2, w1, w2

(* A new task in front of all; its place is nobody's yet.                  *)
LEMMA AskTrace ==
  ASSUME NEW ts, NEW ms, Queues(ts, ms), NEW ts2, Queues(ts2, ms),
         DOMAIN ts2 = 1 .. Len(ts) + 1, ts2[1] = Gen, \A i \in 1 .. Len(ts) : ts2[i + 1] = ts[i]
  PROVE  /\ 1 \in Places(ts2, ms)
         /\ \E from : Traced(from, Places(ts2, ms) \ {1}, Worth(ts2, ms),
                             Places(ts, ms), Worth(ts, ms))
<1>. DEFINE P1 == Places(ts, ms)
            P2 == Places(ts2, ms)
            w1 == Worth(ts, ms)
            w2 == Worth(ts2, ms)
            from == [x \in P2 \ {1} |-> IF x > 0 THEN x - 1 ELSE x]
<1>2. /\ Len(ts) \in Nat
      /\ \A x \in 1 .. Len(ts) : ts[x].kind # "rrep" => x \in P1 /\ w1[x] = TaskWorth(ts[x])
      /\ \A j \in 1 .. Len(ms) : 0 - j \in P1 /\ w1[0 - j] = ms[j].retries
      /\ w1 \in Worths(P1)
  BY PlacesAre
<1>3. /\ DOMAIN ms = 1 .. Len(ms) /\ DOMAIN ts2 = 1 .. Len(ts2)
      /\ \A x \in P2 :
           \/ x \in 1 .. Len(ts2) /\ ts2[x].kind # "rrep" /\ w2[x] = TaskWorth(ts2[x])
           \/ 0 - x \in 1 .. Len(ms) /\ x \in Int /\ w2[x] = ms[0 - x].retries
      /\ \A x \in 1 .. Len(ts2) : ts2[x].kind # "rrep" => x \in P2
      /\ w2 \in Worths(P2)
  BY PlacesAre
<1>1. 1 \in P2
  BY <1>2, <1>3 DEF Gen
<1>. HIDE DEF P1, P2, w1, w2
<1>4. ASSUME NEW x \in P2 \ {1}
      PROVE  /\ x \in Int /\ x # 0 /\ x # 1 /\ from[x] \in P1 /\ w2[x] = w1[from[x]]
             /\ from[x] = IF x > 0 THEN x - 1 ELSE x
  <2>1. CASE x \in 1 .. Len(ts2) /\ ts2[x].kind # "rrep" /\ w2[x] = TaskWorth(ts2[x])
    <3>. DEFINE i == x - 1
    <3>1. i \in 1 .. Len(ts) /\ i + 1 = x
      BY <1>2, <1>3, <2>1
    <3>2. from[x] = i
      BY <1>2, <3>1
    <3>. HIDE DEF i
    <3>3. ts2[x] = ts[i]
      BY <3>1
    <3>4. i \in P1 /\ w1[i] = w2[x]
      BY <1>2, <2>1, <3>1, <3>3
    <3>. QED
      BY <1>2, <3>1, <3>2, <3>4 DEF i
  <2>2. CASE 0 - x \in 1 .. Len(ms) /\ x \in Int /\ w2[x] = ms[0 - x].retries
    <3>1. x < 0 /\ 0 - (0 - x) = x
      BY <2>2
    <3>2. from[x] = x
      BY <2>2, <3>1
    <3>3. x \in P1 /\ w1[x] = ms[0 - x].retries
      BY <1>2, <2>2, <3>1
    <3>. QED
      BY <2>2, <3>1, <3>2, <3>3
  <2>. QED
    BY <1>3, <2>1, <2>2
<1>5. from \in [P2 \ {1} -> P1]
  <2>1. \A x \in P2 \ {1} : from[x] \in P1
    BY <1>4
  <2>. QED
    BY <2>1
<1>. HIDE DEF from
<1>6. ASSUME NEW x \in P2 \ {1}, NEW y \in P2 \ {1}, from[x] = from[y]
      PROVE  x = y
  <2>1. x \in Int /\ y \in Int /\ x # 0 /\ y # 0 /\ x # 1 /\ y # 1
    BY <1>4
  <2>2. /\ x > 0 => from[x] = x - 1
        /\ x < 0 => from[x] = x
        /\ y > 0 => from[y] = y - 1
        /\ y < 0 => from[y] = y
    BY <1>4
  <2>. QED
    BY <1>6, <2>1, <2>2
<1>7. \A x \in P2 \ {1} : w2[x] <= w1[from[x]]
  <2>1. \A y \in P2 : w2[y] \in Int
    BY <1>3 DEF Worths
  <2>. QED
    BY <1>4, <2>1
<1>8. Traced(from, P2 \ {1}, w2, P1, w1)
  BY <1>5, <1>6, <1>7 DEF Traced
<1>. QED
  BY <1>1, <1>8 DEF P1, P2, w1, w2
-----------------------------------------------------------------------------
(* The books are kept.                                                     *)

LEMMA TakenFollows ==
  ASSUME TypeInv, NEW k, Take(k)
  PROVE  Follows(tasks, tasks')
<1>1. tasks \in Seq(Tasks) /\ tasks # <<>> /\ tasks' = Tail(tasks)
  BY TypeParts DEF Take, TypeInv
<1>. QED
  BY <1>1, Shifted DEF Follows

LEMMA ReleasedAsked ==
  ASSUME TypeOK, NEW v, v # "new", Release(v)
  PROVE  Asked \subseteq Asked'
  BY DEF Release, Asked

LEMMA BooksSame ==
  ASSUME TypeInv, TypeInv', BooksInv, UNCHANGED rreqs, Asked \subseteq Asked',
         Places(tasks', timers') = Places(tasks, timers),
         Worth(tasks', timers') = Worth(tasks, timers)
  PROVE  BooksInv'
<1>. DEFINE P == Places(tasks, timers)
            w == Worth(tasks, timers)
            from == [x \in P |-> x]
<1>1. w \in Worths(P)
  BY QueuesAre, PlacesAre
<1>2. Traced(from, P, w, P, w)
  <2>1. \A x \in P : w[x] \in Int
    BY <1>1 DEF Worths
  <2>. HIDE DEF P, w
  <2>. QED
    BY <2>1 DEF Traced
<1>3. Ledger(P, w, Asked', rreqs)
  <2>1. Ledger(P, w, Asked, rreqs)
    BY DEF BooksInv
  <2>. HIDE DEF P, w, from
  <2>. QED
    BY <1>1, <1>2, <2>1, LedgerKept
<1>. QED
  BY <1>3 DEF BooksInv

LEMMA BooksTraced ==
  ASSUME TypeInv, TypeInv', BooksInv, UNCHANGED rreqs, Asked \subseteq Asked',
         NEW from, Traced(from, Places(tasks', timers'), Worth(tasks', timers'),
                          Places(tasks, timers), Worth(tasks, timers))
  PROVE  BooksInv'
<1>1. /\ Worth(tasks, timers) \in Worths(Places(tasks, timers))
      /\ Worth(tasks', timers') \in Worths(Places(tasks', timers'))
  BY QueuesAre, QueuesAreNext, PlacesAre
<1>2. Ledger(Places(tasks, timers), Worth(tasks, timers), Asked, rreqs)
  BY DEF BooksInv
<1>3. Ledger(Places(tasks', timers'), Worth(tasks', timers'), Asked', rreqs)
  BY <1>1, <1>2, LedgerKept
<1>. QED
  BY <1>3 DEF BooksInv

LEMMA BooksSpend ==
  ASSUME TypeInv, TypeInv', BooksInv, UNCHANGED fate, rreqs' = rreqs + 1,
         NEW k, k # "rrep", Take(k), NEW r \in 0 .. Retries, r = TaskWorth(tasks[1]) - 1, Arm(r)
  PROVE  BooksInv'
<1>1. Queues(tasks, timers) /\ Queues(tasks', timers')
  BY QueuesAre, QueuesAreNext
<1>2. /\ Worth(tasks, timers) \in Worths(Places(tasks, timers))
      /\ Worth(tasks', timers') \in Worths(Places(tasks', timers'))
  BY <1>1, PlacesAre
<1>3. Follows(tasks, tasks') /\ tasks[1].kind # "rrep"
  BY TakenFollows, TakenType
<1>4. PICK at : Placed(timers, timers', at, NewTimer(r))
  BY Armed
<1>5. NewTimer(r).retries = TaskWorth(tasks[1]) - 1
  BY DEF NewTimer
<1>6. PICK from, x0 :
        /\ Traced(from, Places(tasks', timers'), Worth(tasks', timers'),
                  Places(tasks, timers), Worth(tasks, timers))
        /\ x0 \in Places(tasks', timers')
        /\ Worth(tasks', timers')[x0] < Worth(tasks, timers)[from[x0]]
  BY <1>1, <1>3, <1>4, <1>5, SpendTrace
<1>7. Ledger(Places(tasks, timers), Worth(tasks, timers), Asked, rreqs)
  BY DEF BooksInv
<1>8. rreqs \in Nat
  BY TypeParts DEF TypeInv
<1>9. Ledger(Places(tasks', timers'), Worth(tasks', timers'), Asked, rreqs + 1)
  BY <1>2, <1>6, <1>7, <1>8, AskedFinite, LedgerSpends
<1>10. Asked' = Asked
  BY DEF Asked
<1>. QED
  BY <1>9, <1>10 DEF BooksInv

LEMMA NextBooks ==
  ASSUME TypeInv, TypeInv', BooksInv, [Next]_vars
  PROVE  BooksInv'
<1>1. /\ fate \in [Packet -> Fates] /\ tasks \in Seq(Tasks) /\ timers \in Seq(Timers)
      /\ Retries \in Nat /\ air \subseteq Nat
  BY TypeParts, HoldAssumption DEF TypeInv
<1>2. Queues(tasks, timers) /\ Queues(tasks', timers')
  BY QueuesAre, QueuesAreNext
<1>3. ASSUME UNCHANGED <<tasks, timers, rreqs>>, Asked \subseteq Asked'
      PROVE  BooksInv'
  BY <1>3, BooksSame
<1>4. CASE \E p \in Packet : Accept(p)
  <2>1. PICK p \in Packet : Accept(p)
    BY <1>4
  <2>2. Asked \subseteq Asked'
    BY <1>1, <2>1 DEF Accept, Asked
  <2>. QED
    BY <1>3, <2>1, <2>2 DEF Accept
<1>5. CASE \E p \in Packet : Ask(p)
  <2>1. PICK p \in Packet : Ask(p)
    BY <1>5
  <2>2. Gen \in Tasks
    BY DEF Gen, Tasks
  <2>3. /\ DOMAIN tasks' = 1 .. Len(tasks) + 1 /\ tasks'[1] = Gen
        /\ \A i \in 1 .. Len(tasks) : tasks'[i + 1] = tasks[i]
    BY <1>1, <2>1, <2>2, Prepended DEF Ask
  <2>4. timers' = timers /\ rreqs' = rreqs
    BY <2>1 DEF Ask
  <2>5. Queues(tasks', timers)
    BY <1>2, <2>4
  <2>6. /\ 1 \in Places(tasks', timers)
        /\ \E from : Traced(from, Places(tasks', timers) \ {1}, Worth(tasks', timers),
                            Places(tasks, timers), Worth(tasks, timers))
    BY <1>2, <2>3, <2>5, AskTrace
  <2>7. /\ Worth(tasks, timers) \in Worths(Places(tasks, timers))
        /\ Worth(tasks', timers) \in Worths(Places(tasks', timers))
    BY <1>2, <2>5, PlacesAre
  <2>8. Asked' = Asked \cup {p} /\ p \notin Asked
    BY <1>1, <2>1 DEF Ask, Asked
  <2>9. Ledger(Places(tasks, timers), Worth(tasks, timers), Asked, rreqs)
    BY DEF BooksInv
  <2>10. Ledger(Places(tasks', timers), Worth(tasks', timers), Asked \cup {p}, rreqs)
    BY <2>6, <2>7, <2>8, <2>9, LedgerAsks
  <2>. QED
    BY <2>4, <2>8, <2>10 DEF BooksInv
<1>6. CASE \E p \in Packet : Enqueue(p)
  <2>1. PICK p \in Packet : Enqueue(p)
    BY <1>6
  <2>2. Asked \subseteq Asked'
    BY <1>1, <2>1 DEF Enqueue, Asked
  <2>. QED
    BY <1>3, <2>1, <2>2 DEF Enqueue
<1>7. CASE Tick
  <2>1. /\ UNCHANGED <<tasks, rreqs, fate>>
        /\ timers' = [i \in 1 .. Len(timers) |-> [timers[i] EXCEPT !.left = @ - 1]]
    BY <1>7 DEF Tick
  <2>2. DOMAIN timers = 1 .. Len(timers) /\ \A i \in DOMAIN timers : timers[i] \in Timers
    BY <1>1, SeqPlaces
  <2>3. /\ DOMAIN timers' = DOMAIN timers
        /\ \A i \in DOMAIN timers : timers'[i].retries = timers[i].retries
    BY <2>1, <2>2 DEF Timers
  <2>4. Places(tasks', timers') = Places(tasks, timers)
    BY <2>1, <2>3 DEF Places
  <2>5. ASSUME NEW x \in Places(tasks, timers)
        PROVE  Worth(tasks', timers')[x] = Worth(tasks, timers)[x]
    <3>1. /\ Worth(tasks, timers)[x] = IF x > 0 THEN TaskWorth(tasks[x]) ELSE timers[0 - x].retries
          /\ Worth(tasks', timers')[x] =
               IF x > 0 THEN TaskWorth(tasks'[x]) ELSE timers'[0 - x].retries
      BY <2>4 DEF Worth
    <3>2. x > 0 \/ 0 - x \in DOMAIN timers
      BY <1>2, <2>2, PlacesAre
    <3>. QED
      BY <2>1, <2>3, <3>1, <3>2
  <2>6. Worth(tasks', timers') = Worth(tasks, timers)
    BY <2>4, <2>5 DEF Worth
  <2>7. Asked \subseteq Asked'
    BY <2>1 DEF Asked
  <2>. QED
    BY <2>1, <2>4, <2>6, <2>7, BooksSame
<1>8. CASE Fire
  <2>1. /\ timers' = Tail(timers) /\ timers # <<>> /\ UNCHANGED <<rreqs, fate>>
        /\ tasks' = Append(tasks, Resend(Head(timers).retries))
    BY <1>8 DEF Fire
  <2>2. Follows(timers, timers') /\ Head(timers) = timers[1] /\ 1 \in 1 .. Len(timers)
    BY <1>1, <2>1, Shifted DEF Follows
  <2>3. Resend(Head(timers).retries) \in Tasks
    <3>1. timers[1] \in Timers
      BY <1>1, <2>2, SeqPlaces
    <3>. QED
      BY <1>1, <2>2, <3>1 DEF Resend, Tasks, Timers
  <2>4. /\ DOMAIN tasks' = 1 .. Len(tasks) + 1
        /\ tasks'[Len(tasks) + 1] = Resend(Head(timers).retries)
        /\ \A i \in 1 .. Len(tasks) : tasks'[i] = tasks[i]
    BY <1>1, <2>1, <2>3, Appended
  <2>5. tasks'[Len(tasks) + 1] = Resend(timers[1].retries)
    BY <2>2, <2>4
  <2>6. PICK from : Traced(from, Places(tasks', timers'), Worth(tasks', timers'),
                           Places(tasks, timers), Worth(tasks, timers))
    BY <1>2, <2>2, <2>4, <2>5, FireTrace
  <2>7. Asked \subseteq Asked'
    BY <2>1 DEF Asked
  <2>. QED
    BY <2>1, <2>6, <2>7, BooksTraced
<1>9. CASE GenRreq
  <2>1. Take("gen") /\ Arm(Retries) /\ rreqs' = rreqs + 1 /\ UNCHANGED fate
    BY <1>9 DEF GenRreq
  <2>2. Retries \in 0 .. Retries
    BY <1>1
  <2>3. Retries = TaskWorth(tasks[1]) - 1
    BY <1>1, <2>1, TakenType DEF TaskWorth
  <2>. QED
    BY <2>1, <2>2, <2>3, BooksSpend
<1>10. CASE ResendRreq
  <2>1. Take("resend")
    BY <1>10 DEF ResendRreq
  <2>2. /\ tasks[1] \in Tasks /\ tasks[1].kind = "resend" /\ tasks[1].arg <= Retries
        /\ Head(tasks) = tasks[1]
    BY <2>1, TakenType
  <2>3. CASE Head(tasks).arg = 0
    <3>1. Release("dropped") /\ timers' = timers /\ rreqs' = rreqs
      BY <1>10, <2>3 DEF ResendRreq
    <3>2. Asked \subseteq Asked'
      BY <3>1, ReleasedAsked DEF TypeInv
    <3>3. PICK from : Traced(from, Places(tasks', timers'), Worth(tasks', timers'),
                             Places(tasks, timers), Worth(tasks, timers))
      BY <1>2, <2>1, <3>1, TakenFollows, DropTrace
    <3>. QED
      BY <3>1, <3>2, <3>3, BooksTraced
  <2>4. CASE Head(tasks).arg > 0
    <3>1. Arm(Head(tasks).arg - 1) /\ rreqs' = rreqs + 1 /\ UNCHANGED fate
      BY <1>10, <2>4 DEF ResendRreq
    <3>2. Head(tasks).arg - 1 \in 0 .. Retries
      BY <1>1, <2>2, <2>4 DEF Tasks
    <3>3. Head(tasks).arg - 1 = TaskWorth(tasks[1]) - 1
      BY <2>2 DEF TaskWorth
    <3>. QED
      BY <2>1, <3>1, <3>2, <3>3, BooksSpend
  <2>. QED
    BY <2>2, <2>3, <2>4 DEF Tasks
<1>11. CASE RecvRrep
  <2>1. Take("rrep") /\ Disarm /\ rreqs' = rreqs
    BY <1>11 DEF RecvRrep
  <2>2. timers' = timers \/ Follows(timers, timers')
    <3>1. CASE timers = <<>>
      BY <2>1, <3>1 DEF Disarm
    <3>2. CASE timers # <<>>
      BY <1>1, <2>1, <3>2, Shifted DEF Disarm, Follows
    <3>. QED
      BY <3>1, <3>2
  <2>3. Asked \subseteq Asked'
    <3>1. CASE Release("sent")
      BY <3>1, ReleasedAsked DEF TypeInv
    <3>2. CASE UNCHANGED <<fate, held>>
      BY <3>2 DEF Asked
    <3>. QED
      BY <1>11, <3>1, <3>2 DEF RecvRrep
  <2>4. PICK from : Traced(from, Places(tasks', timers'), Worth(tasks', timers'),
                           Places(tasks, timers), Worth(tasks, timers))
    BY <1>2, <2>1, <2>2, TakenFollows, DropTrace
  <2>. QED
    BY <2>1, <2>3, <2>4, BooksTraced
<1>12. CASE Invalidate
  BY <1>3, <1>12 DEF Invalidate, Asked
<1>13. CASE Remove
  BY <1>3, <1>13 DEF Remove, Asked
<1>14. CASE Destroy
  <2>1. Asked \subseteq Asked'
    BY <1>14, ReleasedAsked DEF Destroy, TypeInv
  <2>. QED
    BY <1>3, <1>14, <2>1 DEF Destroy
<1>15. CASE Answer
  BY <1>3, <1>15 DEF Answer, Asked
<1>16. CASE \E id \in air : Arrive(id)
  <2>1. PICK id \in air : Arrive(id)
    BY <1>16
  <2>2. /\ tasks' = Append(tasks, Reply(id)) /\ UNCHANGED <<timers, rreqs, fate>>
    BY <2>1 DEF Arrive
  <2>3. Reply(id) \in Tasks /\ Reply(id).kind = "rrep"
    BY <1>1 DEF Reply, Tasks
  <2>4. /\ DOMAIN tasks' = 1 .. Len(tasks) + 1 /\ tasks'[Len(tasks) + 1].kind = "rrep"
        /\ \A i \in 1 .. Len(tasks) : tasks'[i] = tasks[i]
    BY <1>1, <2>2, <2>3, Appended
  <2>5. DOMAIN tasks = 1 .. Len(tasks) /\ Len(tasks) \in Nat /\ DOMAIN timers = 1 .. Len(timers)
    BY <1>1, SeqPlaces
  <2>6. Places(tasks', timers') = Places(tasks, timers)
    <3>1. \A i : i \in DOMAIN tasks' /\ tasks'[i].kind # "rrep"
                   <=> i \in DOMAIN tasks /\ tasks[i].kind # "rrep"
      BY <2>4, <2>5
    <3>. QED
      BY <2>2, <3>1 DEF Places
  <2>7. ASSUME NEW x \in Places(tasks, timers)
        PROVE  Worth(tasks', timers')[x] = Worth(tasks, timers)[x]
    <3>1. /\ Worth(tasks, timers)[x] = IF x > 0 THEN TaskWorth(tasks[x]) ELSE timers[0 - x].retries
          /\ Worth(tasks', timers')[x] =
               IF x > 0 THEN TaskWorth(tasks'[x]) ELSE timers'[0 - x].retries
      BY <2>6 DEF Worth
    <3>2. x \in 1 .. Len(tasks) \/ ~ (x > 0)
      <4>1. x \in 1 .. Len(tasks) \/ (0 - x \in 1 .. Len(timers) /\ x \in Int)
        BY <1>2, PlacesAre
      <4>. QED
        BY <4>1
    <3>. QED
      BY <2>2, <2>4, <3>1, <3>2
  <2>8. Worth(tasks', timers') = Worth(tasks, timers)
    BY <2>6, <2>7 DEF Worth
  <2>9. Asked \subseteq Asked'
    BY <2>2 DEF Asked
  <2>. QED
    BY <2>2, <2>6, <2>8, <2>9, BooksSame
<1>17. CASE UNCHANGED vars
  BY <1>3, <1>17 DEF vars, Asked
<1>. QED
  BY <1>4, <1>5, <1>6, <1>7, <1>8, <1>9, <1>10, <1>11, <1>12, <1>13, <1>14, <1>15, <1>16, <1>17
     DEF Next, Thread

LEMMA InitBooks ==
  Init => BooksInv
<1>. SUFFICES ASSUME Init PROVE BooksInv
  OBVIOUS
<1>1. Places(tasks, timers) = {} /\ Asked = {} /\ rreqs = 0
  BY DEF Init, Places, Asked
<1>. DEFINE none == [x \in {} |-> 0]
<1>2. /\ {} \in SUBSET (Asked \X (0 .. Retries)) /\ none \in [Places(tasks, timers) -> Asked]
      /\ Cardinality({}) = rreqs
  BY <1>1, FS_EmptySet
<1>. QED
  BY <1>1, <1>2 DEF BooksInv, Ledger

(* A packet costs at most one RREQ and RREQ_RETRIES repetitions, whatever  *)
(* is cancelled, answered late or asked for twice (rreq.c:147-316).        *)
THEOREM HoldFloods == Spec => []FloodsBounded
<1>1. Init => FloodInv
  BY TypeParts, InitBooks DEF Init, TypeInv, ResendsOK, InTime, NoRoute, Routes, Fates, FloodInv
<1>2. FloodInv /\ [Next]_vars => FloodInv'
  BY NextType, NextBooks DEF FloodInv
<1>3. FloodInv => FloodsBounded
  <2>1. Ledger(Places(tasks, timers), Worth(tasks, timers), Asked, rreqs)
          => rreqs <= (Retries + 1) * Cardinality(Asked)
    BY AskedFinite, LedgerBounds
  <2>. QED
    BY <2>1 DEF FloodInv, BooksInv, FloodsBounded, Asked
<1>. QED
  BY <1>1, <1>2, <1>3, PTL DEF Spec
=============================================================================
