------------------------- MODULE NeighborLifeProofs -------------------------
(***************************************************************************)
(* Safety of NeighborLife for every lifetime and every bound.              *)
(***************************************************************************)
EXTENDS NeighborLife, SequenceTheorems, TLAPS

Task == {"hello", "message", "expire"}

(* What Take, Append and PutOff do to the sequences.                       *)

LEMMA TailKeeps ==
  ASSUME NEW S, NEW s \in Seq(S), s # <<>>, NEW x, x \in Members(s), x # Head(s)
  PROVE  x \in Members(Tail(s))
<1>1. PICK i \in 1 .. Len(s) : s[i] = x
  BY DEF Members
<1>2. i # 1 /\ i - 1 \in 1 .. Len(Tail(s)) /\ Tail(s)[i - 1] = x
  BY <1>1
<1>. QED
  BY <1>2 DEF Members

LEMMA AppendAdds ==
  ASSUME NEW S, NEW s \in Seq(S), NEW x \in S
  PROVE  /\ Append(s, x) \in Seq(S)
         /\ Members(Append(s, x)) = Members(s) \cup {x}
<1>1. Len(Append(s, x)) = Len(s) + 1 /\ Append(s, x)[Len(s) + 1] = x
  OBVIOUS
<1>2. \A i \in 1 .. Len(s) : Append(s, x)[i] = s[i]
  OBVIOUS
<1>3. 1 .. Len(s) + 1 = (1 .. Len(s)) \cup {Len(s) + 1}
  OBVIOUS
<1>. QED
  BY <1>1, <1>2, <1>3 DEF Members

LEMMA TailIsSeq ==
  ASSUME NEW S, NEW s \in Seq(S), s # <<>>
  PROVE  Tail(s) \in Seq(S) /\ Len(Tail(s)) = Len(s) - 1
  OBVIOUS

LEMMA NoneOrOne ==
  ASSUME NEW S, NEW s \in Seq(S), Len(s) <= 1
  PROVE  Len(s) \in {0, 1} /\ (s # <<>> => Len(s) = 1)
<1>1. Len(s) \in Nat
  BY LenProperties
<1>2. s # <<>> => Len(s) # 0
  BY EmptySeq
<1>3. \A n \in Nat : n <= 1 => n \in {0, 1}
  OBVIOUS
<1>4. Len(s) \in {0, 1}
  BY <1>1, <1>3, Zenon
<1>. QED
  BY <1>2, <1>4, Zenon

LEMMA PutOffKeepsOne ==
  ASSUME TypeOK, Len(timers) <= 1, PutOff
  PROVE  timers' \in Seq(0 .. Life) /\ Len(timers') = 1 /\ timers' # <<>>
<1>. DEFINE rest == IF timers = <<>> THEN <<>> ELSE Tail(timers)
<1>1. Life \in 0 .. Life
  BY LifeAssumption
<1>2. rest \in Seq(0 .. Life) /\ Len(rest) = 0
  <2>1. CASE timers = <<>>
    BY <2>1, EmptySeq
  <2>2. CASE timers # <<>>
    <3>1. timers \in Seq(0 .. Life)
      BY DEF TypeOK
    <3>2. Len(timers) = 1
      BY <2>2, <3>1, NoneOrOne
    <3>3. Tail(timers) \in Seq(0 .. Life) /\ Len(Tail(timers)) = 0
      BY <2>2, <3>1, <3>2, TailIsSeq
    <3>. QED
      BY <2>2, <3>3
  <2>. QED
    BY <2>1, <2>2
<1>3. timers' = Append(rest, Life)
  BY DEF PutOff
<1>. QED
  BY <1>1, <1>2, <1>3
-----------------------------------------------------------------------------
Inv == TypeOK /\ OneWatch

LEMMA InvInit == Init => Inv
<1>. SUFFICES ASSUME Init PROVE TypeOK /\ OneWatch
  BY DEF Inv
<1>1. tasks \in Seq(Task) /\ timers \in Seq(0 .. Life) /\ Len(timers) = 0
  BY EmptySeq DEF Init
<1>2. entries \in 0 .. MaxEntries
  BY LifeAssumption DEF Init
<1>3. near \in BOOLEAN /\ said \in BOOLEAN /\ neigh \in BOOLEAN /\ ~ neigh
  BY Zenon DEF Init
<1>4. TypeOK
  BY <1>1, <1>2, <1>3, Zenon DEF TypeOK, Task
<1>. QED
  BY <1>1, <1>3, <1>4 DEF OneWatch

LEMMA InvStep == Inv /\ [Next]_vars => Inv'
<1>. SUFFICES ASSUME TypeOK, OneWatch, [Next]_vars
              PROVE  TypeOK' /\ OneWatch'
  BY DEF Inv
<1>0. /\ tasks \in Seq(Task) /\ timers \in Seq(0 .. Life) /\ Len(timers) <= 1
      /\ neigh => timers # <<>> \/ "expire" \in Members(tasks)
  BY DEF TypeOK, OneWatch, Task
<1>1. CASE Move
  BY <1>1 DEF Move, TypeOK, OneWatch, Members
<1>2. CASE Hello
  <2>1. tasks' \in Seq(Task) /\ Members(tasks) \subseteq Members(tasks')
    <3>1. CASE UNCHANGED tasks
      BY <3>1, <1>0 DEF Members
    <3>2. CASE tasks' = Append(tasks, "hello")
      BY <3>2, <1>0, AppendAdds DEF Task
    <3>. QED
      BY <1>2, <3>1, <3>2 DEF Hello
  <2>. QED
    BY <1>2, <1>0, <2>1 DEF Hello, TypeOK, OneWatch, Task
<1>3. CASE Message
  <2>1. tasks' \in Seq(Task) /\ Members(tasks) \subseteq Members(tasks')
    BY <1>3, <1>0, AppendAdds DEF Message, Task
  <2>. QED
    BY <1>3, <1>0, <2>1 DEF Message, TypeOK, OneWatch, Task
<1>4. CASE Tick
  <2>1. \A i \in 1 .. Len(timers) : i = 1 /\ timers[i] \in 0 .. Life
    <3>1. Len(timers) \in {0, 1}
      BY <1>0, NoneOrOne
    <3>2. \A i \in 1 .. Len(timers) : timers[i] \in 0 .. Life
      BY <1>0, ElementOfSeq
    <3>. QED
      BY <3>1, <3>2
  <2>2. \A i \in 1 .. Len(timers) : timers[i] - 1 \in 0 .. Life
    BY <1>4, <1>0, <2>1, LifeAssumption DEF Tick, Overdue
  <2>3. timers' \in Seq(0 .. Life) /\ Len(timers') = Len(timers)
    BY <1>4, <1>0, <2>2 DEF Tick
  <2>4. timers # <<>> => timers' # <<>>
    BY <1>0, <2>3
  <2>5. tasks' = tasks /\ neigh' = neigh
    BY <1>4 DEF Tick
  <2>6. TypeOK'
    BY <1>4, <2>3 DEF Tick, TypeOK
  <2>. QED
    BY <1>0, <2>3, <2>4, <2>5, <2>6 DEF OneWatch, Members
<1>5. CASE Fire
  <2>1. tasks' \in Seq(Task) /\ "expire" \in Members(tasks')
    BY <1>5, <1>0, AppendAdds DEF Fire, Task
  <2>2. timers' \in Seq(0 .. Life) /\ Len(timers') <= 1
    BY <1>5, <1>0, TailIsSeq DEF Fire, Overdue
  <2>. QED
    BY <1>5, <2>1, <2>2 DEF Fire, TypeOK, OneWatch, Task
<1>6. ASSUME NEW k \in Task, Take(k)
      PROVE  /\ tasks' \in Seq(Task)
             /\ k # "expire" /\ "expire" \in Members(tasks)
                  => "expire" \in Members(tasks')
  BY <1>6, <1>0, TailIsSeq, TailKeeps DEF Take
<1>7. CASE RecvHello
  <2>1. tasks' \in Seq(Task)
    BY <1>7, <1>6 DEF RecvHello, Task
  <2>2. timers' \in Seq(0 .. Life) /\ Len(timers') = 1 /\ timers' # <<>>
    BY <1>7, <1>0, PutOffKeepsOne DEF RecvHello
  <2>3. neigh' \in BOOLEAN
    BY <1>7 DEF RecvHello, TypeOK
  <2>4. entries' \in 0 .. MaxEntries
    BY <1>7, LifeAssumption DEF RecvHello, TypeOK
  <2>5. near' \in BOOLEAN /\ said' \in BOOLEAN
    BY <1>7 DEF RecvHello, Take, TypeOK
  <2>. QED
    BY <2>1, <2>2, <2>3, <2>4, <2>5 DEF TypeOK, OneWatch, Task
<1>8. CASE RecvMessage
  <2>1. /\ tasks' \in Seq(Task)
        /\ "expire" \in Members(tasks) => "expire" \in Members(tasks')
    BY <1>8, <1>6 DEF RecvMessage, Task
  <2>2. CASE neigh /\ PutOff
    <3>1. timers' \in Seq(0 .. Life) /\ Len(timers') = 1 /\ timers' # <<>>
      BY <2>2, <1>0, PutOffKeepsOne
    <3>. QED
      BY <1>8, <2>1, <3>1 DEF RecvMessage, Take, TypeOK, OneWatch, Task
  <2>3. CASE ~ neigh /\ UNCHANGED timers
    BY <1>8, <1>0, <2>1, <2>3 DEF RecvMessage, Take, TypeOK, OneWatch, Task
  <2>. QED
    BY <1>8, <2>2, <2>3 DEF RecvMessage
<1>9. CASE DeleteNeigh
  <2>1. tasks' \in Seq(Task)
    BY <1>9, <1>6 DEF DeleteNeigh, Task
  <2>. QED
    BY <1>9, <1>0, <2>1 DEF DeleteNeigh, Take, TypeOK, OneWatch, Task
<1>10. CASE UNCHANGED vars
  BY <1>10 DEF vars, TypeOK, OneWatch, Members
<1>. QED
  BY <1>1, <1>2, <1>3, <1>4, <1>5, <1>7, <1>8, <1>9, <1>10 DEF Next, Thread

(* The list, the timers and the queued tasks of a neighbour keep their     *)
(* types: in particular no timer is passed over (hello.c, timer_queue.c).  *)
THEOREM NeighborTypes == Spec => []TypeOK
<1>. QED
  BY InvInit, InvStep, PTL DEF Spec, Inv

(* However hellos, other messages and the timer cross in the task queue,   *)
(* a neighbour in the list is watched by exactly one timer, or its end is  *)
(* queued (hello.c:312-315, aodv_neigh.c:77-143).                          *)
THEOREM NeighborWatched == Spec => []OneWatch
<1>. QED
  BY InvInit, InvStep, PTL DEF Spec, Inv
=============================================================================
