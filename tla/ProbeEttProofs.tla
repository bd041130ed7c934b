--------------------------- MODULE ProbeEttProofs ---------------------------
(***************************************************************************)
(* Proofs about ProbeEtt, for every window, set of delays and times of     *)
(* arrival: the vector of delays is never overrun and stays sorted, and a  *)
(* delay that is measured is the time between two probes.                  *)
(***************************************************************************)
EXTENDS ProbeEtt, WellFoundedInduction, TLAPS

-----------------------------------------------------------------------------
(* Arithmetic.                                                             *)

LEMMA LeastNat ==
  ASSUME NEW T, T \subseteq Nat, T # {}
  PROVE  \E x \in T : \A y \in T : x <= y
<1>. DEFINE R == OpToRel(<, Nat)
<1>1. PICK x \in T : \A y \in T : <<y, x>> \notin R
  <2>1. IsWellFoundedOn(R, Nat)
    BY NatLessThanWellFounded
  <2>. HIDE DEF R
  <2>. QED
    BY <2>1, WFMin
<1>2. \A y \in T : ~ (y < x)
  BY <1>1 DEF OpToRel
<1>. QED
  BY <1>2

(* Min is the least element of a set of places in the vector.              *)
LEMMA MinIsLeast ==
  ASSUME NEW T, T \subseteq Nat, T # {}
  PROVE  Min(T) \in T /\ \A y \in T : Min(T) <= y
  BY LeastNat DEF Min
-----------------------------------------------------------------------------
(* The estimation.                                                         *)

Vectors == [1 .. ProbesMax -> Nat]

(* The vector of delays is sorted and holds nothing but what was reported. *)
Fitting(e, count) ==
  /\ \A i, j \in 1 .. ProbesMax : i < j => e.delays[i] <= e.delays[j]
  /\ \A i \in count + 1 .. ProbesMax : e.delays[i] = Default

Etts == [count : Nat, window : Nat, delays : Vectors, reset : BOOLEAN]

EttOK ==
  /\ ett \in Etts
  /\ ett.count < ett.window /\ ett.window <= ProbesMax
  /\ Fitting(ett, ett.count)

(* A vector without reports fits.                                          *)
LEMMA UnknownFits ==
  /\ Unknown \in Vectors
  /\ \A e : e.delays = Unknown => Fitting(e, 0)
  BY EttAssumption DEF EttAssumption, Unknown, Vectors, Fitting

LEMMA StartFits ==
  /\ Start \in Etts /\ Start.count < Start.window /\ Start.window <= ProbesMax
  /\ Fitting(Start, Start.count)
  BY UnknownFits, EttAssumption DEF EttAssumption, Start, Etts

(* delay_vector_add keeps the order and fills one more place at most.      *)
LEMMA AddFits ==
  ASSUME NEW e \in Etts, NEW delay \in Nat,
         e.count < e.window, e.window <= ProbesMax, Fitting(e, e.count)
  PROVE  /\ DelayVectorAdd(e, delay) \in Etts
         /\ DelayVectorAdd(e, delay).count = e.count
         /\ DelayVectorAdd(e, delay).window = e.window
         /\ Fitting(DelayVectorAdd(e, delay), e.count + 1)
<1>. DEFINE greater == {i \in 1 .. e.count + 1 : delay < e.delays[i]}
            at == Min(greater)
<1>1. ProbesMax \in Nat /\ Default \in Nat
  BY EttAssumption DEF EttAssumption
<1>2. e.count \in Nat /\ e.count + 1 <= ProbesMax /\ e.delays \in Vectors
  BY <1>1 DEF Etts
<1>3. CASE greater = {}
  BY <1>1, <1>2, <1>3 DEF DelayVectorAdd, Fitting
<1>4. CASE greater # {}
  <2>1. at \in greater /\ \A i \in greater : at <= i
    BY <1>2, <1>4, MinIsLeast
  <2>. DEFINE new == [i \in 1 .. ProbesMax |->
                        IF i < at \/ i > e.count + 1 THEN e.delays[i]
                        ELSE IF i = at THEN delay ELSE e.delays[i - 1]]
  <2>2. DelayVectorAdd(e, delay) = [e EXCEPT !.delays = new]
    BY <1>2, <1>4 DEF DelayVectorAdd, Etts, Vectors
  <2>3. at \in 1 .. e.count + 1 /\ delay < e.delays[at]
    BY <2>1
  <2>4. \A i \in 1 .. ProbesMax : i < at => e.delays[i] <= delay
    <3>1. \A i \in 1 .. e.count + 1 : i < at => i \notin greater
      BY <2>1, <1>2
    <3>2. ASSUME NEW i \in 1 .. ProbesMax, i < at
          PROVE  e.delays[i] <= delay
      <4>1. i \in 1 .. e.count + 1
        BY <1>1, <1>2, <2>3, <3>2
      <4>2. ~ (delay < e.delays[i])
        BY <3>1, <3>2, <4>1
      <4>3. e.delays[i] \in Nat
        BY <1>2 DEF Vectors
      <4>. QED
        BY <4>2, <4>3
    <3>. QED
      BY <3>2
  <2>. HIDE DEF at
  <2>5. new \in Vectors
    <3>1. ASSUME NEW i \in 1 .. ProbesMax
          PROVE  (IF i < at \/ i > e.count + 1 THEN e.delays[i]
                  ELSE IF i = at THEN delay ELSE e.delays[i - 1]) \in Nat
      <4>1. CASE i < at \/ i > e.count + 1 \/ i = at
        BY <1>2, <4>1 DEF Vectors
      <4>2. CASE ~ (i < at \/ i > e.count + 1 \/ i = at)
        <5>1. i - 1 \in 1 .. ProbesMax
          BY <1>1, <1>2, <2>3, <4>2
        <5>. QED
          BY <1>2, <4>2, <5>1 DEF Vectors
      <4>. QED
        BY <4>1, <4>2
    <3>. QED
      BY <3>1 DEF Vectors
  <2>6. \A i, j \in 1 .. ProbesMax : i < j => new[i] <= new[j]
    <3>. SUFFICES ASSUME NEW i \in 1 .. ProbesMax, NEW j \in 1 .. ProbesMax, i < j
                  PROVE  new[i] <= new[j]
      OBVIOUS
    <3>1. \A k, l \in 1 .. ProbesMax : k < l => e.delays[k] <= e.delays[l]
      BY DEF Fitting
    <3>2. \A k \in 1 .. ProbesMax : e.delays[k] \in Nat
      BY <1>2 DEF Vectors
    <3>3. CASE j < at
      BY <3>1, <3>3, <2>3, <1>1, <1>2
    <3>4. CASE j = at
      BY <3>4, <2>3, <2>4, <1>1, <1>2
    <3>5. CASE at < j /\ j <= e.count + 1
      <4>1. new[j] = e.delays[j - 1] /\ j - 1 \in 1 .. ProbesMax
        BY <3>5, <2>3, <1>1, <1>2
      <4>2. CASE i < at
        BY <4>1, <4>2, <3>1, <3>2, <3>5, <2>3, <1>1, <1>2
      <4>3. CASE i = at
        <5>1. e.delays[at] <= e.delays[j - 1]
          BY <4>1, <3>1, <3>2, <3>5, <2>3, <1>1, <1>2
        <5>. QED
          BY <5>1, <4>1, <4>3, <3>2, <2>3, <1>1, <1>2
      <4>4. CASE at < i
        BY <4>1, <4>4, <3>1, <3>2, <3>5, <2>3, <1>1, <1>2
      <4>. QED
        BY <4>2, <4>3, <4>4, <2>3
    <3>6. CASE e.count + 1 < j
      <4>1. new[j] = Default /\ e.delays[j] = Default
        BY <3>6, <2>3, <1>1, <1>2 DEF Fitting
      <4>2. \A k \in 1 .. ProbesMax : e.delays[k] <= Default
        BY <4>1, <3>1, <3>2, <3>6, <1>1, <1>2 DEF Fitting
      <4>3. delay <= Default
        BY <4>2, <2>3, <3>2, <1>1, <1>2
      <4>. QED
        BY <4>1, <4>2, <4>3, <2>3, <1>1, <1>2
    <3>. QED
      BY <3>3, <3>4, <3>5, <3>6, <2>3, <1>2
  <2>7. \A i \in e.count + 2 .. ProbesMax : new[i] = Default
    BY <2>3, <1>1, <1>2 DEF Fitting
  <2>. HIDE DEF new
  <2>. DEFINE f == DelayVectorAdd(e, delay)
  <2>8. f \in Etts /\ f.count = e.count /\ f.window = e.window /\ f.delays = new
    BY <2>2, <2>5 DEF Etts
  <2>. HIDE DEF f
  <2>9. Fitting(f, e.count + 1)
    BY <2>6, <2>7, <2>8, <1>2 DEF Fitting
  <2>. QED
    BY <2>8, <2>9 DEF f
<1>. QED
  BY <1>3, <1>4

(* compute_estimation leaves room for the next report.                     *)
LEMMA EstimationFits ==
  ASSUME NEW e \in Etts, e.count < e.window, e.window <= ProbesMax,
         Fitting(e, e.count + 1),
         NEW measured, NEW loaded,
         ComputeEstimation(e, measured, loaded)
  PROVE  EttOK'
<1>. DEFINE f == [e EXCEPT !.count = @ + 1]
            delay == ComputeDelay(f)
            full == f.count = f.window
            failed == delay = 0 /\ f.window = ProbesMax
            hopeless == full /\ ((failed /\ f.reset) \/ delay = Default)
<1>1. f \in Etts /\ f.count = e.count + 1 /\ f.window = e.window /\ f.delays = e.delays
  BY DEF Etts
<1>2. \/ hopeless /\ ett' = Start
      \/ ett' = IF ~ full THEN f
                ELSE IF failed THEN Round(TRUE)
                ELSE IF delay = 0 THEN [f EXCEPT !.window = Grown(@)]
                ELSE Round(FALSE)
  BY DEF ComputeEstimation, ResetEtt
<1>. HIDE DEF f, delay
<1>3. Fitting(f, f.count) /\ f.count \in Nat /\ f.window \in Nat
  BY <1>1 DEF Fitting, Etts
<1>4. CASE ett' = Start
  BY <1>4, StartFits DEF EttOK
<1>5. CASE ~ full /\ ett' = f
  BY <1>1, <1>3, <1>5 DEF EttOK, Etts
<1>6. ASSUME NEW reset \in BOOLEAN, ett' = Round(reset)
      PROVE  EttOK'
  BY <1>6, UnknownFits, EttAssumption DEF EttAssumption, EttOK, Etts, Round
<1>7. CASE full /\ ~ failed /\ delay = 0 /\ ett' = [f EXCEPT !.window = Grown(@)]
  <2>1. ProbesMax \in Nat /\ f.window < ProbesMax
    <3>1. ProbesMax \in Nat /\ f.window <= ProbesMax /\ f.window # ProbesMax
      BY <1>1, <1>7, EttAssumption DEF EttAssumption
    <3>. QED
      BY <3>1, <1>3
  <2>2. Grown(f.window) \in Nat /\ f.window < Grown(f.window) /\ Grown(f.window) <= ProbesMax
    BY <2>1, <1>3 DEF Grown
  <2>3. ett' \in Etts /\ ett'.count = f.count /\ ett'.delays = f.delays
        /\ ett'.window = Grown(f.window)
    BY <1>1, <1>7, <2>2 DEF Etts
  <2>. QED
    BY <2>2, <2>3, <1>3, <1>7 DEF EttOK, Fitting
<1>. QED
  BY <1>2, <1>4, <1>5, <1>6, <1>7

(* A large probe adds one report at most.                                  *)
LEMMA TakenLarge ==
  ASSUME EttOK, RecvLprobe
  PROVE  EttOK'
<1>1. CASE UNCHANGED ett
  BY <1>1 DEF EttOK
<1>2. ASSUME NEW loaded, NEW measured, NEW delay \in Delay \cup {Default},
             ComputeEstimation(DelayVectorAdd(ett, delay), measured, loaded)
      PROVE  EttOK'
  <2>1. delay \in Nat
    BY EttAssumption DEF EttAssumption
  <2>. DEFINE e == DelayVectorAdd(ett, delay)
  <2>2. /\ e \in Etts /\ e.count = ett.count /\ e.window = ett.window
        /\ Fitting(e, ett.count + 1)
    BY <2>1, AddFits DEF EttOK
  <2>3. e.count < e.window /\ e.window <= ProbesMax /\ Fitting(e, e.count + 1)
    BY <2>2 DEF EttOK
  <2>. HIDE DEF e
  <2>4. ComputeEstimation(e, measured, loaded)
    BY <1>2 DEF e
  <2>. QED
    BY <2>2, <2>3, <2>4, EstimationFits
<1>. QED
  <2>1. \/ UNCHANGED ett
        \/ \E fewer \in Fewer(watch), delay \in Delay \cup {Default} :
             ComputeEstimation(DelayVectorAdd(ett, delay),
                               ResUsec(small.at, Head(inbox).at), Inserted(fewer))
    BY DEF RecvLprobe
  <2>. QED
    BY <1>1, <1>2, <2>1
-----------------------------------------------------------------------------
LEMMA StaysFitting ==
  ASSUME EttOK, [Next]_vars
  PROVE  EttOK'
<1>1. CASE RecvLprobe
  BY <1>1, TakenLarge
<1>2. CASE Cleanup
  BY <1>2, StartFits DEF Cleanup, ResetEtt, EttOK
<1>3. CASE UNCHANGED ett
  BY <1>3 DEF EttOK
<1>. QED
  BY <1>1, <1>2, <1>3
  DEF Next, NeighbourSends, Lose, FireSend, FireWatch, RecvSprobe, SendProbe, vars

(* No report is written past the end of recv_delays, for every window and  *)
(* whatever is reported: the vector stays sorted, unreported delays last.  *)
THEOREM VectorNeverOverrun == Spec => []VectorFits
<1>1. Init => EttOK
  BY StartFits DEF Init, EttOK
<1>2. EttOK /\ [Next]_vars => EttOK'
  BY StaysFitting
<1>3. EttOK => VectorFits
  BY DEF EttOK, Fitting, VectorFits
<1>. QED
  BY <1>1, <1>2, <1>3, PTL DEF Spec
-----------------------------------------------------------------------------
(* The delays measured.                                                    *)

Stamp == [sec : 0 .. Width - 1, usec : 0 .. Second - 1]
Probe == [kind : {"s", "l"}, n : 0 .. Cycle - 1, at : Stamp]

(* Every probe carries a time, and so does the small one that is kept.     *)
Stamped == inbox \in Seq(Probe) /\ small.at \in Stamp

LEMMA ModSame ==
  ASSUME NEW w \in Nat \ {0}, NEW x \in Int, 0 <= x, x < w
  PROVE  x % w = x
  BY SMT

LEMMA ModNegative ==
  ASSUME NEW w \in Nat \ {0}, NEW x \in Int, - w <= x, x < 0
  PROVE  x % w = x + w
  BY SMT

(* A time that recv_lprobe takes for less than the default is the time     *)
(* between the stamps.                                                     *)
LEMMA ResUsecIsElapsed ==
  ASSUME NEW t \in Stamp, NEW u \in Stamp,
         t.sec >= 2 * Second, ResUsec(t, u) < Default
  PROVE  ResUsec(t, u) = Elapsed(t, u)
<1>1. /\ Default \in Nat /\ Second \in Nat \ {0} /\ Width \in Nat \ {0}
      /\ Default <= Second /\ Default + Second <= Width
  BY EttAssumption DEF EttAssumption
<1>2. /\ t.sec \in 0 .. Width - 1 /\ t.usec \in 0 .. Second - 1
      /\ u.sec \in 0 .. Width - 1 /\ u.usec \in 0 .. Second - 1
  BY DEF Stamp
<1>. DEFINE secs == (u.sec - t.sec) % Width
<1>3. CASE secs = 0
  <2>1. u.sec = t.sec
    <3>1. CASE u.sec > t.sec
      <4>1. secs = u.sec - t.sec
        BY <1>1, <1>2, <3>1, ModSame
      <4>. QED
        BY <4>1, <1>2, <1>3, <3>1
    <3>2. CASE u.sec < t.sec
      <4>1. secs = u.sec - t.sec + Width
        BY <1>1, <1>2, <3>2, ModNegative
      <4>. QED
        BY <4>1, <1>1, <1>2, <1>3
    <3>. QED
      BY <3>1, <3>2, <1>2
  <2>2. ResUsec(t, u) = (u.usec - t.usec) % Width
    BY <1>3 DEF ResUsec
  <2>3. u.usec >= t.usec
    <3>. SUFFICES ASSUME u.usec < t.usec PROVE FALSE
      BY <1>2
    <3>1. ResUsec(t, u) = u.usec - t.usec + Width
      BY <1>1, <1>2, <2>2, ModNegative
    <3>2. u.usec - t.usec + Width \in Int /\ Default <= u.usec - t.usec + Width
      BY <1>1, <1>2
    <3>. QED
      BY <3>1, <3>2, <1>1
  <2>4. ResUsec(t, u) = u.usec - t.usec
    <3>1. u.usec - t.usec \in Int /\ 0 <= u.usec - t.usec /\ u.usec - t.usec < Width
      BY <1>1, <1>2, <2>3
    <3>. QED
      BY <3>1, <1>1, <2>2, ModSame
  <2>5. Elapsed(t, u) = u.usec - t.usec
    <3>1. u.sec - t.sec = 0 /\ Second * 0 = 0
      BY <1>1, <1>2, <2>1
    <3>. QED
      BY <3>1, <1>1, <1>2 DEF Elapsed
  <2>. QED
    BY <2>4, <2>5
<1>4. CASE secs = 1
  <2>1. ResUsec(t, u) = (Second + u.usec - t.sec) % Width
    BY <1>4 DEF ResUsec
  <2>2. - Width <= Second + u.usec - t.sec /\ Second + u.usec - t.sec < 0
    BY <1>1, <1>2
  <2>3. ResUsec(t, u) = Second + u.usec - t.sec + Width
    BY <1>1, <1>2, <2>1, <2>2, ModNegative
  <2>. QED
    BY <2>3, <1>1, <1>2
<1>5. CASE secs # 0 /\ secs # 1
  <2>1. ResUsec(t, u) = Default
    BY <1>5 DEF ResUsec
  <2>. QED
    BY <2>1, <1>1
<1>. QED
  BY <1>3, <1>4, <1>5

LEMMA StaysStamped ==
  ASSUME Stamped, [Next]_vars
  PROVE  Stamped'
<1>1. CASE NeighbourSends
  <2>1. PICK n \in 0 .. Cycle - 1, t \in Times, u \in Times :
          LET pair == <<[kind |-> "s", n |-> n, at |-> t], [kind |-> "l", n |-> n, at |-> u]>>
          IN inbox' \in {SubSeq(pair, i, j) : i, j \in 1 .. 2}
    BY <1>1 DEF NeighbourSends
  <2>. DEFINE pair == <<[kind |-> "s", n |-> n, at |-> t], [kind |-> "l", n |-> n, at |-> u]>>
  <2>2. t \in Stamp /\ u \in Stamp
    BY EttAssumption DEF EttAssumption, Stamp
  <2>3. pair \in Seq(Probe) /\ Len(pair) = 2
    BY <2>2 DEF Probe
  <2>4. PICK i \in 1 .. 2, j \in 1 .. 2 : inbox' = SubSeq(pair, i, j)
    BY <2>1
  <2>. HIDE DEF pair
  <2>5. SubSeq(pair, i, j) \in Seq(Probe)
    BY <2>3
  <2>. QED
    BY <1>1, <2>4, <2>5 DEF NeighbourSends, Stamped
<1>2. ASSUME Take PROVE inbox' \in Seq(Probe) /\ Head(inbox) \in Probe
  BY <1>2 DEF Take, Stamped
<1>3. ASSUME NEW loaded, ResetEtt(loaded) PROVE small'.at \in Stamp
  BY <1>3, EttAssumption DEF EttAssumption, ResetEtt, NoSmall, Stamp
<1>4. CASE RecvSprobe
  <2>1. small'.at = Head(inbox).at
    BY <1>4 DEF RecvSprobe
  <2>. QED
    BY <1>2, <1>4, <2>1 DEF RecvSprobe, Stamped, Probe
<1>5. CASE RecvLprobe
  <2>1. ASSUME NEW e, NEW measured, NEW loaded, ComputeEstimation(e, measured, loaded)
        PROVE  small'.at \in Stamp
    <3>1. (\E l : ResetEtt(l)) \/ UNCHANGED small
      BY <2>1 DEF ComputeEstimation
    <3>. QED
      BY <3>1, <1>3 DEF Stamped
  <2>2. \/ UNCHANGED small
        \/ \E e, measured, loaded : ComputeEstimation(e, measured, loaded)
    BY <1>5 DEF RecvLprobe
  <2>3. small'.at \in Stamp
    BY <2>1, <2>2 DEF Stamped
  <2>. QED
    BY <1>2, <1>5, <2>3 DEF RecvLprobe, Stamped
<1>6. CASE Cleanup
  BY <1>3, <1>6 DEF Cleanup, Stamped
<1>7. CASE UNCHANGED <<inbox, small>>
  BY <1>7 DEF Stamped
<1>. QED
  BY <1>1, <1>4, <1>5, <1>6, <1>7
  DEF Next, Lose, FireSend, FireWatch, SendProbe, vars

(* For all times of arrival: a delay below the default that a node takes   *)
(* for measured is the time between the two probes, although seconds are   *)
(* subtracted from microseconds (probe_ett.c:372), once its clock is past  *)
(* the first seconds.                                                      *)
THEOREM DelaysTrue == Spec => DelayMeasured
<1>1. Init => Stamped
  BY EttAssumption DEF EttAssumption, Init, NoSmall, Stamped, Stamp
<1>2. Stamped /\ [Next]_vars => Stamped'
  BY StaysStamped
<1>. DEFINE Measures == /\ Take /\ Head(inbox).kind = "l" /\ Head(inbox).n = small.last
                        /\ small.at.sec >= 2 * Second /\ meas' < Default
            Right == Measures => meas' = Elapsed(small.at, Head(inbox).at)
<1>3. ASSUME Stamped, [Next]_vars, Measures
      PROVE  meas' = Elapsed(small.at, Head(inbox).at)
  <2>1. inbox' # inbox /\ inbox # <<>>
    <3>1. inbox \in Seq(Probe) /\ inbox # <<>> /\ inbox' = Tail(inbox)
      BY <1>3 DEF Stamped, Take
    <3>2. Len(Tail(inbox)) = Len(inbox) - 1 /\ Len(inbox) \in Nat
      BY <3>1
    <3>3. Len(Tail(inbox)) # Len(inbox)
      BY <3>2
    <3>. QED
      BY <3>1, <3>3
  <2>2. RecvLprobe
    BY <1>3, <2>1
    DEF Next, NeighbourSends, Lose, FireSend, FireWatch, SendProbe, Cleanup, RecvSprobe, vars
  <2>3. meas' \in {Default, ResUsec(small.at, Head(inbox).at)}
    <3>1. PICK e, loaded : ComputeEstimation(e, ResUsec(small.at, Head(inbox).at), loaded)
      BY <1>3, <2>2 DEF RecvLprobe
    <3>2. \/ \E l : ResetEtt(l)
          \/ meas' = ResUsec(small.at, Head(inbox).at)
      BY <3>1 DEF ComputeEstimation
    <3>. QED
      BY <3>2 DEF ResetEtt
  <2>4. meas' = ResUsec(small.at, Head(inbox).at)
    BY <1>3, <2>3, EttAssumption DEF EttAssumption
  <2>5. Head(inbox).at \in Stamp /\ small.at \in Stamp
    <3>1. inbox \in Seq(Probe) /\ small.at \in Stamp
      BY <1>3 DEF Stamped
    <3>2. Head(inbox) \in Probe
      BY <3>1, <2>1
    <3>. QED
      BY <3>1, <3>2 DEF Probe
  <2>. QED
    BY <1>3, <2>4, <2>5, ResUsecIsElapsed
<1>4. Stamped /\ [Next]_vars => [Right]_vars
  BY <1>3
<1>. QED
  BY <1>1, <1>2, <1>4, PTL DEF Spec, DelayMeasured
=============================================================================
