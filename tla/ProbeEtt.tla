------------------------------ MODULE ProbeEtt ------------------------------
(***************************************************************************)
(* The ETT probes of a node to one of its neighbours, and of the neighbour *)
(* to it (probe_ett.c).  Each sends the other pairs of a small and a large *)
(* probe.  The receiver measures the delay between the two and reports it  *)
(* in its own large probes; out of the reports the sender estimates the    *)
(* rate of its link.  Both start over when no pair was heard for long.     *)
(*                                                                         *)
(* The node is modelled, the neighbour is its environment: probes are lost *)
(* at will and the reports are any of Delay.  Tasks of different kinds are *)
(* taken in any order (task_queue.c), probes in the order they came.  The  *)
(* neighbour stays, and neither has a fixed rate of its own.  The routes   *)
(* that reset_ett breaks with gen_rerr are those of RouteDiscovery.  Time  *)
(* is seen in the stamps of the probes only: a timer goes off at any time, *)
(* so that the interval of TASK_SEND_ETT, and recv_rate, which does        *)
(* nothing but choose it, are left out.                                    *)
(***************************************************************************)
EXTENDS Integers, SequencesExt

CONSTANTS
  Delay,        \* delays that may be reported, in microseconds
  Default,      \* DEFAULT_ETT_METRIC: no delay known
  EttRange,     \* ETT_RANGE
  ProbesMin,    \* ETT_PROBES_MIN
  ProbesMax,    \* ETT_PROBES_MAX
  Cycle,        \* count_send runs from 0 to Cycle - 1
  Times,        \* when probes may arrive: records of sec and usec
  Second,       \* microseconds of a second
  Width         \* the times are unsigned numbers less than this

ASSUME EttAssumption ==
  /\ Delay \subseteq Nat /\ Default \in Nat /\ EttRange \in Nat
  /\ ProbesMin \in Nat /\ ProbesMax \in Nat /\ 2 < ProbesMin /\ ProbesMin < ProbesMax
  /\ Cycle \in Nat \ {0} /\ Second \in Nat \ {0} /\ Width \in Nat \ {0}
  \* 1000000, 1000000 and 2^32.
  /\ Default <= Second /\ Default + Second <= Width
  /\ Times \subseteq [sec : 0 .. Width - 1, usec : 0 .. Second - 1]

VARIABLES
  gone,      \* no probe of the neighbour comes through any more
  inbox,     \* probes of the neighbour that wait
  small,     \* ett.last_count, sec and usec
  meas,      \* ett.meas_delay
  ett,       \* ett.count_rcv, ett_window, recv_delays and reset
  rate,      \* send_rate
  send,      \* TASK_SEND_ETT: timers and queued tasks
  watch      \* TASK_ETT_CLEANUP: timers and queued tasks

vars == <<gone, inbox, small, meas, ett, rate, send, watch>>

Many == 2    \* bound: two timers stand for two or more
Unknown == [i \in 1 .. ProbesMax |-> Default]
Start == [count |-> 0, window |-> ProbesMin + 1, delays |-> Unknown, reset |-> FALSE]

\* What reset_ett leaves of the small probe.
NoSmall == [last |-> 0, at |-> [sec |-> 0, usec |-> 0]]

Init ==
  /\ gone = FALSE /\ inbox = <<>>
  /\ small = NoSmall /\ meas = Default
  /\ ett = Start /\ rate = 0
  /\ send = [timers |-> 1, queued |-> 0] /\ watch = [timers |-> 1, queued |-> 0]
-----------------------------------------------------------------------------
(* Timers: insert_timer_simple, delete_timer, and the timer going off.     *)

Inserted(t) == [t EXCEPT !.timers = IF @ = Many THEN Many ELSE @ + 1]
\* All that t may be after one timer is gone; two may stand for more.
Fewer(t) ==
  {[t EXCEPT !.timers = k] : k \in IF t.timers = Many THEN {Many - 1, Many}
                                   ELSE {IF t.timers = 0 THEN 0 ELSE t.timers - 1}}
Fire(t) == t.timers > 0 /\ t.queued = 0 /\ \E r \in Fewer(t) : t' = [r EXCEPT !.queued = 1]
Handled(t) == [t EXCEPT !.queued = 0]
-----------------------------------------------------------------------------
(* Estimation, on the record ett.                                          *)

\* delay_vector_add: in front of the first greater delay among the first
\* count + 1, the last of which is overwritten.
DelayVectorAdd(e, delay) ==
  LET greater == {i \in 1 .. e.count + 1 : delay < e.delays[i]}
      at == Min(greater)
  IN IF greater = {} THEN e
     ELSE [e EXCEPT !.delays = [i \in DOMAIN @ |->
             IF i < at \/ i > e.count + 1 THEN @[i]
             ELSE IF i = at THEN delay ELSE @[i - 1]]]

\* find_delay_range and compute_delay: the mean of the largest group of delays
\* within EttRange of its least, 0 when it has fewer than three.
InRange(e, i) ==
  Cardinality({j \in i + 1 .. e.window :
                 \A k \in i + 1 .. j : e.delays[k] - e.delays[i] <= EttRange})
ComputeDelay(e) ==
  LET most == Max({InRange(e, i) : i \in 1 .. e.window})
      at == Min({i \in 1 .. e.window : InRange(e, i) = most})
      sum == FoldFunctionOnSet(+, 0, e.delays, at .. at + most)
  IN IF most < 2 THEN 0 ELSE sum \div (most + 1)

\* compute_rate.  Only the low 16 bits of the delay are looked at.
ComputeRate(delay) ==
  LET bps == 61740 \div (delay % 65536) IN
  CASE bps < 38 -> 60 [] bps >= 38 /\ bps < 53 -> 90 [] bps >= 53 /\ bps < 78 -> 120
    [] bps >= 78 /\ bps < 105 -> 180 [] bps >= 105 /\ bps < 150 -> 240
    [] bps >= 150 /\ bps < 210 -> 360 [] bps >= 210 /\ bps < 255 -> 480
    [] bps >= 255 -> 540

\* Mutant of Grown: the bound is forgotten.
GrownFreely(window) == window + 2

\* Two more reports are waited for.
Grown(window) == IF window + 2 > ProbesMax THEN ProbesMax ELSE window + 2

\* A new round, with the window as small as it gets.
Round(reset) ==
  [count |-> 0, window |-> ProbesMin, delays |-> Unknown, reset |-> reset]

\* Mutant of ResetEtt: no probe is sent any more.
ResetEttMute(loaded) ==
  /\ small' = NoSmall /\ meas' = Default
  /\ ett' = Start /\ rate' = 0
  /\ send' \in Fewer(send)
  /\ watch' = Inserted(loaded)

\* reset_ett, after which loaded is the state of TASK_ETT_CLEANUP: a timer for
\* it is inserted and none deleted.
ResetEtt(loaded) ==
  /\ small' = NoSmall /\ meas' = Default
  /\ ett' = Start /\ rate' = 0
  /\ \E fewer \in Fewer(send) : send' = Inserted(fewer)
  /\ watch' = Inserted(loaded)

\* compute_estimation on e, after the delay of the pair was measured.
ComputeEstimation(e, measured, loaded) ==
  LET f == [e EXCEPT !.count = @ + 1]
      full == f.count = f.window
      delay == ComputeDelay(f)
      failed == delay = 0 /\ f.window = ProbesMax
      hopeless == full /\ ((failed /\ f.reset) \/ delay = Default)
  IN
  \/ hopeless /\ ResetEtt(loaded)
  \/ /\ ~ hopeless
     /\ ett' = IF ~ full THEN f
               ELSE IF failed THEN Round(TRUE)
               ELSE IF delay = 0 THEN [f EXCEPT !.window = Grown(@)]
               ELSE Round(FALSE)
     /\ rate' = IF full /\ delay # 0 THEN ComputeRate(delay) ELSE rate
     /\ meas' = measured /\ watch' = loaded
     /\ UNCHANGED <<small, send>>
-----------------------------------------------------------------------------
(* The neighbour.                                                          *)

NotBefore(t, u) == u.sec < t.sec \/ (u.sec = t.sec /\ u.usec <= t.usec)

\* It sends a pair, of which none, one or both arrive, the large probe not
\* before the small one. count_send is of all its neighbours: any number may
\* be next, at any time, as clocks may be set. Bound: it sends when no probe of
\* its waits.
NeighbourSends ==
  /\ ~ gone /\ inbox = <<>>
  /\ \E n \in 0 .. Cycle - 1, t \in Times : \E u \in {v \in Times : NotBefore(v, t)} :
       LET pair == <<[kind |-> "s", n |-> n, at |-> t], [kind |-> "l", n |-> n, at |-> u]>>
       IN inbox' \in {SubSeq(pair, i, j) : i, j \in 1 .. 2}
  /\ UNCHANGED <<gone, small, meas, ett, rate, send, watch>>

\* From now on all its probes are lost.
Lose ==
  /\ ~ gone /\ gone' = TRUE
  /\ UNCHANGED <<inbox, small, meas, ett, rate, send, watch>>
-----------------------------------------------------------------------------
(* The node.                                                               *)

Take == inbox # <<>> /\ inbox' = Tail(inbox)

\* recv_sprobe.
RecvSprobe ==
  /\ Take /\ Head(inbox).kind = "s"
  /\ small' = [last |-> Head(inbox).n, at |-> Head(inbox).at]
  /\ UNCHANGED <<gone, meas, ett, rate, send, watch>>

\* Mutant of ResUsec: the seconds are not looked at.
ResUsecHasty(t, u) == (u.usec - t.usec) % Width

\* res_usec of recv_lprobe: what it takes for the time from t to u.
ResUsec(t, u) ==
  LET secs == (u.sec - t.sec) % Width IN
  CASE secs = 0 -> (u.usec - t.usec) % Width
    [] secs = 1 -> (Second + u.usec - t.sec) % Width
    [] OTHER    -> Default

\* Mutant of RecvLprobe: the cleanup is called off and not put off.
RecvLprobeCalm ==
  /\ Take /\ Head(inbox).kind = "l"
  /\ \/ /\ Head(inbox).n # small.last
        /\ UNCHANGED <<small, meas, ett, rate, send, watch>>
     \/ /\ Head(inbox).n = small.last
        /\ \E fewer \in Fewer(watch), delay \in Delay \cup {Default} :
             ComputeEstimation(DelayVectorAdd(ett, delay),
                               ResUsec(small.at, Head(inbox).at), fewer)
  /\ UNCHANGED gone

\* recv_lprobe: the pair is known by its number.
RecvLprobe ==
  /\ Take /\ Head(inbox).kind = "l"
  /\ \/ /\ Head(inbox).n # small.last
        /\ UNCHANGED <<small, meas, ett, rate, send, watch>>
     \/ /\ Head(inbox).n = small.last
        /\ \E fewer \in Fewer(watch), delay \in Delay \cup {Default} :
             ComputeEstimation(DelayVectorAdd(ett, delay),
                               ResUsec(small.at, Head(inbox).at), Inserted(fewer))
  /\ UNCHANGED gone

\* TASK_SEND_ETT: send_probe, which starts the timer again.
SendProbe ==
  /\ send.queued = 1
  /\ send' = Inserted(Handled(send))
  /\ UNCHANGED <<gone, inbox, small, meas, ett, rate, watch>>

\* TASK_ETT_CLEANUP.
Cleanup ==
  /\ watch.queued = 1
  /\ ResetEtt(Handled(watch))
  /\ UNCHANGED <<gone, inbox>>

FireSend ==
  /\ Fire(send)
  /\ UNCHANGED <<gone, inbox, small, meas, ett, rate, watch>>
FireWatch ==
  /\ Fire(watch)
  /\ UNCHANGED <<gone, inbox, small, meas, ett, rate, send>>

Next ==
  \/ NeighbourSends \/ Lose \/ FireSend \/ FireWatch
  \/ RecvSprobe \/ RecvLprobe \/ SendProbe \/ Cleanup

(* Timers go off and the thread empties its queues.                        *)
Fairness ==
  /\ WF_vars(FireSend) /\ WF_vars(FireWatch)
  /\ WF_inbox(Take) /\ WF_vars(SendProbe) /\ WF_vars(Cleanup)

Spec == Init /\ [][Next]_vars /\ Fairness
-----------------------------------------------------------------------------
(* The window grows by two, shrinks between rounds and is compared with    *)
(* the number of reports by = only (probe_ett.c:161, 192).  Still reports  *)
(* never outrun it and delay_vector_add never writes past the end of       *)
(* recv_delays, which stays sorted, as compute_delay needs it, with all    *)
(* that was not reported at its end.                                       *)
VectorFits ==
  /\ ett.count < ett.window /\ ett.window <= ProbesMax
  /\ \A i, j \in 1 .. ProbesMax : i < j => ett.delays[i] <= ett.delays[j]
  /\ \A i \in ett.count + 1 .. ProbesMax : ett.delays[i] = Default

(* Of the small probe the seconds and microseconds are kept, and the large *)
(* one may follow in the next second, belong to a later pair of the same   *)
(* number, or come after the clock was set.  recv_lprobe then subtracts    *)
(* seconds from microseconds (probe_ett.c:372) or wraps around.  Still any *)
(* delay below the default, which alone delay_vector_add of the neighbour  *)
(* takes, is the time from the one probe to the other, once the clock      *)
(* shows more seconds than two seconds have microseconds.                  *)
Elapsed(t, u) == Second * (u.sec - t.sec) + u.usec - t.usec
DelayMeasured ==
  [][Take /\ Head(inbox).kind = "l" /\ Head(inbox).n = small.last
       /\ small.at.sec >= 2 * Second /\ meas' < Default
       => meas' = Elapsed(small.at, Head(inbox).at)]_vars

(* A rate is given up when the probes of the neighbour no longer come,     *)
(* although each pair puts that off and reset_ett itself starts the timer  *)
(* once more (probe_ett.c:38, 360).                                        *)
RateGivenUp == <>gone => <>[](rate = 0)

(* Whatever is reset while TASK_SEND_ETT waits as a timer or in the queue, *)
(* the node goes on probing (probe_ett.c:24, 277).                         *)
ProbesGoOn == []<>(send.queued = 1)
=============================================================================
