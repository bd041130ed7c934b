----------------------------- MODULE PacketHold -----------------------------
(***************************************************************************)
(* What the source of a flow does with packets it has no route for         *)
(* (packet_out.c, packet_queue.c, and where they touch it rreq.c, rrep.c,  *)
(* aodv_route.c, timer_queue.c).  The netfilter hook asks the thread for a *)
(* RREQ and holds the packet; the thread sends RREQs, arms a timer to send *)
(* them again, and lets the packets go when a RREP arrives or drops them   *)
(* when it has tried often enough.                                         *)
(*                                                                         *)
(* One flow, of a type of service other than NO_TOS, from this node; the   *)
(* rest of the mesh is the RREPs it returns, which may be lost, come late  *)
(* and in any order.  Every search of the code is by the key of the flow.  *)
(***************************************************************************)
EXTENDS Integers, Sequences, FiniteSets

CONSTANTS
  Packet,    \* packets of the flow
  MaxLen,    \* *q->maxlen
  Retries,   \* RREQ_RETRIES
  MaxId,     \* bound: RREPs the destination sends
  NeighIds,  \* ids of neighbour entries that lead to the destination
  SlowHook   \* may the thread run while the hook is half way?

ASSUME HoldAssumption ==
  /\ IsFiniteSet(Packet) /\ MaxLen \in Nat /\ Retries \in Nat /\ MaxId \in Nat
  /\ NeighIds \subseteq Nat /\ SlowHook \in BOOLEAN

VARIABLES
  route,   \* the aodv_route of the flow
  fate,    \* fate[p]: where packet p is
  held,    \* the packets of q->list, oldest first
  tasks,   \* the control tasks of this flow in the task queue
  timers,  \* its TASK_RESEND_RREQ timers, by time
  air,     \* ids of the RREPs under way
  dst_id,  \* the last id the destination has put in a RREP
  rreqs,   \* RREQs sent so far
  open     \* is the module in place?

vars == <<route, fate, held, tasks, timers, air, dst_id, rreqs, open>>

NoRoute == [state |-> "none", id |-> 0]
Gen == [kind |-> "gen", arg |-> 0]
Resend(retries) == [kind |-> "resend", arg |-> retries]
Reply(id) == [kind |-> "rrep", arg |-> id]

Members(s) == {s[i] : i \in 1 .. Len(s)}
HasRoute == route.state \in {"REPLIED", "ACTIVE"}

Init ==
  /\ route = NoRoute
  /\ fate = [p \in Packet |-> "new"]
  /\ held = <<>> /\ tasks = <<>> /\ timers = <<>>
  /\ air = {} /\ dst_id = 0 /\ rreqs = 0 /\ open = TRUE
-----------------------------------------------------------------------------
(* The hook.                                                               *)

\* output_handler when there is a route.
Accept(p) ==
  /\ open /\ fate[p] = "new" /\ HasRoute
  /\ fate' = [fate EXCEPT ![p] = "sent"]
  /\ route' = [route EXCEPT !.state = "ACTIVE"]
  /\ UNCHANGED <<held, tasks, timers, air, dst_id, rreqs, open>>

\* output_handler when there is none: the task goes first, and whether a
\* discovery is running already is not asked.
Ask(p) ==
  /\ open /\ fate[p] = "new" /\ ~ HasRoute
  /\ fate' = [fate EXCEPT ![p] = "queueing"]
  /\ tasks' = <<Gen>> \o tasks
  /\ UNCHANGED <<route, held, timers, air, dst_id, rreqs, open>>

\* NF_QUEUE leads to netfilter_receive and ipq_enqueue, which refuses the
\* packet when the queue is full or being taken down.
Enqueue(p) ==
  /\ fate[p] = "queueing"
  /\ \/ /\ open /\ Len(held) < MaxLen
        /\ held' = Append(held, p)
        /\ fate' = [fate EXCEPT ![p] = "held"]
     \/ /\ ~ open \/ Len(held) >= MaxLen
        /\ fate' = [fate EXCEPT ![p] = "dropped"]
        /\ UNCHANGED held
  /\ UNCHANGED <<route, tasks, timers, air, dst_id, rreqs, open>>
-----------------------------------------------------------------------------
(* Timers.  The unit of time is NET_TRAVERSAL_TIME.                        *)

\* 2 ^ n, which in C is the exclusive or.
Xor2(n) == IF (n \div 2) % 2 = 0 THEN n + 2 ELSE n - 2

\* insert_timer_directional and queue_timer: in front of the first timer that
\* is not earlier.
Arm(retries) ==
  LET new == [left |-> Xor2(Retries - retries), retries |-> retries]
      later == {i \in 1 .. Len(timers) : timers[i].left >= new.left}
      at == CHOOSE i \in later \cup {Len(timers) + 1} : \A j \in later : i <= j
  IN timers' = SubSeq(timers, 1, at - 1) \o <<new>>
                 \o SubSeq(timers, at, Len(timers))

\* delete_timer: the first one that matches.
Disarm == timers' = IF timers = <<>> THEN <<>> ELSE Tail(timers)

\* Time passes once the timers that are due have fired; a hook that is half way
\* takes no time on this scale.
Tick ==
  /\ \A p \in Packet : fate[p] # "queueing"
  /\ open /\ timers # <<>> /\ Head(timers).left > 0
  /\ timers' = [i \in 1 .. Len(timers) |-> [timers[i] EXCEPT !.left = @ - 1]]
  /\ UNCHANGED <<route, fate, held, tasks, air, dst_id, rreqs, open>>

\* timer_queue_signal.
Fire ==
  /\ open /\ timers # <<>> /\ Head(timers).left = 0
  /\ tasks' = Append(tasks, Resend(Head(timers).retries))
  /\ timers' = Tail(timers)
  /\ UNCHANGED <<route, fate, held, air, dst_id, rreqs, open>>
-----------------------------------------------------------------------------
(* The thread.                                                             *)

Take(kind) ==
  /\ SlowHook \/ \A p \in Packet : fate[p] # "queueing"
  /\ open /\ tasks # <<>> /\ Head(tasks).kind = kind
  /\ tasks' = Tail(tasks)

\* ipq_send_ip and ipq_drop_ip.
Release(verdict) ==
  /\ held' = <<>>
  /\ fate' = [p \in Packet |-> IF p \in Members(held) THEN verdict ELSE fate[p]]

GenRreq ==
  /\ Take("gen")
  /\ rreqs' = rreqs + 1
  /\ Arm(Retries)
  /\ UNCHANGED <<route, fate, held, air, dst_id, open>>

\* Mutant of ResendRreq: the retries do not go down.
ResendRreqAgain ==
  LET retries == Head(tasks).arg
  IN /\ Take("resend")
     /\ \/ /\ retries = 0
           /\ Release("dropped")
           /\ UNCHANGED <<timers, rreqs>>
        \/ /\ retries > 0
           /\ rreqs' = rreqs + 1
           /\ Arm(retries)
           /\ UNCHANGED <<fate, held>>
     /\ UNCHANGED <<route, air, dst_id, open>>

\* Mutant of ResendRreq: the packets are kept when the retries are used up.
ResendRreqOnly ==
  LET retries == Head(tasks).arg
  IN /\ Take("resend")
     /\ \/ /\ retries = 0
           /\ UNCHANGED <<fate, held, timers, rreqs>>
        \/ /\ retries > 0
           /\ rreqs' = rreqs + 1
           /\ Arm(retries - 1)
           /\ UNCHANGED <<fate, held>>
     /\ UNCHANGED <<route, air, dst_id, open>>

\* Mutant of ResendRreq: the end of the retries is not noticed.
ResendRreqForever ==
  /\ Take("resend")
  /\ rreqs' = rreqs + 1
  /\ Arm(Head(tasks).arg - 1)
  /\ UNCHANGED <<route, fate, held, air, dst_id, open>>

\* resend_rreq.
ResendRreq ==
  LET retries == Head(tasks).arg
  IN /\ Take("resend")
     /\ \/ /\ retries = 0
           /\ Release("dropped")
           /\ UNCHANGED <<timers, rreqs>>
        \/ /\ retries > 0
           /\ rreqs' = rreqs + 1
           /\ Arm(retries - 1)
           /\ UNCHANGED <<fate, held>>
     /\ UNCHANGED <<route, air, dst_id, open>>

\* recv_rrep at the source.  Whatever rreq_aodv_route thought of the RREP, a
\* timer is deleted; then the entry with its id is looked for.  That may be
\* the entry of the flow, none at all if the RREP is older than the entry, or
\* a neighbour entry, which lets the packets of NO_TOS go.
RecvRrep ==
  LET id == Head(tasks).arg
      accepted == route.state = "none" \/ id > route.id
  IN /\ Take("rrep")
     /\ Disarm
     /\ \/ /\ accepted
           /\ route' = [state |-> "REPLIED", id |-> id]
           /\ Release("sent")
        \/ /\ accepted /\ id \in NeighIds
           /\ route' = [state |-> "ACTIVE", id |-> id]
           /\ UNCHANGED <<fate, held>>
        \/ /\ ~ accepted
           /\ UNCHANGED <<route, fate, held>>
     /\ UNCHANGED <<air, dst_id, rreqs, open>>

\* expire_aodv_route, by delete_aodv_neigh, recv_rerr or the end of the
\* lifetime.
Invalidate ==
  /\ open /\ HasRoute
  /\ route' = [route EXCEPT !.state = "INVALID"]
  /\ UNCHANGED <<fate, held, tasks, timers, air, dst_id, rreqs, open>>

\* flush_aodv_route_table, when no RREP of the same time is still under way.
Remove ==
  /\ open /\ route.state = "INVALID"
  /\ \A id \in air : id > route.id
  /\ \A t \in Members(tasks) : t.kind = "rrep" => t.arg > route.id
  /\ route' = NoRoute
  /\ UNCHANGED <<fate, held, tasks, timers, air, dst_id, rreqs, open>>
\* ipq_destroy_queue, after hooks, timer and thread.
Destroy ==
  /\ open /\ open' = FALSE
  /\ Release("dropped")
  /\ UNCHANGED <<route, tasks, timers, air, dst_id, rreqs>>
-----------------------------------------------------------------------------
(* The rest of the mesh.  A RREQ may bring no RREP, one, or more than one  *)
(* when better paths turn up after the destination has answered.           *)

Answer ==
  /\ dst_id < MaxId /\ dst_id < 2 * rreqs
  /\ dst_id' = dst_id + 1
  /\ air' = air \cup {dst_id + 1} \/ UNCHANGED air
  /\ UNCHANGED <<route, fate, held, tasks, timers, rreqs, open>>

Arrive(id) ==
  /\ open /\ id \in air
  /\ air' = air \ {id}
  /\ tasks' = Append(tasks, Reply(id))
  /\ UNCHANGED <<route, fate, held, timers, dst_id, rreqs, open>>

Thread == GenRreq \/ ResendRreq \/ RecvRrep

Next ==
  \/ \E p \in Packet : Accept(p) \/ Ask(p) \/ Enqueue(p)
  \/ Tick \/ Fire
  \/ Thread \/ Invalidate \/ Remove \/ Destroy
  \/ Answer \/ \E id \in air : Arrive(id)

Spec == Init /\ [][Next]_vars

(* The kernel runs the thread and a hook that is half way; time passes and *)
(* timers fire.  Nobody promises packets, RREPs or that a route is lost.   *)
FairSpec ==
  /\ Spec
  /\ WF_vars(Thread) /\ WF_vars(Tick) /\ WF_vars(Fire)
  /\ \A p \in Packet : WF_vars(Enqueue(p))
-----------------------------------------------------------------------------
(* Every variable has its type.                                            *)
TypeOK ==
  /\ route \in [state : {"none", "INVALID", "REPLIED", "ACTIVE"}, id : Nat]
  /\ fate \in [Packet -> {"new", "queueing", "held", "sent", "dropped"}]
  /\ held \in Seq(Packet)
  /\ tasks \in Seq([kind : {"gen", "resend", "rrep"}, arg : Nat])
  /\ timers \in Seq([left : Nat, retries : 0 .. Retries])
  /\ air \subseteq Nat /\ dst_id \in Nat /\ rreqs \in Nat
  /\ open \in BOOLEAN

(* A packet costs at most one RREQ and RREQ_RETRIES repetitions, whatever  *)
(* is cancelled, answered late or asked for twice (rreq.c:147-316).        *)
FloodsBounded ==
  rreqs <= (Retries + 1) * Cardinality({p \in Packet : fate[p] # "new"})

(* A packet for a destination that never answers is dropped in the end     *)
(* (resend_rreq, rreq.c:151-161), however many discoveries overlap.        *)
GivesUp ==
  [](\A t \in Members(tasks) : t.kind # "rrep") =>
     \A p \in Packet : fate[p] = "held" ~> fate[p] = "dropped"

(* "All of them must be fed back via nf_reinject()" (packet_queue.c:355):  *)
(* a packet that is held is sent or dropped in the end.                    *)
AllFedBack == \A p \in Packet : fate[p] = "held" ~> fate[p] \in {"sent", "dropped"}
=============================================================================
