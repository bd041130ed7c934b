--------------------------- MODULE RouteDiscovery ---------------------------
(***************************************************************************)
(* Flow-based AODV route discovery among a set of nodes: the RREQ flood,   *)
(* the RREP that answers it, the RERR that follows a lost neighbour, and   *)
(* the routing table of every node (rreq.c, rrep.c, rerr.c, aodv_route.c,  *)
(* aodv_neigh.c).  The thread of a node handles one task at a time, so an  *)
(* action is one task handler, complete with the tables it updates and the *)
(* messages it sends; the radio delivers messages in any order and loses   *)
(* any of them when Lossy.                                                 *)
(*                                                                         *)
(* The shipped configuration is modelled: HOPS metric, no gateway, no DTN  *)
(* registration, and flows whose type of service is not NO_TOS (NO_TOS is  *)
(* the key of the neighbour entries).  REPLIED and ACTIVE only differ for  *)
(* the load metric and the kernel table: both are "VALID" here.            *)
(***************************************************************************)
EXTENDS Integers

CONSTANTS
  Node,         \* mesh addresses
  Tos,          \* types of service in use
  Flow,         \* the flows applications open, [src, dst, tos]
  Link,         \* <<x, y>>: x can hear y
  Flaky,        \* the links whose hellos may stay away long enough to expire
  NetDiameter,  \* TTL a RREQ starts with
  MaxSeq,       \* bound: no new RREQ from a node whose counter is here
  Lossy,        \* may the radio lose messages?
  Ageing,       \* may routing entries reach the end of their lifetime?
  NoNode,       \* the null address
  NeighEntry    \* stands for the neighbour entry a search by id may return

Rev(k) == [src |-> k.dst, dst |-> k.src, tos |-> k.tos]

\* Keys of the routing table: an entry leads from src towards dst.
Key == Flow \cup {Rev(f) : f \in Flow}

ASSUME FlowAssumption ==
  Flow \subseteq {f \in [src : Node, dst : Node, tos : Tos] : f.src # f.dst}
ASSUME LinkAssumption == Link \subseteq Node \X Node /\ Flaky \subseteq Link
ASSUME BoundAssumption == NetDiameter \in Nat \ {0} /\ MaxSeq \in Nat
ASSUME NullAssumption == NoNode \notin Node /\ NeighEntry \notin Key
ASSUME SwitchAssumption == Lossy \in BOOLEAN /\ Ageing \in BOOLEAN

VARIABLES
  seq,      \* seq[n]: g_local_route->dst_id, the last id n has issued
  rt,       \* rt[n][k]: the aodv_route of n for k, or NoEntry
  neigh,    \* neigh[n]: the aodv_neigh list of n
  nroute,   \* nroute[n]: <<neighbour, id>> of the entries route_aodv_neigh left
  timer,    \* flows whose destination has a TASK_SEND_RREP timer armed
  task,     \* flows whose TASK_SEND_RREP is in the destination's task queue
  rreq, rrep, rerr  \* messages in flight, or queued at their receiver

vars == <<seq, rt, neigh, nroute, timer, task, rreq, rrep, rerr>>

State == {"none", "INVALID", "VALID"}
Entry == [id : Nat, metric : Int, next : Node \cup {NoNode},
          last : Node \cup {NoNode}, state : State]
NoEntry == [id |-> 0, metric |-> 0, next |-> NoNode, last |-> NoNode,
            state |-> "none"]

Rreq == [from : Node, to : Node, flow : Flow, id : Nat, hops : Nat, ttl : Nat]
Rrep == [from : Node, to : Node, flow : Flow, id : Nat, src_id : Nat,
         metric : Int]
Rerr == [from : Node, to : Node, dst : Node, id : Nat]
-----------------------------------------------------------------------------
(* The routing table of one node, tbl \in [Key -> Entry].                  *)

\* Mutants of Accepts: without the test for an older route; without the test
\* for a worse metric.
AcceptsOlder(e, id, metric) ==
  e.state = "none" \/ metric < e.metric \/ id > e.id
AcceptsWorse(e, id, metric) == e.state = "none" \/ id >= e.id

\* The tests of rreq_aodv_route: a new key, a newer id, or the same id with a
\* better metric.
Accepts(e, id, metric) ==
  \/ e.state = "none"
  \/ id > e.id
  \/ id = e.id /\ metric < e.metric

\* rreq_aodv_route: create or replace the entry for k, unless it is refused.
RreqRoute(tbl, k, hop, id, metric) ==
  IF Accepts(tbl[k], id, metric)
  THEN [tbl EXCEPT ![k] =
         [id |-> id, metric |-> metric, next |-> hop, state |-> "VALID",
          last |-> IF @.state = "none" THEN k.src ELSE @.last]]
  ELSE tbl

\* rrep_aodv_route and the assignment of last_hop that follows every call.
RrepRoute(tbl, p, hop) ==
  IF p = NeighEntry THEN tbl
  ELSE [tbl EXCEPT ![p].state = "VALID", ![p].last = hop]

\* Mutant of ById: the destination alone is compared.
ByDestination(n, tbl, d, id) ==
  {k \in Key : tbl[k].state # "none" /\ k.dst = d}

\* find_aodv_route_by_id looks at dst and id only.  When the neighbour entry
\* of d carries the same id, which of the two comes first in the list depends
\* on which was inserted last, so either may be returned.
ById(n, tbl, d, id) ==
  {k \in Key : tbl[k].state # "none" /\ k.dst = d /\ tbl[k].id = id}
    \cup (IF <<d, id>> \in nroute[n] THEN {NeighEntry} ELSE {})

\* route_aodv_neigh leaves next_hop NULL and path_metric 1.
NextHop(tbl, p) == IF p = NeighEntry THEN NoNode ELSE tbl[p].next
Metric(tbl, p)  == IF p = NeighEntry THEN 1 ELSE tbl[p].metric

(* The radio.                                                              *)
Air(msgs) == IF Lossy THEN SUBSET msgs ELSE {msgs}

\* local_broadcast: one copy for each node in range.
Broadcast(n, f, id, hops, ttl) ==
  Air({[from |-> n, to |-> x, flow |-> f, id |-> id, hops |-> hops,
        ttl |-> ttl] : x \in {y \in Node : <<y, n>> \in Link}})

\* Mutant of Unicast: the receiver is not looked up among the neighbours.
UnicastBlindly(nbrs, msgs) == Air(msgs)

\* send_message: nothing is sent unless the receiver is a neighbour.
Unicast(nbrs, msgs) == Air({m \in msgs : m.to \in nbrs})
-----------------------------------------------------------------------------
(* After the first hellos: everyone in range is a neighbour, the counters  *)
(* still have the value create_aodv_dev gave them.                         *)
Init ==
  /\ seq = [n \in Node |-> 1]
  /\ rt = [n \in Node |-> [k \in Key |-> NoEntry]]
  /\ neigh = [n \in Node |-> {x \in Node : <<n, x>> \in Link}]
  /\ nroute = [n \in Node |-> neigh[n] \X {1}]
  /\ timer = {} /\ task = {}
  /\ rreq = {} /\ rrep = {} /\ rerr = {}

\* gen_rreq, and resend_rreq while it has retries left: the same message with
\* a new id.  The route may have become valid since the task was queued, and
\* neither function looks.
GenRreq(n, f) ==
  /\ f.src = n
  /\ seq[n] < MaxSeq
  /\ seq' = [seq EXCEPT ![n] = @ + 1]
  /\ \E copies \in Broadcast(n, f, seq[n] + 1, 0, NetDiameter) :
        rreq' = rreq \cup copies
  /\ UNCHANGED <<rt, neigh, nroute, timer, task, rrep, rerr>>

\* Mutant of UsefulRreq: the TTL test is one too strict.
UsefulRreqShort(n, m) ==
  /\ m.flow.dst = n \/ m.ttl > 2
  /\ m.from \in neigh[n]
  /\ m.flow.src # n
  /\ Accepts(rt[n][Rev(m.flow)], m.id, m.hops + 1)

\* The checks of recv_rreq, down to the one inside rreq_aodv_route.
UsefulRreq(n, m) ==
  /\ m.flow.dst = n \/ m.ttl > 1
  /\ m.from \in neigh[n]
  /\ m.flow.src # n
  /\ Accepts(rt[n][Rev(m.flow)], m.id, m.hops + 1)

InstallReverse(n, m) ==
  rt' = [rt EXCEPT ![n] =
           RreqRoute(@, Rev(m.flow), m.from, m.id, m.hops + 1)]

DropRreq(n, m) ==
  /\ m \in rreq /\ m.to = n
  /\ ~ UsefulRreq(n, m)
  /\ rreq' = rreq \ {m}
  /\ UNCHANGED <<seq, rt, neigh, nroute, timer, task, rrep, rerr>>

\* recv_rreq at the destination: wait RREP_TIMER for a better path, unless
\* such a wait is already running.
AnswerRreq(n, m) ==
  /\ m \in rreq /\ m.to = n
  /\ UsefulRreq(n, m) /\ m.flow.dst = n
  /\ InstallReverse(n, m)
  /\ timer' = timer \cup {m.flow}
  /\ rreq' = rreq \ {m}
  /\ UNCHANGED <<seq, neigh, nroute, task, rrep, rerr>>

\* recv_rreq at an intermediate node.
ForwardRreq(n, m) ==
  /\ m \in rreq /\ m.to = n
  /\ UsefulRreq(n, m) /\ m.flow.dst # n
  /\ InstallReverse(n, m)
  /\ \E copies \in Broadcast(n, m.flow, m.id, m.hops + 1, m.ttl - 1) :
        rreq' = (rreq \ {m}) \cup copies
  /\ UNCHANGED <<seq, neigh, nroute, timer, task, rrep, rerr>>

\* timer_queue_signal moves the task to the queue of the thread; from here on
\* find_timer no longer sees it.
FireRrepTimer(f) ==
  /\ f \in timer
  /\ timer' = timer \ {f}
  /\ task' = task \cup {f}
  /\ UNCHANGED <<seq, rt, neigh, nroute, rreq, rrep, rerr>>

\* Mutant of GenRrep: the answer carries the last id again, not a new one.
GenRrepSameId(n, f) ==
  LET k == Rev(f)
      e == rt[n][k]
      m == [from |-> n, to |-> e.next, flow |-> f, id |-> seq[n],
            src_id |-> e.id, metric |-> e.metric]
  IN /\ f \in task /\ f.dst = n
     /\ task' = task \ {f}
     /\ \/ /\ e.state = "none"
           /\ UNCHANGED <<rt, rrep>>
        \/ /\ e.state # "none"
           /\ rt' = [rt EXCEPT ![n] = RrepRoute(@, k, n)]
           /\ \E sent \in Unicast(neigh[n], {m}) : rrep' = rrep \cup sent
     /\ UNCHANGED <<seq, neigh, nroute, timer, rreq, rerr>>

\* gen_rrep: nothing without a route back; the state of that route is not
\* looked at.
GenRrep(n, f) ==
  LET k == Rev(f)
      e == rt[n][k]
      m == [from |-> n, to |-> e.next, flow |-> f, id |-> seq[n] + 1,
            src_id |-> e.id, metric |-> e.metric]
  IN /\ f \in task /\ f.dst = n
     /\ task' = task \ {f}
     /\ \/ /\ e.state = "none"
           /\ UNCHANGED <<seq, rt, rrep>>
        \/ /\ e.state # "none"
           /\ seq' = [seq EXCEPT ![n] = @ + 1]
           /\ rt' = [rt EXCEPT ![n] = RrepRoute(@, k, n)]
           /\ \E sent \in Unicast(neigh[n], {m}) : rrep' = rrep \cup sent
     /\ UNCHANGED <<neigh, nroute, timer, rreq, rerr>>

\* recv_rrep from a sender that is not a neighbour, or with no entry for the
\* RREQ it answers.
DropRrep(n, m) ==
  /\ m \in rrep /\ m.to = n
  /\ \/ m.from \notin neigh[n]
     \/ m.flow.src # n /\ ById(n, rt[n], m.flow.src, m.src_id) = {}
  /\ rrep' = rrep \ {m}
  /\ UNCHANGED <<seq, rt, neigh, nroute, timer, task, rreq, rerr>>

\* recv_rrep at the source of the flow.
FinishRrep(n, m) ==
  LET k == m.flow
      tbl == RreqRoute(rt[n], k, m.from, m.id, m.metric)
      found == ById(n, tbl, k.dst, m.id)
  IN /\ m \in rrep /\ m.to = n
     /\ m.from \in neigh[n] /\ k.src = n
     /\ \/ found = {} /\ rt' = [rt EXCEPT ![n] = tbl]
        \/ \E s \in found : rt' = [rt EXCEPT ![n] = RrepRoute(tbl, s, n)]
     /\ rrep' = rrep \ {m}
     /\ UNCHANGED <<seq, neigh, nroute, timer, task, rreq, rerr>>

\* recv_rrep at an intermediate node: r is recv_route, the entry the RREQ
\* created, whatever its state; s is send_route.  The metric of the entry
\* towards dst is what is left of the whole path after the part behind r.
ForwardRrep(n, m) ==
  /\ m \in rrep /\ m.to = n
  /\ m.from \in neigh[n] /\ m.flow.src # n
  /\ \E r \in ById(n, rt[n], m.flow.src, m.src_id) :
       LET k == m.flow
           tbl == RreqRoute(rt[n], k, m.from, m.id,
                            m.metric - Metric(rt[n], r))
           found == ById(n, tbl, k.dst, m.id)
           onward == [m EXCEPT !.from = n, !.to = NextHop(tbl, r)]
       IN \/ /\ found = {}
             /\ rt' = [rt EXCEPT ![n] = tbl]
             /\ rrep' = rrep \ {m}
          \/ \E s \in found :
               /\ rt' = [rt EXCEPT ![n] =
                           RrepRoute(RrepRoute(tbl, s, NextHop(tbl, r)),
                                     r, NextHop(tbl, s))]
               /\ \E sent \in Unicast(neigh[n], {onward}) :
                     rrep' = (rrep \ {m}) \cup sent
  /\ UNCHANGED <<seq, neigh, nroute, timer, task, rreq, rerr>>
-----------------------------------------------------------------------------
\* recv_hello from an unknown node: create_aodv_neigh and route_aodv_neigh.
NewNeigh(n, x) ==
  /\ <<n, x>> \in Link /\ x \notin neigh[n]
  /\ neigh' = [neigh EXCEPT ![n] = @ \cup {x}]
  /\ nroute' = [nroute EXCEPT ![n] = @ \cup {<<x, seq[n]>>}]
  /\ UNCHANGED <<seq, rt, timer, task, rreq, rrep, rerr>>

Invalidate(tbl, ks) ==
  [k \in Key |-> IF k \in ks THEN [tbl[k] EXCEPT !.state = "INVALID"]
                 ELSE tbl[k]]

\* TASK_NEIGHBOR: delete_aodv_neigh, which ends in gen_rerr.  The neighbour
\* entry itself stays in the table.
DeleteNeigh(n, x) ==
  LET lost == {k \in Key : rt[n][k].state = "VALID" /\ rt[n][k].next = x}
      errors == {[from |-> n, to |-> rt[n][k].last, dst |-> k.dst,
                  id |-> rt[n][k].id] : k \in {j \in lost : j.src # n}}
  IN /\ <<n, x>> \in Flaky /\ x \in neigh[n]
     /\ neigh' = [neigh EXCEPT ![n] = @ \ {x}]
     /\ rt' = [rt EXCEPT ![n] = Invalidate(@, lost)]
     /\ \E sent \in Unicast(neigh[n] \ {x}, errors) : rerr' = rerr \cup sent
     /\ UNCHANGED <<seq, nroute, timer, task, rreq, rrep>>

\* recv_rerr.  A neighbour entry has no next hop, so finding it first means
\* that nothing happens.
RecvRerr(n, m) ==
  /\ m \in rerr /\ m.to = n
  /\ LET hit == {k \in Key \cap ById(n, rt[n], m.dst, m.id) :
                   rt[n][k].next = m.from}
     IN \/ /\ \/ hit = {}
              \/ NeighEntry \in ById(n, rt[n], m.dst, m.id)
           /\ rerr' = rerr \ {m}
           /\ UNCHANGED rt
        \/ \E k \in hit :
             LET e == rt[n][k]
                 onward == IF k.src # n /\ e.state = "VALID"
                           THEN {[m EXCEPT !.from = n, !.to = e.last]} ELSE {}
             IN /\ rt' = [rt EXCEPT ![n] = Invalidate(@, {k})]
                /\ \E sent \in Unicast(neigh[n], onward) :
                      rerr' = (rerr \ {m}) \cup sent
  /\ UNCHANGED <<seq, neigh, nroute, timer, task, rreq, rrep>>

\* A flood lives at most NET_TRAVERSAL_TIME (800 ms); an entry expires, and is
\* removed, DELETE_PERIOD (3 s) or more after it was written: when that happens
\* no message that could write the same or an older entry is still under way.
FloodOver(k, id) ==
  /\ \A m \in rreq : Rev(m.flow) = k => m.id > id
  /\ \A m \in rrep : m.flow = k => m.id > id

\* Mutant of Flush: a lifetime shorter than a flood.
FlushEarly(n, due) ==
  /\ Ageing
  /\ due # {}
  /\ \A k \in due : rt[n][k].state # "none"
  /\ rt' = [rt EXCEPT ![n] =
              [k \in Key |->
                 IF k \notin due THEN rt[n][k]
                 ELSE IF rt[n][k].state = "INVALID" THEN NoEntry
                 ELSE [rt[n][k] EXCEPT !.state = "INVALID"]]]
  /\ UNCHANGED <<seq, neigh, nroute, timer, task, rreq, rrep, rerr>>

\* flush_aodv_route_table, where due are the entries whose lifetime is over:
\* the valid ones expire, the invalid ones are removed.
Flush(n, due) ==
  /\ Ageing
  /\ due # {}
  /\ \A k \in due : rt[n][k].state # "none" /\ FloodOver(k, rt[n][k].id)
  /\ rt' = [rt EXCEPT ![n] =
              [k \in Key |->
                 IF k \notin due THEN rt[n][k]
                 ELSE IF rt[n][k].state = "INVALID" THEN NoEntry
                 ELSE [rt[n][k] EXCEPT !.state = "INVALID"]]]
  /\ UNCHANGED <<seq, neigh, nroute, timer, task, rreq, rrep, rerr>>

Next ==
  \E n \in Node :
    \/ \E f \in Flow : GenRreq(n, f) \/ GenRrep(n, f)
    \/ \E f \in Flow : f.dst = n /\ FireRrepTimer(f)
    \/ \E m \in rreq : DropRreq(n, m) \/ AnswerRreq(n, m) \/ ForwardRreq(n, m)
    \/ \E m \in rrep : DropRrep(n, m) \/ FinishRrep(n, m) \/ ForwardRrep(n, m)
    \/ \E m \in rerr : RecvRerr(n, m)
    \/ \E x \in Node : NewNeigh(n, x) \/ DeleteNeigh(n, x)
    \/ \E due \in SUBSET Key : Flush(n, due)

Spec == Init /\ [][Next]_vars

(* The threads keep emptying their queues and the timers keep firing.       *)
FairSpec ==
  /\ Spec
  /\ WF_vars(\E n \in Node, m \in rreq :
               DropRreq(n, m) \/ AnswerRreq(n, m) \/ ForwardRreq(n, m))
  /\ WF_vars(\E n \in Node, m \in rrep :
               DropRrep(n, m) \/ FinishRrep(n, m) \/ ForwardRrep(n, m))
  /\ WF_vars(\E f \in Flow : FireRrepTimer(f))
  /\ WF_vars(\E n \in Node, f \in Flow : GenRrep(n, f))
-----------------------------------------------------------------------------
(* Every variable has its type.                                            *)
TypeOK ==
  /\ seq \in [Node -> Nat]
  /\ rt \in [Node -> [Key -> Entry]]
  /\ neigh \in [Node -> SUBSET Node]
  /\ nroute \in [Node -> SUBSET (Node \X Nat)]
  /\ timer \subseteq Flow /\ task \subseteq Flow
  /\ rreq \subseteq Rreq /\ rrep \subseteq Rrep /\ rerr \subseteq Rerr

Present(n, k) == rt[n][k].state # "none"

\* The ids carried by entries and messages were issued by the destination of
\* the route they are about.
IssuedIds ==
  /\ \A n \in Node, k \in Key : Present(n, k) => rt[n][k].id <= seq[k.dst]
  /\ \A m \in rreq : m.id <= seq[m.flow.src]
  /\ \A m \in rrep : m.id <= seq[m.flow.dst] /\ m.src_id <= seq[m.flow.src]

\* Some entry or message names the route of k by this id.
Named(k, id) ==
  \/ \E n \in Node : Present(n, k) /\ rt[n][k].id = id
  \/ \E m \in rreq : Rev(m.flow) = k /\ m.id = id
  \/ \E m \in rrep : \/ m.flow = k /\ m.id = id
                     \/ Rev(m.flow) = k /\ m.src_id = id

(* find_aodv_route_by_id ignores src and tos (aodv_route.c:549), which is   *)
(* harmless for the routes of flows: an id of a destination, wherever it   *)
(* turns up, stands for one route only and was issued by that destination. *)
IdNamesRoute ==
  /\ IssuedIds
  /\ \A k, j \in Key : k.dst = j.dst =>
       \A id \in 0 .. seq[k.dst] : Named(k, id) /\ Named(j, id) => k = j

\* Entry d is nearer to, or heard later from, the destination than entry e.
Fresher(d, e) == d.id > e.id \/ (d.id = e.id /\ d.metric < e.metric)

(* The next hop of an entry, if it has an entry for the same flow, has a   *)
(* fresher one: what the tests of rreq_aodv_route (aodv_route.c:391-398)   *)
(* are for, in spite of reordered, repeated and lost messages, of routes   *)
(* revived or removed, and of the metric a RREP leaves (rrep.c:216).       *)
NextHopFresher ==
  \A n \in Node, k \in Key :
    LET x == rt[n][k].next
    IN Present(n, k) /\ x # k.dst =>
         x \in Node /\ (Present(x, k) => Fresher(rt[x][k], rt[n][k]))

(* No packet of a flow can circle: in every set of nodes that have a route *)
(* for the flow, one leads out of the set.                                 *)
LoopFree ==
  \A k \in Key : \A S \in SUBSET Node :
    S # {} => \E n \in S : ~ (Present(n, k) /\ rt[n][k].next \in S)

(* rrep.c:216 subtracts two unsigned metrics: what is left is the length   *)
(* of a real path, never zero and never wrapped around.                    *)
MetricPositive ==
  /\ \A n \in Node, k \in Key : Present(n, k) => rt[n][k].metric > 0
  /\ \A m \in rrep : m.metric > 0

\* What a step leaves of the entry of n for k: it changes for a fresher one
\* only, it goes when no message could bring back what it said, and it is made
\* for a flood that is not over.
RouteRenewed(n, k) ==
  LET e == rt[n][k]
      new == rt'[n][k]
  IN IF Present(n, k)
     THEN IF Present(n, k)'
          THEN \/ Fresher(new, e)
               \/ new.id = e.id /\ new.metric = e.metric /\ new.next = e.next
          ELSE FloodOver(k, e.id)
     ELSE Present(n, k)' => ~ FloodOver(k, new.id)

RoutesRenewed ==
  /\ \A n \in Node, k \in Key : RouteRenewed(n, k)
  /\ \A k \in Key : \A id \in 0 .. seq[k.dst] :
       FloodOver(k, id) => FloodOver(k, id)'

(* A node never goes back to an older route, not even after it forgot the  *)
(* one it had: the tests of rreq_aodv_route (aodv_route.c:391-398) see only *)
(* the entry that is there, so what protects a removed one is that its     *)
(* flood is over when flush_aodv_route_table (aodv_route.c:184-192) drops  *)
(* it, and that a flood that is over never starts again.                   *)
NoOlderRoute == [][RoutesRenewed]_vars

\* From its source, valid next hops lead to the destination of the flow.
Connected(f) ==
  \E S \in SUBSET Node :
    /\ {f.src, f.dst} \subseteq S
    /\ \A n \in S \ {f.dst} : rt[n][f].state = "VALID" /\ rt[n][f].next \in S

(* With a radio that loses nothing and neighbours that stay, a RREQ under  *)
(* way ends with a complete path from the source of the flow to its        *)
(* destination (rreq.c, rrep.c).                                           *)
DiscoveryEnds ==
  \A f \in Flow : (\E m \in rreq : m.flow = f) ~> Connected(f)
-----------------------------------------------------------------------------
(* What makes NextHopFresher inductive.                                    *)

\* x may cause an entry for k with this id and metric: it is the destination
\* or has a fresher entry itself.
Offers(x, k, id, metric) ==
  \/ x = k.dst
  \/ Present(x, k) /\ Fresher(rt[x][k], [id |-> id, metric |-> metric])

\* The least metric of an entry through x.
Least(x, k) == IF x = k.dst THEN 1 ELSE 2

\* An entry whose next hop has lost its own is safe as long as nothing older
\* can reach the next hop.
SoundEntry(n, k) ==
  LET e == rt[n][k]
  IN /\ n # k.dst /\ e.next \in Node /\ e.next # k.src
     /\ e.metric >= Least(e.next, k)
     /\ e.next # k.dst => IF Present(e.next, k) THEN Fresher(rt[e.next][k], e)
                          ELSE FloodOver(k, e.id)

SoundRreq(m) ==
  LET k == Rev(m.flow)
  IN /\ m.from # k.src
     /\ m.hops + 1 >= Least(m.from, k)
     /\ Offers(m.from, k, m.id, m.hops + 1)

\* The receiver of a RREP subtracts the metric of the entry it finds for the
\* RREQ: its own, unless that has moved on to a newer RREQ, or 1 if it finds
\* a neighbour entry.
SoundRrep(m) ==
  LET k == m.flow
      e == rt[m.to][Rev(k)]
      Allows(metric) == /\ metric >= Least(m.from, k)
                        /\ Offers(m.from, k, m.id, metric)
  IN /\ m.from # k.src /\ m.to # k.dst
     /\ Allows(m.metric)
     /\ m.to # k.src =>
          /\ Allows(m.metric - 1)
          /\ IF Present(m.to, Rev(k))
             THEN \/ e.id > m.src_id
                  \/ e.id = m.src_id /\ Allows(m.metric - e.metric)
             ELSE FloodOver(Rev(k), m.src_id)

IndInv ==
  /\ TypeOK
  /\ IdNamesRoute
  /\ \A n \in Node, k \in Key : Present(n, k) => SoundEntry(n, k)
  /\ \A m \in rreq : SoundRreq(m)
  /\ \A m \in rrep : SoundRrep(m)
=============================================================================
