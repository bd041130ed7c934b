------------------------ MODULE RouteDiscoveryProofs ------------------------
(***************************************************************************)
(* What is proved about RouteDiscovery, for every mesh, every set of flows *)
(* and every bound.                                                        *)
(***************************************************************************)
EXTENDS RouteDiscovery, WellFoundedInduction, TLAPS

(* A key is a flow or the reverse of one, and reversing twice changes      *)
(* nothing.                                                                *)
LEMMA KeyFacts ==
  /\ Flow \subseteq Key
  /\ Key \subseteq [src : Node, dst : Node, tos : Tos]
  /\ \A k \in Key : k.src # k.dst
  /\ \A k \in Key : Rev(k) \in Key /\ Rev(Rev(k)) = k
  /\ \A f \in Flow : Rev(f) \in Key
  /\ \A k \in Key : Rev(k).src = k.dst /\ Rev(k).dst = k.src
                    /\ Rev(k).tos = k.tos
<1>1. Flow \subseteq [src : Node, dst : Node, tos : Tos]
      /\ \A f \in Flow : f.src # f.dst
  BY FlowAssumption
<1>2. \A f \in [src : Node, dst : Node, tos : Tos] :
        /\ Rev(f) \in [src : Node, dst : Node, tos : Tos]
        /\ Rev(Rev(f)) = f
        /\ Rev(f).src = f.dst /\ Rev(f).dst = f.src /\ Rev(f).tos = f.tos
  BY DEF Rev
<1>3. \A k \in Key : k \in Flow \/ \E f \in Flow : k = Rev(f)
  BY DEF Key
<1>4. \A f \in Flow : f \in Key /\ Rev(f) \in Key
  BY DEF Key
<1>5. ASSUME NEW k \in Key
      PROVE /\ k \in [src : Node, dst : Node, tos : Tos] /\ k.src # k.dst
            /\ Rev(k) \in Key
  <2>1. CASE k \in Flow
    BY <2>1, <1>1, <1>4
  <2>2. CASE \E f \in Flow : k = Rev(f)
    <3>1. PICK f \in Flow : k = Rev(f)
      BY <2>2
    <3>2. f \in [src : Node, dst : Node, tos : Tos] /\ f.src # f.dst
      BY <1>1
    <3>3. Rev(k) = f /\ k.src = f.dst /\ k.dst = f.src
      BY <3>1, <3>2, <1>2
    <3>4. k \in [src : Node, dst : Node, tos : Tos]
      BY <3>1, <3>2, <1>2
    <3>. QED
      BY <3>2, <3>3, <3>4, <1>4
  <2>. QED
    BY <2>1, <2>2, <1>3
<1>. QED
  BY <1>1, <1>2, <1>4, <1>5
-----------------------------------------------------------------------------
(* Types.                                                                  *)

LEMMA NoEntryType == NoEntry \in Entry
BY DEF NoEntry, Entry, State

(* The two functions that write an entry return a table.                   *)
LEMMA RreqRouteType ==
  ASSUME NEW tbl \in [Key -> Entry], NEW k \in Key, NEW hop \in Node,
         NEW id \in Nat, NEW metric \in Int
  PROVE  RreqRoute(tbl, k, hop, id, metric) \in [Key -> Entry]
<1>1. k.src \in Node
  BY KeyFacts
<1>2. tbl[k] \in Entry
  OBVIOUS
<1>3. [id |-> id, metric |-> metric, next |-> hop, state |-> "VALID",
       last |-> IF tbl[k].state = "none" THEN k.src ELSE tbl[k].last] \in Entry
  BY <1>1, <1>2 DEF Entry, State
<1>. QED
  BY <1>3 DEF RreqRoute

LEMMA RrepRouteType ==
  ASSUME NEW tbl \in [Key -> Entry], NEW p \in Key \cup {NeighEntry},
         NEW hop \in Node \cup {NoNode}
  PROVE  RrepRoute(tbl, p, hop) \in [Key -> Entry]
<1>1. CASE p = NeighEntry
  BY <1>1 DEF RrepRoute
<1>2. CASE p # NeighEntry
  <2>1. p \in Key /\ tbl[p] \in Entry
    BY <1>2
  <2>2. [tbl[p] EXCEPT !.state = "VALID", !.last = hop] \in Entry
    BY <2>1 DEF Entry, State
  <2>3. RrepRoute(tbl, p, hop)
          = [tbl EXCEPT ![p] = [tbl[p] EXCEPT !.state = "VALID", !.last = hop]]
    BY <1>2, <2>1 DEF RrepRoute, Entry
  <2>. QED
    BY <2>1, <2>2, <2>3
<1>. QED
  BY <1>1, <1>2

(* What is sent is among what the handler wanted to send, and a unicast    *)
(* goes to a neighbour.                                                    *)
LEMMA UnicastSent ==
  ASSUME NEW nbrs, NEW msgs, NEW sent \in Unicast(nbrs, msgs), NEW m \in sent
  PROVE  m \in msgs /\ m.to \in nbrs
BY DEF Unicast, Air

LEMMA BroadcastSent ==
  ASSUME NEW n \in Node, NEW f, NEW id, NEW hops, NEW ttl,
         NEW copies \in Broadcast(n, f, id, hops, ttl), NEW m \in copies
  PROVE  \E x \in Node : m = [from |-> n, to |-> x, flow |-> f, id |-> id,
                              hops |-> hops, ttl |-> ttl]
BY DEF Broadcast, Air

LEMMA BroadcastType ==
  ASSUME NEW n \in Node, NEW f \in Flow, NEW id \in Nat, NEW hops \in Nat,
         NEW ttl \in Nat, NEW copies \in Broadcast(n, f, id, hops, ttl)
  PROVE  copies \subseteq Rreq
BY BroadcastSent DEF Rreq

LEMMA ByIdType ==
  ASSUME NEW n, NEW tbl, NEW d, NEW id, NEW k \in ById(n, tbl, d, id)
  PROVE  /\ k \in Key \cup {NeighEntry}
         /\ k \in Key => tbl[k].state # "none" /\ k.dst = d /\ tbl[k].id = id
BY NullAssumption DEF ById

LEMMA NextHopType ==
  ASSUME NEW tbl \in [Key -> Entry], NEW p \in Key \cup {NeighEntry}
  PROVE  NextHop(tbl, p) \in Node \cup {NoNode} /\ Metric(tbl, p) \in Int
<1>1. CASE p = NeighEntry
  BY <1>1 DEF NextHop, Metric
<1>2. CASE p # NeighEntry
  <2>1. tbl[p] \in Entry
    BY <1>2
  <2>. QED
    BY <1>2, <2>1 DEF NextHop, Metric, Entry
<1>. QED
  BY <1>1, <1>2

LEMMA InvalidateType ==
  ASSUME NEW tbl \in [Key -> Entry], NEW ks
  PROVE  Invalidate(tbl, ks) \in [Key -> Entry]
<1>1. ASSUME NEW k \in Key
      PROVE  [tbl[k] EXCEPT !.state = "INVALID"] \in Entry /\ tbl[k] \in Entry
  BY DEF Entry, State
<1>. QED
  BY <1>1 DEF Invalidate

LEMMA TypeInit == Init => TypeOK
<1>. SUFFICES ASSUME Init PROVE TypeOK
  OBVIOUS
<1>1. neigh \in [Node -> SUBSET Node]
  BY DEF Init
<1>2. \A n \in Node : neigh[n] \X {1} \subseteq Node \X Nat
  BY <1>1
<1>3. nroute = [n \in Node |-> neigh[n] \X {1}]
  BY DEF Init
<1>4. nroute \in [Node -> SUBSET (Node \X Nat)]
  BY <1>2, <1>3
<1>. QED
  BY <1>1, <1>4, NoEntryType DEF Init, TypeOK

LEMMA TypeStep == TypeOK /\ [Next]_vars => TypeOK'
<1>. SUFFICES ASSUME TypeOK, [Next]_vars PROVE TypeOK'
  OBVIOUS
<1>. USE DEF TypeOK
<1>1. ASSUME NEW n \in Node, NEW f \in Flow, GenRreq(n, f) PROVE TypeOK'
  <2>1. PICK copies \in Broadcast(n, f, seq[n] + 1, 0, NetDiameter) :
          rreq' = rreq \cup copies
    BY <1>1 DEF GenRreq
  <2>2. copies \subseteq Rreq
    BY <2>1, BroadcastType, BoundAssumption
  <2>. QED
    BY <1>1, <2>1, <2>2 DEF GenRreq
<1>2. ASSUME NEW n \in Node, NEW f \in Flow, GenRrep(n, f) PROVE TypeOK'
  <2>. DEFINE k == Rev(f)
              e == rt[n][k]
              m == [from |-> n, to |-> e.next, flow |-> f, id |-> seq[n] + 1,
                    src_id |-> e.id, metric |-> e.metric]
  <2>1. k \in Key /\ e \in Entry
    BY KeyFacts
  <2>2. CASE e.state = "none"
    BY <1>2, <2>2 DEF GenRrep
  <2>3. CASE e.state # "none"
    <3>1. /\ task' = task \ {f}
          /\ seq' = [seq EXCEPT ![n] = @ + 1]
          /\ rt' = [rt EXCEPT ![n] = RrepRoute(@, k, n)]
          /\ \E sent \in Unicast(neigh[n], {m}) : rrep' = rrep \cup sent
          /\ UNCHANGED <<neigh, nroute, timer, rreq, rerr>>
      BY <1>2, <2>3 DEF GenRrep
    <3>2. PICK sent \in Unicast(neigh[n], {m}) : rrep' = rrep \cup sent
      BY <3>1
    <3>3. ASSUME NEW x \in sent PROVE x \in Rrep
      <4>1. x = m /\ x.to \in Node
        BY <3>2, UnicastSent
      <4>. QED
        BY <4>1, <2>1 DEF Rrep, Entry
    <3>4. RrepRoute(rt[n], k, n) \in [Key -> Entry]
      BY <2>1, RrepRouteType
    <3>. QED
      BY <3>1, <3>2, <3>3, <3>4
  <2>. QED
    BY <2>2, <2>3
<1>3. ASSUME NEW n \in Node, NEW f \in Flow, FireRrepTimer(f) PROVE TypeOK'
  BY <1>3 DEF FireRrepTimer
<1>4. ASSUME NEW n \in Node, NEW m \in rreq, InstallReverse(n, m)
      PROVE  rt' \in [Node -> [Key -> Entry]]
  <2>1. m \in Rreq /\ Rev(m.flow) \in Key /\ m.from \in Node /\ m.id \in Nat
        /\ m.hops + 1 \in Int
    BY KeyFacts DEF Rreq
  <2>2. RreqRoute(rt[n], Rev(m.flow), m.from, m.id, m.hops + 1)
          \in [Key -> Entry]
    BY <2>1, RreqRouteType
  <2>. QED
    BY <1>4, <2>2 DEF InstallReverse
<1>5. ASSUME NEW n \in Node, NEW m \in rreq, DropRreq(n, m) PROVE TypeOK'
  BY <1>5 DEF DropRreq
<1>6. ASSUME NEW n \in Node, NEW m \in rreq, AnswerRreq(n, m) PROVE TypeOK'
  <2>1. m.flow \in Flow
    BY DEF Rreq
  <2>. QED
    BY <1>4, <1>6, <2>1 DEF AnswerRreq
<1>7. ASSUME NEW n \in Node, NEW m \in rreq, ForwardRreq(n, m) PROVE TypeOK'
  <2>1. m \in Rreq
    OBVIOUS
  <2>2. PICK copies \in Broadcast(n, m.flow, m.id, m.hops + 1, m.ttl - 1) :
          rreq' = (rreq \ {m}) \cup copies
    BY <1>7 DEF ForwardRreq
  <2>3. m.ttl - 1 \in Nat /\ m.hops + 1 \in Nat /\ m.flow \in Flow /\ m.id \in Nat
    BY <1>7, <2>1 DEF ForwardRreq, UsefulRreq, Rreq
  <2>4. copies \subseteq Rreq
    BY <2>2, <2>3, BroadcastType
  <2>. QED
    BY <1>4, <1>7, <2>2, <2>4 DEF ForwardRreq
<1>8. ASSUME NEW n \in Node, NEW m \in rrep, DropRrep(n, m) PROVE TypeOK'
  BY <1>8 DEF DropRrep
<1>9. ASSUME NEW n \in Node, NEW m \in rrep, FinishRrep(n, m) PROVE TypeOK'
  <2>. DEFINE k == m.flow
              tbl == RreqRoute(rt[n], k, m.from, m.id, m.metric)
              found == ById(n, tbl, k.dst, m.id)
  <2>1. m \in Rrep /\ k \in Key
    BY KeyFacts DEF Rrep
  <2>2. tbl \in [Key -> Entry]
    BY <2>1, RreqRouteType DEF Rrep
  <2>3. ASSUME NEW p \in found PROVE RrepRoute(tbl, p, n) \in [Key -> Entry]
    <3>1. p \in Key \cup {NeighEntry}
      BY ByIdType
    <3>. HIDE DEF tbl
    <3>. QED
      BY <2>2, <3>1, RrepRouteType
  <2>4. \/ rt' = [rt EXCEPT ![n] = tbl]
        \/ \E p \in found : rt' = [rt EXCEPT ![n] = RrepRoute(tbl, p, n)]
    BY <1>9 DEF FinishRrep
  <2>5. rt' \in [Node -> [Key -> Entry]]
    BY <2>2, <2>3, <2>4
  <2>. QED
    BY <1>9, <2>5 DEF FinishRrep
<1>10. ASSUME NEW n \in Node, NEW m \in rrep, ForwardRrep(n, m) PROVE TypeOK'
  <2>0. PICK r \in ById(n, rt[n], m.flow.src, m.src_id) :
          LET k == m.flow
              tbl == RreqRoute(rt[n], k, m.from, m.id,
                               m.metric - Metric(rt[n], r))
              found == ById(n, tbl, k.dst, m.id)
              onward == [m EXCEPT !.from = n, !.to = NextHop(tbl, r)]
          IN \/ /\ found = {}
                /\ rt' = [rt EXCEPT ![n] = tbl]
                /\ rrep' = rrep \ {m}
             \/ \E s \in found :
                  /\ rt' = [rt EXCEPT ![n] =
                              RrepRoute(RrepRoute(tbl, s, NextHop(tbl, r)),
                                        r, NextHop(tbl, s))]
                  /\ \E sent \in Unicast(neigh[n], {onward}) :
                        rrep' = (rrep \ {m}) \cup sent
    BY <1>10 DEF ForwardRrep
  <2>. DEFINE k == m.flow
              tbl == RreqRoute(rt[n], k, m.from, m.id,
                               m.metric - Metric(rt[n], r))
              found == ById(n, tbl, k.dst, m.id)
              onward == [m EXCEPT !.from = n, !.to = NextHop(tbl, r)]
  <2>1. m \in Rrep /\ k \in Key
    BY KeyFacts DEF Rrep
  <2>2. r \in Key \cup {NeighEntry} /\ rt[n] \in [Key -> Entry]
    BY ByIdType
  <2>3. Metric(rt[n], r) \in Int
    BY <2>2, NextHopType
  <2>4. tbl \in [Key -> Entry]
    <3>1. /\ m.from \in Node /\ m.id \in Nat
          /\ m.metric - Metric(rt[n], r) \in Int
      BY <2>1, <2>3 DEF Rrep
    <3>. QED
      BY <2>1, <2>2, <3>1, RreqRouteType
  <2>5. CASE rt' = [rt EXCEPT ![n] = tbl] /\ rrep' = rrep \ {m}
    BY <1>10, <2>4, <2>5 DEF ForwardRrep
  <2>6. ASSUME NEW p \in found,
               rt' = [rt EXCEPT ![n] =
                        RrepRoute(RrepRoute(tbl, p, NextHop(tbl, r)),
                                  r, NextHop(tbl, p))],
               NEW sent \in Unicast(neigh[n], {onward}),
               rrep' = (rrep \ {m}) \cup sent
        PROVE  TypeOK'
    <3>1. p \in Key \cup {NeighEntry}
      BY ByIdType
    <3>2. NextHop(tbl, r) \in Node \cup {NoNode}
          /\ NextHop(tbl, p) \in Node \cup {NoNode}
      BY <2>2, <2>4, <3>1, NextHopType
    <3>3. RrepRoute(tbl, p, NextHop(tbl, r)) \in [Key -> Entry]
      BY <2>4, <3>1, <3>2, RrepRouteType
    <3>4. RrepRoute(RrepRoute(tbl, p, NextHop(tbl, r)), r, NextHop(tbl, p))
            \in [Key -> Entry]
      BY <2>2, <3>2, <3>3, RrepRouteType
    <3>5. ASSUME NEW x \in sent PROVE x \in Rrep
      <4>1. x = onward /\ x.to \in Node
        BY UnicastSent
      <4>2. /\ x.from = n /\ x.flow = m.flow /\ x.id = m.id
            /\ x.src_id = m.src_id /\ x.metric = m.metric
            /\ x = [from |-> x.from, to |-> x.to, flow |-> x.flow,
                    id |-> x.id, src_id |-> x.src_id, metric |-> x.metric]
        BY <4>1, <2>1 DEF Rrep
      <4>. QED
        BY <4>1, <4>2, <2>1 DEF Rrep
    <3>. QED
      BY <1>10, <2>6, <3>4, <3>5 DEF ForwardRrep
  <2>. QED
    BY <2>0, <2>5, <2>6
<1>11. ASSUME NEW n \in Node, NEW m \in rerr, RecvRerr(n, m) PROVE TypeOK'
  <2>. DEFINE hit == {k \in Key \cap ById(n, rt[n], m.dst, m.id) :
                        rt[n][k].next = m.from}
              onward(k) == IF k.src # n /\ rt[n][k].state = "VALID"
                           THEN {[m EXCEPT !.from = n, !.to = rt[n][k].last]}
                           ELSE {}
  <2>1. \/ rerr' = rerr \ {m} /\ UNCHANGED rt
        \/ \E k \in hit :
             /\ rt' = [rt EXCEPT ![n] = Invalidate(@, {k})]
             /\ \E sent \in Unicast(neigh[n], onward(k)) :
                   rerr' = (rerr \ {m}) \cup sent
    BY <1>11 DEF RecvRerr
  <2>2. CASE rerr' = rerr \ {m} /\ UNCHANGED rt
    BY <1>11, <2>2 DEF RecvRerr
  <2>3. ASSUME NEW k \in hit, rt' = [rt EXCEPT ![n] = Invalidate(@, {k})],
               NEW sent \in Unicast(neigh[n], onward(k)),
               rerr' = (rerr \ {m}) \cup sent
        PROVE  TypeOK'
    <3>1. Invalidate(rt[n], {k}) \in [Key -> Entry]
      BY InvalidateType
    <3>2. ASSUME NEW x \in sent PROVE x \in Rerr
      <4>1. x = [m EXCEPT !.from = n, !.to = rt[n][k].last] /\ x.to \in Node
        BY UnicastSent
      <4>2. x.from = n /\ x.dst = m.dst /\ x.id = m.id
            /\ x = [from |-> x.from, to |-> x.to, dst |-> x.dst, id |-> x.id]
        BY <4>1 DEF Rerr
      <4>. QED
        BY <4>1, <4>2 DEF Rerr
    <3>. QED
      BY <1>11, <2>3, <3>1, <3>2 DEF RecvRerr
  <2>. QED
    BY <2>1, <2>2, <2>3
<1>12. ASSUME NEW n \in Node, NEW x \in Node, NewNeigh(n, x) PROVE TypeOK'
  BY <1>12 DEF NewNeigh
<1>13. ASSUME NEW n \in Node, NEW x \in Node, DeleteNeigh(n, x) PROVE TypeOK'
  <2>. DEFINE lost == {k \in Key : rt[n][k].state = "VALID"
                                   /\ rt[n][k].next = x}
              errors == {[from |-> n, to |-> rt[n][k].last, dst |-> k.dst,
                          id |-> rt[n][k].id] : k \in {j \in lost : j.src # n}}
  <2>1. PICK sent \in Unicast(neigh[n] \ {x}, errors) : rerr' = rerr \cup sent
    BY <1>13 DEF DeleteNeigh
  <2>2. ASSUME NEW y \in sent PROVE y \in Rerr
    <3>1. y \in errors /\ y.to \in Node
      BY <2>1, UnicastSent
    <3>2. PICK k \in Key : y = [from |-> n, to |-> rt[n][k].last,
                                dst |-> k.dst, id |-> rt[n][k].id]
      BY <3>1
    <3>3. rt[n][k].id \in Nat /\ k.dst \in Node
      BY KeyFacts DEF Entry
    <3>. QED
      BY <3>1, <3>2, <3>3 DEF Rerr
  <2>3. Invalidate(rt[n], lost) \in [Key -> Entry]
    BY InvalidateType
  <2>. QED
    BY <1>13, <2>1, <2>2, <2>3 DEF DeleteNeigh
<1>14. ASSUME NEW n \in Node, NEW due \in SUBSET Key, Flush(n, due) PROVE TypeOK'
  <2>1. ASSUME NEW k \in Key
        PROVE  rt[n][k] \in Entry /\ [rt[n][k] EXCEPT !.state = "INVALID"] \in Entry
    <3>1. rt[n][k] \in Entry
      OBVIOUS
    <3>. QED
      BY <3>1 DEF Entry, State
  <2>. DEFINE tbl == [k \in Key |->
                        IF k \notin due THEN rt[n][k]
                        ELSE IF rt[n][k].state = "INVALID" THEN NoEntry
                        ELSE [rt[n][k] EXCEPT !.state = "INVALID"]]
  <2>2. tbl \in [Key -> Entry]
    BY <2>1, NoEntryType
  <2>3. rt' = [rt EXCEPT ![n] = tbl]
    BY <1>14 DEF Flush
  <2>4. rt' \in [Node -> [Key -> Entry]]
    BY <2>2, <2>3
  <2>. QED
    BY <1>14, <2>4 DEF Flush
<1>15. CASE UNCHANGED vars
  BY <1>15 DEF vars
<1>. QED
  BY <1>1, <1>2, <1>3, <1>5, <1>6, <1>7, <1>8, <1>9, <1>10, <1>11, <1>12,
     <1>13, <1>14, <1>15 DEF Next

(* The tables, the neighbour lists and the messages have their types, and  *)
(* no message is ever addressed to the null address that a neighbour entry *)
(* leaves as next hop (rrep.c:261, rerr.c:301).                            *)
THEOREM TypeCorrect == Spec => []TypeOK
<1>. QED
  BY TypeInit, TypeStep, PTL DEF Spec
-----------------------------------------------------------------------------
(* What one step may do to the entries and the messages.                   *)

SameRoute(d, e) ==
  /\ d.id = e.id /\ d.metric = e.metric /\ d.next = e.next
  /\ d.state = "none" <=> e.state = "none"

\* Some message under way can write an entry for k with this id.
Carried(k, id) ==
  \/ \E m \in rreq : Rev(m.flow) = k /\ m.id = id
  \/ \E m \in rrep : m.flow = k /\ m.id = id

Kept(x, k) == SameRoute(rt'[x][k], rt[x][k])

Gone(x, k) ==
  Present(x, k) /\ ~ Present(x, k)' /\ FloodOver(k, rt[x][k].id)

Written(x, k) ==
  LET e == rt'[x][k]
  IN /\ Present(x, k)'
     /\ x # k.dst /\ e.next \in Node /\ e.next # k.src
     /\ e.metric >= Least(e.next, k)
     /\ Offers(e.next, k, e.id, e.metric)
     /\ Accepts(rt[x][k], e.id, e.metric)
     /\ Carried(k, e.id)

RouteStep == \A x \in Node, k \in Key : Kept(x, k) \/ Gone(x, k) \/ Written(x, k)

MessageStep ==
  /\ \A m \in rreq' : Carried(Rev(m.flow), m.id) \/ m.id > seq[m.flow.src]
  /\ \A m \in rrep' : Carried(m.flow, m.id) \/ m.id > seq[m.flow.dst]

\* An entry is replaced by a fresher or equal one, removed when its flood is
\* over, and appears by a message of a flood that is not over.
Grows ==
  \A x \in Node, k \in Key :
    /\ Present(x, k) =>
         IF Present(x, k)'
         THEN \/ rt'[x][k].id > rt[x][k].id
              \/ /\ rt'[x][k].id = rt[x][k].id
                 /\ rt'[x][k].metric <= rt[x][k].metric
         ELSE FloodOver(k, rt[x][k].id)
    /\ ~ Present(x, k) /\ Present(x, k)' => ~ FloodOver(k, rt'[x][k].id)

\* A flood that is over does not start again.
Hushed ==
  \A k \in Key : \A id \in Nat :
    id <= seq[k.dst] /\ FloodOver(k, id) => FloodOver(k, id)'

LEMMA EntryFields ==
  ASSUME NEW e \in Entry
  PROVE  e.id \in Nat /\ e.metric \in Int /\ e.next \in Node \cup {NoNode}
BY DEF Entry

LEMMA RreqFields ==
  ASSUME NEW m \in Rreq
  PROVE  /\ m.from \in Node /\ m.to \in Node /\ m.flow \in Flow
         /\ m.id \in Nat /\ m.hops \in Nat /\ m.ttl \in Nat
         /\ m.flow \in Key /\ Rev(m.flow) \in Key
         /\ m.flow.src \in Node /\ m.flow.dst \in Node
         /\ Rev(m.flow).src = m.flow.dst /\ Rev(m.flow).dst = m.flow.src
         /\ m.flow.src # m.flow.dst /\ Rev(Rev(m.flow)) = m.flow
<1>1. m.flow \in Key
  BY KeyFacts DEF Rreq
<1>. QED
  BY <1>1, KeyFacts DEF Rreq

LEMMA RrepFields ==
  ASSUME NEW m \in Rrep
  PROVE  /\ m.from \in Node /\ m.to \in Node /\ m.flow \in Flow
         /\ m.id \in Nat /\ m.src_id \in Nat /\ m.metric \in Int
         /\ m.flow \in Key /\ Rev(m.flow) \in Key
         /\ m.flow.src \in Node /\ m.flow.dst \in Node
         /\ Rev(m.flow).src = m.flow.dst /\ Rev(m.flow).dst = m.flow.src
         /\ m.flow.src # m.flow.dst /\ Rev(Rev(m.flow)) = m.flow
<1>1. m.flow \in Key
  BY KeyFacts DEF Rrep
<1>. QED
  BY <1>1, KeyFacts DEF Rrep

LEMMA CarriedFacts ==
  ASSUME TypeOK, NEW k \in Key, NEW id \in Nat, Carried(k, id)
  PROVE  Named(k, id) /\ ~ FloodOver(k, id)
<1>1. CASE \E m \in rreq : Rev(m.flow) = k /\ m.id = id
  BY <1>1 DEF Named, FloodOver
<1>2. CASE \E m \in rrep : m.flow = k /\ m.id = id
  BY <1>2 DEF Named, FloodOver
<1>. QED
  BY <1>1, <1>2 DEF Carried

\* FloodOver of an id is FloodOver of every smaller one.
LEMMA FloodOverDown ==
  ASSUME TypeOK, NEW k \in Key, NEW id \in Nat, NEW low \in Nat, low <= id,
         FloodOver(k, id)
  PROVE  FloodOver(k, low)
<1>1. rreq \subseteq Rreq /\ rrep \subseteq Rrep
  BY DEF TypeOK
<1>. QED
  BY <1>1, RreqFields, RrepFields DEF FloodOver

LEMMA RoutesGrow ==
  ASSUME TypeOK, TypeOK', RouteStep
  PROVE  Grows
<1>. SUFFICES ASSUME NEW x \in Node, NEW k \in Key
     PROVE  /\ Present(x, k) =>
                 IF Present(x, k)'
                 THEN \/ rt'[x][k].id > rt[x][k].id
                      \/ /\ rt'[x][k].id = rt[x][k].id
                         /\ rt'[x][k].metric <= rt[x][k].metric
                 ELSE FloodOver(k, rt[x][k].id)
            /\ ~ Present(x, k) /\ Present(x, k)' => ~ FloodOver(k, rt'[x][k].id)
  BY DEF Grows
<1>1. /\ rt[x][k].id \in Nat /\ rt[x][k].metric \in Int
      /\ rt'[x][k].id \in Nat /\ rt'[x][k].metric \in Int
  <2>1. rt[x][k] \in Entry /\ rt'[x][k] \in Entry
    BY DEF TypeOK
  <2>. QED
    BY <2>1, EntryFields
<1>2. CASE Kept(x, k)
  BY <1>1, <1>2 DEF Kept, SameRoute, Present
<1>3. CASE Gone(x, k)
  BY <1>3 DEF Gone
<1>4. CASE Written(x, k)
  <2>1. ~ FloodOver(k, rt'[x][k].id)
    BY <1>1, <1>4, CarriedFacts DEF Written
  <2>. QED
    BY <1>1, <1>4, <2>1 DEF Written, Accepts, Present
<1>. QED
  BY <1>2, <1>3, <1>4 DEF RouteStep

LEMMA FloodsHush ==
  ASSUME TypeOK, TypeOK', MessageStep
  PROVE  Hushed
<1>. SUFFICES ASSUME NEW k \in Key, NEW id \in Nat, id <= seq[k.dst],
                     FloodOver(k, id)
              PROVE  FloodOver(k, id)'
  BY DEF Hushed
<1>0. seq[k.dst] \in Nat
  BY KeyFacts DEF TypeOK
<1>1. ASSUME NEW i \in Nat, Carried(k, i) PROVE i > id
  BY <1>1, CarriedFacts, FloodOverDown
<1>2. ASSUME NEW m \in rreq', Rev(m.flow) = k PROVE m.id > id
  <2>1. m.id \in Nat /\ Rev(m.flow).dst = m.flow.src
    <3>1. m \in Rreq
      BY DEF TypeOK
    <3>. QED
      BY <3>1, RreqFields
  <2>2. Carried(k, m.id) \/ m.id > seq[k.dst]
    BY <1>2, <2>1 DEF MessageStep
  <2>. QED
    BY <1>0, <1>1, <2>1, <2>2
<1>3. ASSUME NEW m \in rrep', m.flow = k PROVE m.id > id
  <2>1. m.id \in Nat
    <3>1. m \in Rrep
      BY DEF TypeOK
    <3>. QED
      BY <3>1, RrepFields
  <2>2. Carried(k, m.id) \/ m.id > seq[k.dst]
    BY <1>3 DEF MessageStep
  <2>. QED
    BY <1>0, <1>1, <2>1, <2>2
<1>. QED
  BY <1>2, <1>3 DEF FloodOver
-----------------------------------------------------------------------------
(* Ids: nothing is named that was not named before, or one route takes the *)
(* next id of its destination.                                             *)

LEMMA NamedIssued ==
  ASSUME TypeOK
  PROVE  IssuedIds <=> \A k \in Key, id \in Nat :
                         Named(k, id) => id <= seq[k.dst]
<1>0. rreq \subseteq Rreq /\ rrep \subseteq Rrep
      /\ \A n \in Node, k \in Key : rt[n][k] \in Entry
  BY DEF TypeOK
<1>1. ASSUME IssuedIds, NEW k \in Key, NEW id \in Nat, Named(k, id)
      PROVE  id <= seq[k.dst]
  <2>1. CASE \E n \in Node : Present(n, k) /\ rt[n][k].id = id
    BY <1>1, <2>1 DEF IssuedIds
  <2>2. CASE \E m \in rreq : Rev(m.flow) = k /\ m.id = id
    BY <1>0, <1>1, <2>2, RreqFields DEF IssuedIds
  <2>3. CASE \E m \in rrep : \/ m.flow = k /\ m.id = id
                             \/ Rev(m.flow) = k /\ m.src_id = id
    BY <1>0, <1>1, <2>3, RrepFields DEF IssuedIds
  <2>. QED
    BY <1>1, <2>1, <2>2, <2>3 DEF Named
<1>2. ASSUME \A k \in Key, id \in Nat : Named(k, id) => id <= seq[k.dst]
      PROVE  IssuedIds
  <2>1. ASSUME NEW n \in Node, NEW k \in Key, Present(n, k)
        PROVE  rt[n][k].id <= seq[k.dst]
    <3>1. rt[n][k].id \in Nat
      BY <1>0, EntryFields
    <3>. QED
      BY <1>2, <2>1, <3>1 DEF Named
  <2>2. ASSUME NEW m \in rreq PROVE m.id <= seq[m.flow.src]
    <3>1. m.id \in Nat /\ Rev(m.flow) \in Key /\ Rev(m.flow).dst = m.flow.src
      BY <1>0, RreqFields
    <3>2. Named(Rev(m.flow), m.id)
      BY DEF Named
    <3>. QED
      BY <1>2, <3>1, <3>2
  <2>3. ASSUME NEW m \in rrep
        PROVE  m.id <= seq[m.flow.dst] /\ m.src_id <= seq[m.flow.src]
    <3>1. /\ m.id \in Nat /\ m.src_id \in Nat /\ m.flow \in Key
          /\ Rev(m.flow) \in Key /\ Rev(m.flow).dst = m.flow.src
      BY <1>0, RrepFields
    <3>2. Named(m.flow, m.id) /\ Named(Rev(m.flow), m.src_id)
      BY DEF Named
    <3>. QED
      BY <1>2, <3>1, <3>2
  <2>. QED
    BY <2>1, <2>2, <2>3 DEF IssuedIds
<1>. QED
  BY <1>1, <1>2

\* IdNamesRoute without the bound on the id.
UniqueIds ==
  /\ \A k \in Key, id \in Nat : Named(k, id) => id <= seq[k.dst]
  /\ \A k, j \in Key, id \in Nat :
       k.dst = j.dst /\ Named(k, id) /\ Named(j, id) => k = j

LEMMA IdNamesUnique ==
  ASSUME TypeOK
  PROVE  IdNamesRoute <=> UniqueIds
<1>1. \A k \in Key : seq[k.dst] \in Nat
  BY KeyFacts DEF TypeOK
<1>. QED
  BY <1>1, NamedIssued DEF IdNamesRoute, UniqueIds

LEMMA IdNamesUniqueNext == TypeOK' => (IdNamesRoute' <=> UniqueIds')
<1>1. TypeOK => (IdNamesRoute <=> UniqueIds)
  BY IdNamesUnique
<1>. QED
  BY <1>1, PTL

LEMMA NoNewName ==
  ASSUME TypeOK, UniqueIds, seq' = seq,
         \A k \in Key, id \in Nat : Named(k, id)' => Named(k, id)
  PROVE  UniqueIds'
BY DEF UniqueIds

LEMMA OneNewName ==
  ASSUME TypeOK, UniqueIds, NEW new \in Key,
         seq' = [seq EXCEPT ![new.dst] = @ + 1],
         \A k \in Key, id \in Nat :
           Named(k, id)' => Named(k, id) \/ (k = new /\ id = seq[new.dst] + 1)
  PROVE  UniqueIds'
<1>1. new.dst \in Node /\ \A k \in Key : k.dst \in Node /\ seq[k.dst] \in Nat
  BY KeyFacts DEF TypeOK
<1>2. \A k \in Key : /\ seq[k.dst] <= seq'[k.dst]
                     /\ k.dst = new.dst => seq'[k.dst] = seq[new.dst] + 1
  BY <1>1 DEF TypeOK
<1>3. ASSUME NEW k \in Key, NEW id \in Nat, Named(k, id)'
      PROVE  id <= seq'[k.dst]
  <2>1. CASE Named(k, id)
    <3>1. id <= seq[k.dst] /\ seq'[k.dst] \in Nat
      BY <1>1, <2>1 DEF UniqueIds, TypeOK
    <3>. QED
      BY <1>1, <1>2, <3>1
  <2>2. CASE k = new /\ id = seq[new.dst] + 1
    BY <1>1, <1>2, <2>2
  <2>. QED
    BY <1>3, <2>1, <2>2
<1>4. ASSUME NEW k \in Key, NEW j \in Key, NEW id \in Nat, k.dst = j.dst,
             Named(k, id)', Named(j, id)'
      PROVE  k = j
  <2>1. CASE Named(k, id) /\ Named(j, id)
    BY <1>4, <2>1 DEF UniqueIds
  <2>2. CASE k = new /\ id = seq[new.dst] + 1
    <3>1. ~ Named(j, id)
      BY <1>1, <1>4, <2>2 DEF UniqueIds
    <3>. QED
      BY <1>4, <2>2, <3>1
  <2>3. CASE j = new /\ id = seq[new.dst] + 1
    <3>1. ~ Named(k, id)
      BY <1>1, <1>4, <2>3 DEF UniqueIds
    <3>. QED
      BY <1>4, <2>3, <3>1
  <2>. QED
    BY <1>4, <2>1, <2>2, <2>3
<1>. QED
  BY <1>3, <1>4 DEF UniqueIds
-----------------------------------------------------------------------------
(* Soundness survives a step.                                              *)

LEMMA KeptOffer ==
  ASSUME TypeOK, TypeOK', Grows, NEW x \in Node, NEW k \in Key,
         NEW id \in Nat, NEW metric \in Int,
         Offers(x, k, id, metric), Carried(k, id)
  PROVE  Offers(x, k, id, metric)'
<1>. SUFFICES ASSUME x # k.dst PROVE Offers(x, k, id, metric)'
  BY DEF Offers
<1>1. rt[x][k] \in Entry /\ rt'[x][k] \in Entry
  BY DEF TypeOK
<1>2. /\ rt[x][k].id \in Nat /\ rt[x][k].metric \in Int
      /\ rt'[x][k].id \in Nat /\ rt'[x][k].metric \in Int
  BY <1>1, EntryFields
<1>3. Present(x, k)
      /\ \/ rt[x][k].id > id
         \/ rt[x][k].id = id /\ rt[x][k].metric < metric
  BY DEF Offers, Fresher
<1>4. ~ FloodOver(k, rt[x][k].id)
  BY <1>2, <1>3, CarriedFacts, FloodOverDown
<1>5. /\ Present(x, k)'
      /\ \/ rt'[x][k].id > rt[x][k].id
         \/ rt'[x][k].id = rt[x][k].id /\ rt'[x][k].metric <= rt[x][k].metric
  BY <1>3, <1>4 DEF Grows
<1>6. \/ rt'[x][k].id > id
      \/ rt'[x][k].id = id /\ rt'[x][k].metric < metric
  BY <1>2, <1>3, <1>5
<1>. QED
  BY <1>5, <1>6 DEF Offers, Fresher

\* The part of SoundEntry about the next hop, with rigid x, id and metric.
LEMMA KeptNext ==
  ASSUME TypeOK, TypeOK', Grows, Hushed,
         NEW x \in Node, NEW k \in Key, NEW id \in Nat, NEW metric \in Int,
         id <= seq[k.dst],
         IF Present(x, k)
         THEN Fresher(rt[x][k], [id |-> id, metric |-> metric])
         ELSE FloodOver(k, id)
  PROVE  IF Present(x, k)'
         THEN Fresher(rt'[x][k], [id |-> id, metric |-> metric])
         ELSE FloodOver(k, id)'
<1>1. rt[x][k] \in Entry /\ rt'[x][k] \in Entry
  BY DEF TypeOK
<1>2. /\ rt[x][k].id \in Nat /\ rt[x][k].metric \in Int
      /\ rt'[x][k].id \in Nat /\ rt'[x][k].metric \in Int
  BY <1>1, EntryFields
<1>3. FloodOver(k, id) => FloodOver(k, id)'
  BY DEF Hushed
<1>4. CASE Present(x, k) /\ Present(x, k)'
  <2>1. \/ rt[x][k].id > id
        \/ rt[x][k].id = id /\ rt[x][k].metric < metric
    BY <1>4 DEF Fresher
  <2>2. \/ rt'[x][k].id > rt[x][k].id
        \/ rt'[x][k].id = rt[x][k].id /\ rt'[x][k].metric <= rt[x][k].metric
    BY <1>4 DEF Grows
  <2>3. \/ rt'[x][k].id > id
        \/ rt'[x][k].id = id /\ rt'[x][k].metric < metric
    BY <1>2, <2>1, <2>2
  <2>. QED
    BY <1>4, <2>3 DEF Fresher
<1>5. CASE Present(x, k) /\ ~ Present(x, k)'
  <2>1. rt[x][k].id >= id
    BY <1>2, <1>5 DEF Fresher
  <2>2. FloodOver(k, rt[x][k].id)
    BY <1>5 DEF Grows
  <2>. QED
    BY <1>2, <1>3, <1>5, <2>1, <2>2, FloodOverDown
<1>6. CASE ~ Present(x, k) /\ Present(x, k)'
  <2>1. FloodOver(k, id) /\ ~ FloodOver(k, rt'[x][k].id)
    BY <1>6 DEF Grows
  <2>2. rt'[x][k].id > id
    BY <1>2, <2>1, FloodOverDown
  <2>. QED
    BY <1>6, <2>2 DEF Fresher
<1>7. CASE ~ Present(x, k) /\ ~ Present(x, k)'
  BY <1>3, <1>7
<1>. QED
  BY <1>4, <1>5, <1>6, <1>7

LEMMA KeptEntry ==
  ASSUME TypeOK, TypeOK', UniqueIds, Grows, Hushed,
         NEW n \in Node, NEW k \in Key,
         Present(n, k), SoundEntry(n, k), Kept(n, k)
  PROVE  SoundEntry(n, k)'
<1>1. rt[n][k] \in Entry
  BY DEF TypeOK
<1>2. PICK id \in Nat : id = rt[n][k].id
  BY <1>1, EntryFields
<1>3. PICK metric \in Int : metric = rt[n][k].metric
  BY <1>1, EntryFields
<1>4. PICK x \in Node : x = rt[n][k].next
  BY DEF SoundEntry
<1>5. /\ n # k.dst /\ x # k.src /\ metric >= Least(x, k)
      /\ x # k.dst => IF Present(x, k)
                      THEN Fresher(rt[x][k], [id |-> id, metric |-> metric])
                      ELSE FloodOver(k, id)
  BY <1>2, <1>3, <1>4 DEF SoundEntry, Fresher
<1>6. rt'[n][k].id = id /\ rt'[n][k].metric = metric /\ rt'[n][k].next = x
  BY <1>2, <1>3, <1>4 DEF Kept, SameRoute
<1>7. id <= seq[k.dst]
  BY <1>2 DEF UniqueIds, Named
<1>8. x # k.dst => IF Present(x, k)'
                   THEN Fresher(rt'[x][k], [id |-> id, metric |-> metric])
                   ELSE FloodOver(k, id)'
  BY <1>5, <1>7, KeptNext
<1>. QED
  BY <1>5, <1>6, <1>8 DEF SoundEntry, Fresher, Least

LEMMA WrittenEntry ==
  ASSUME TypeOK, TypeOK', Grows, NEW n \in Node, NEW k \in Key, Written(n, k)
  PROVE  SoundEntry(n, k)'
<1>1. rt'[n][k] \in Entry
  BY DEF TypeOK
<1>2. PICK id \in Nat : id = rt'[n][k].id
  BY <1>1, EntryFields
<1>3. PICK metric \in Int : metric = rt'[n][k].metric
  BY <1>1, EntryFields
<1>4. PICK x \in Node : x = rt'[n][k].next
  BY DEF Written
<1>5. /\ n # k.dst /\ x # k.src /\ metric >= Least(x, k)
      /\ Offers(x, k, id, metric) /\ Carried(k, id)
  BY <1>2, <1>3, <1>4 DEF Written
<1>6. Offers(x, k, id, metric)'
  BY <1>5, KeptOffer
<1>. QED
  BY <1>2, <1>3, <1>4, <1>5, <1>6 DEF SoundEntry, Offers, Fresher, Least

LEMMA KeptRreq ==
  ASSUME TypeOK, TypeOK', Grows, NEW m \in rreq, SoundRreq(m)
  PROVE  SoundRreq(m)'
<1>1. m \in Rreq
  BY DEF TypeOK
<1>2. /\ m.from \in Node /\ Rev(m.flow) \in Key /\ m.id \in Nat
      /\ m.hops + 1 \in Int
  BY <1>1, RreqFields
<1>3. Carried(Rev(m.flow), m.id)
  BY DEF Carried
<1>4. Offers(m.from, Rev(m.flow), m.id, m.hops + 1)'
  BY <1>2, <1>3, KeptOffer DEF SoundRreq
<1>. QED
  BY <1>4 DEF SoundRreq, Least

LEMMA KeptRrep ==
  ASSUME TypeOK, TypeOK', UniqueIds, Grows, Hushed,
         NEW m \in rrep, SoundRrep(m)
  PROVE  SoundRrep(m)'
<1>. DEFINE k == m.flow
            Allows(metric) == /\ metric >= Least(m.from, k)
                              /\ Offers(m.from, k, m.id, metric)
            Allows1(metric) == /\ metric >= Least(m.from, k)
                               /\ Offers(m.from, k, m.id, metric)'
            e == rt[m.to][Rev(k)]
            d == rt'[m.to][Rev(k)]
<1>1. m \in Rrep
  BY DEF TypeOK
<1>2. /\ m.from \in Node /\ m.to \in Node /\ k \in Key /\ Rev(k) \in Key
      /\ m.id \in Nat /\ m.src_id \in Nat /\ m.metric \in Int
      /\ Rev(k).dst = k.src
  BY <1>1, RrepFields
<1>3. e \in Entry /\ d \in Entry
  BY <1>2 DEF TypeOK
<1>4. e.id \in Nat /\ e.metric \in Int /\ d.id \in Nat /\ d.metric \in Int
  BY <1>3, EntryFields
<1>0. PICK i \in Int : i = d.metric
  BY <1>4
<1>5. Carried(k, m.id)
  BY DEF Carried
<1>6. ASSUME NEW metric \in Int, Allows(metric) PROVE Allows1(metric)
  BY <1>2, <1>5, <1>6, KeptOffer
<1>7. ASSUME NEW low \in Int, NEW high \in Int, low <= high, Allows1(low)
      PROVE  Allows1(high)
  <2>1. rt'[m.from][k] \in Entry
    BY <1>2 DEF TypeOK
  <2>2. rt'[m.from][k].metric \in Int
    BY <2>1, EntryFields
  <2>. QED
    BY <1>7, <2>2 DEF Offers, Fresher, Least
<1>8. m.src_id <= seq[Rev(k).dst]
  <2>1. Named(Rev(k), m.src_id)
    BY DEF Named
  <2>. QED
    BY <1>2, <2>1 DEF UniqueIds
<1>9. FloodOver(Rev(k), m.src_id) => FloodOver(Rev(k), m.src_id)'
  BY <1>2, <1>8 DEF Hushed
<1>10. m.from # k.src /\ m.to # k.dst /\ Allows1(m.metric)
  BY <1>2, <1>6 DEF SoundRrep
<1>11. ASSUME m.to # k.src
       PROVE  /\ Allows1(m.metric - 1)
              /\ IF Present(m.to, Rev(k))'
                 THEN \/ d.id > m.src_id
                      \/ d.id = m.src_id /\ Allows1(m.metric - i)
                 ELSE FloodOver(Rev(k), m.src_id)'
  <2>1. /\ Allows(m.metric - 1)
        /\ IF Present(m.to, Rev(k))
           THEN \/ e.id > m.src_id
                \/ e.id = m.src_id /\ Allows(m.metric - e.metric)
           ELSE FloodOver(Rev(k), m.src_id)
    BY <1>11 DEF SoundRrep
  <2>2. Allows1(m.metric - 1)
    BY <1>2, <1>6, <2>1
  <2>3. CASE Present(m.to, Rev(k)) /\ Present(m.to, Rev(k))'
    <3>. HIDE DEF Allows, Allows1
    <3>1. d.id > e.id \/ (d.id = e.id /\ d.metric <= e.metric)
      BY <1>2, <2>3 DEF Grows
    <3>2. e.id > m.src_id \/ (e.id = m.src_id /\ Allows(m.metric - e.metric))
      BY <2>1, <2>3
    <3>3. CASE e.id = m.src_id /\ d.id = e.id /\ Allows(m.metric - e.metric)
      <4>1. /\ m.metric - e.metric \in Int /\ m.metric - i \in Int
            /\ m.metric - e.metric <= m.metric - i
        BY <1>0, <1>2, <1>4, <3>1, <3>3
      <4>2. Allows1(m.metric - e.metric)
        BY <1>6, <3>3, <4>1
      <4>3. Allows1(m.metric - i)
        BY <1>7, <4>1, <4>2
      <4>. QED
        BY <2>2, <2>3, <3>3, <4>3
    <3>4. CASE d.id > m.src_id
      BY <2>2, <2>3, <3>4
    <3>5. d.id > m.src_id
          \/ (e.id = m.src_id /\ d.id = e.id /\ Allows(m.metric - e.metric))
      BY <1>2, <1>4, <3>1, <3>2
    <3>. QED
      BY <3>3, <3>4, <3>5
  <2>4. CASE Present(m.to, Rev(k)) /\ ~ Present(m.to, Rev(k))'
    <3>1. FloodOver(Rev(k), e.id)
      BY <1>2, <2>4 DEF Grows
    <3>2. e.id >= m.src_id
      BY <1>2, <1>4, <2>1, <2>4
    <3>3. FloodOver(Rev(k), m.src_id)
      BY <1>2, <1>4, <3>1, <3>2, FloodOverDown
    <3>. QED
      BY <1>9, <2>2, <2>4, <3>3
  <2>5. CASE ~ Present(m.to, Rev(k)) /\ Present(m.to, Rev(k))'
    <3>1. FloodOver(Rev(k), m.src_id) /\ ~ FloodOver(Rev(k), d.id)
      BY <1>2, <2>1, <2>5 DEF Grows
    <3>2. d.id > m.src_id
      BY <1>2, <1>4, <3>1, FloodOverDown
    <3>. QED
      BY <2>2, <2>5, <3>2
  <2>6. CASE ~ Present(m.to, Rev(k)) /\ ~ Present(m.to, Rev(k))'
    BY <1>9, <2>1, <2>2, <2>6
  <2>. QED
    BY <2>3, <2>4, <2>5, <2>6
<1>. QED
  BY <1>0, <1>10, <1>11 DEF SoundRrep

\* What every step does: it keeps the invariant, and treats the entries and
\* the ids of messages as the two definitions above say.
Safely == IndInv' /\ RouteStep /\ MessageStep

\* A step is safe when it treats the entries as RouteStep says, carries no
\* older id than MessageStep says, and sends sound messages only.
LEMMA SafeStep ==
  ASSUME IndInv, TypeOK', IdNamesRoute', RouteStep, MessageStep,
         \A m \in rreq' : m \in rreq \/ SoundRreq(m)',
         \A m \in rrep' : m \in rrep \/ SoundRrep(m)'
  PROVE  Safely
<1>1. TypeOK /\ UniqueIds
  BY IdNamesUnique DEF IndInv
<1>2. Grows /\ Hushed
  BY <1>1, RoutesGrow, FloodsHush
<1>3. ASSUME NEW n \in Node, NEW k \in Key, Present(n, k)'
      PROVE  SoundEntry(n, k)'
  <2>1. CASE Kept(n, k)
    <3>1. Present(n, k)
      BY <1>3, <2>1 DEF Kept, SameRoute, Present
    <3>. QED
      BY <1>1, <1>2, <2>1, <3>1, KeptEntry DEF IndInv
  <2>2. CASE Written(n, k)
    BY <1>1, <1>2, <2>2, WrittenEntry
  <2>. QED
    BY <1>3, <2>1, <2>2 DEF RouteStep, Gone
<1>4. ASSUME NEW m \in rreq' PROVE SoundRreq(m)'
  BY <1>1, <1>2, KeptRreq DEF IndInv
<1>5. ASSUME NEW m \in rrep' PROVE SoundRrep(m)'
  BY <1>1, <1>2, KeptRrep DEF IndInv
<1>6. IndInv'
  BY <1>3, <1>4, <1>5 DEF IndInv
<1>. QED
  BY <1>6 DEF Safely

LEMMA NamedStep ==
  ASSUME TypeOK, TypeOK', RouteStep, NEW k \in Key, NEW id \in Nat,
         Named(k, id)'
  PROVE  \/ Named(k, id)
         \/ \E m \in rreq' \ rreq : Rev(m.flow) = k /\ m.id = id
         \/ \E m \in rrep' \ rrep : \/ m.flow = k /\ m.id = id
                                    \/ Rev(m.flow) = k /\ m.src_id = id
<1>1. CASE \E n \in Node : Present(n, k)' /\ rt'[n][k].id = id
  <2>1. PICK n \in Node : Present(n, k)' /\ rt'[n][k].id = id
    BY <1>1
  <2>2. CASE Kept(n, k)
    BY <2>1, <2>2 DEF Kept, SameRoute, Present, Named
  <2>3. CASE Written(n, k)
    BY <2>1, <2>3, CarriedFacts DEF Written
  <2>. QED
    BY <2>1, <2>2, <2>3 DEF RouteStep, Gone
<1>2. CASE \E m \in rreq' : Rev(m.flow) = k /\ m.id = id
  BY <1>2 DEF Named
<1>3. CASE \E m \in rrep' : \/ m.flow = k /\ m.id = id
                            \/ Rev(m.flow) = k /\ m.src_id = id
  BY <1>3 DEF Named
<1>. QED
  BY <1>1, <1>2, <1>3 DEF Named

\* A step that issues no id.
LEMMA QuietStep ==
  ASSUME IndInv, TypeOK', seq' = seq, RouteStep,
         \A m \in rreq' : \/ m \in rreq
                          \/ Carried(Rev(m.flow), m.id) /\ SoundRreq(m)',
         \A m \in rrep' : \/ m \in rrep
                          \/ /\ Carried(m.flow, m.id)
                             /\ Named(Rev(m.flow), m.src_id)
                             /\ SoundRrep(m)'
  PROVE  Safely
<1>1. TypeOK /\ UniqueIds
  BY IdNamesUnique DEF IndInv
<1>2. MessageStep
  BY DEF MessageStep, Carried
<1>3. ASSUME NEW k \in Key, NEW id \in Nat, Named(k, id)' PROVE Named(k, id)
  BY <1>1, <1>3, NamedStep, CarriedFacts
<1>4. UniqueIds'
  BY <1>1, <1>3, NoNewName
<1>5. IdNamesRoute'
  BY <1>4, IdNamesUniqueNext
<1>. QED
  BY <1>1, <1>2, <1>5, SafeStep
-----------------------------------------------------------------------------
(* What the functions that write the table change of a route.              *)

LEMMA RreqRouteWrites ==
  ASSUME NEW tbl \in [Key -> Entry], NEW k \in Key, NEW hop, NEW id, NEW metric
  PROVE  /\ \A j \in Key \ {k} : RreqRoute(tbl, k, hop, id, metric)[j] = tbl[j]
         /\ Accepts(tbl[k], id, metric) =>
              /\ RreqRoute(tbl, k, hop, id, metric)[k].id = id
              /\ RreqRoute(tbl, k, hop, id, metric)[k].metric = metric
              /\ RreqRoute(tbl, k, hop, id, metric)[k].next = hop
              /\ RreqRoute(tbl, k, hop, id, metric)[k].state = "VALID"
         /\ ~ Accepts(tbl[k], id, metric) =>
              RreqRoute(tbl, k, hop, id, metric)[k] = tbl[k]
BY DEF RreqRoute

LEMMA RrepRouteKeeps ==
  ASSUME NEW tbl \in [Key -> Entry], NEW p \in Key \cup {NeighEntry}, NEW hop,
         p \in Key => tbl[p].state # "none"
  PROVE  \A j \in Key : SameRoute(RrepRoute(tbl, p, hop)[j], tbl[j])
<1>1. CASE p = NeighEntry
  BY <1>1 DEF RrepRoute, SameRoute
<1>2. CASE p # NeighEntry
  <2>1. p \in Key /\ tbl[p] \in Entry
    BY <1>2
  <2>2. RrepRoute(tbl, p, hop)
          = [tbl EXCEPT ![p] = [tbl[p] EXCEPT !.state = "VALID", !.last = hop]]
    BY <1>2, <2>1 DEF RrepRoute, Entry
  <2>3. LET d == [tbl[p] EXCEPT !.state = "VALID", !.last = hop]
        IN  SameRoute(d, tbl[p])
    BY <2>1 DEF SameRoute, Entry
  <2>. QED
    BY <2>1, <2>2, <2>3 DEF SameRoute
<1>. QED
  BY <1>1, <1>2

LEMMA InvalidateKeeps ==
  ASSUME NEW tbl \in [Key -> Entry], NEW ks,
         \A k \in ks \cap Key : tbl[k].state # "none"
  PROVE  \A j \in Key : SameRoute(Invalidate(tbl, ks)[j], tbl[j])
<1>1. ASSUME NEW j \in Key PROVE SameRoute(Invalidate(tbl, ks)[j], tbl[j])
  <2>1. tbl[j] \in Entry
    OBVIOUS
  <2>2. CASE j \in ks
    BY <2>1, <2>2 DEF Invalidate, SameRoute, Entry
  <2>3. CASE j \notin ks
    BY <2>1, <2>3 DEF Invalidate, SameRoute
  <2>. QED
    BY <2>2, <2>3
<1>. QED
  BY <1>1

LEMMA TableKept ==
  ASSUME TypeOK, NEW n \in Node, NEW tbl,
         rt' = [rt EXCEPT ![n] = tbl],
         \A j \in Key : SameRoute(tbl[j], rt[n][j])
  PROVE  RouteStep /\ \A x \in Node, k \in Key : Kept(x, k)
<1>1. \A x \in Node : x # n => rt'[x] = rt[x]
  BY DEF TypeOK
<1>2. rt'[n] = tbl
  BY DEF TypeOK
<1>3. \A x \in Node, k \in Key : Kept(x, k)
  BY <1>1, <1>2 DEF Kept, SameRoute
<1>. QED
  BY <1>3 DEF RouteStep

LEMMA RoutesUnchanged ==
  ASSUME rt' = rt
  PROVE  RouteStep /\ \A x \in Node, k \in Key : Kept(x, k)
BY DEF RouteStep, Kept, SameRoute

\* After rreq_aodv_route the entry is the offer or no worse.
LEMMA Installed ==
  ASSUME TypeOK, NEW n \in Node, NEW k \in Key, NEW hop \in Node, NEW id \in Nat,
         NEW metric \in Int, NEW tbl,
         \A j \in Key :
           SameRoute(tbl[j], RreqRoute(rt[n], k, hop, id, metric)[j])
  PROVE  /\ tbl[k].state # "none"
         /\ \/ tbl[k].id > id
            \/ tbl[k].id = id /\ tbl[k].metric <= metric
<1>1. rt[n] \in [Key -> Entry] /\ rt[n][k] \in Entry
  BY DEF TypeOK
<1>2. rt[n][k].id \in Nat /\ rt[n][k].metric \in Int
  BY <1>1, EntryFields
<1>3. SameRoute(tbl[k], RreqRoute(rt[n], k, hop, id, metric)[k])
  OBVIOUS
<1>4. CASE Accepts(rt[n][k], id, metric)
  BY <1>1, <1>3, <1>4, RreqRouteWrites DEF SameRoute
<1>5. CASE ~ Accepts(rt[n][k], id, metric)
  BY <1>1, <1>2, <1>3, <1>5, RreqRouteWrites DEF SameRoute, Accepts
<1>. QED
  BY <1>4, <1>5

\* rreq_aodv_route called with a sound offer; what follows in the handler may
\* change state and last hop.
LEMMA Install ==
  ASSUME TypeOK, NEW n \in Node, NEW k \in Key, NEW hop \in Node, NEW id \in Nat,
         NEW metric \in Int, NEW tbl,
         n # k.dst, hop # k.src, metric >= Least(hop, k),
         Offers(hop, k, id, metric), Carried(k, id),
         rt' = [rt EXCEPT ![n] = tbl],
         \A j \in Key :
           SameRoute(tbl[j], RreqRoute(rt[n], k, hop, id, metric)[j])
  PROVE  RouteStep
<1>1. \A x \in Node : x # n => rt'[x] = rt[x]
  BY DEF TypeOK
<1>2. rt'[n] = tbl
  BY DEF TypeOK
<1>3. rt[n] \in [Key -> Entry] /\ rt[n][k] \in Entry
  BY DEF TypeOK
<1>4. rt[n][k].id \in Nat /\ rt[n][k].metric \in Int
  BY <1>3, EntryFields
<1>5. ASSUME NEW x \in Node, NEW j \in Key, x # n \/ j # k PROVE Kept(x, j)
  <2>1. CASE x # n
    BY <1>1, <2>1 DEF Kept, SameRoute
  <2>2. CASE x = n /\ j # k
    <3>1. RreqRoute(rt[n], k, hop, id, metric)[j] = rt[n][j]
      BY <1>3, <2>2, RreqRouteWrites
    <3>. QED
      BY <1>2, <2>2, <3>1 DEF Kept
  <2>. QED
    BY <1>5, <2>1, <2>2
<1>6. CASE Accepts(rt[n][k], id, metric)
  <2>1. /\ rt'[n][k].id = id /\ rt'[n][k].metric = metric
        /\ rt'[n][k].next = hop /\ rt'[n][k].state # "none"
    <3>1. LET e == RreqRoute(rt[n], k, hop, id, metric)[k]
          IN /\ e.id = id /\ e.metric = metric /\ e.next = hop
             /\ e.state = "VALID"
      BY <1>3, <1>6, RreqRouteWrites
    <3>. QED
      BY <1>2, <3>1 DEF SameRoute
  <2>2. Written(n, k)
    BY <1>6, <2>1 DEF Written, Present
  <2>. QED
    BY <1>5, <2>1, <2>2 DEF RouteStep, Present
<1>7. CASE ~ Accepts(rt[n][k], id, metric)
  <2>1. Kept(n, k)
    <3>1. RreqRoute(rt[n], k, hop, id, metric)[k] = rt[n][k]
      BY <1>3, <1>7, RreqRouteWrites
    <3>. QED
      BY <1>2, <3>1 DEF Kept
  <2>. QED
    BY <1>5, <2>1 DEF RouteStep
<1>. QED
  BY <1>6, <1>7
-----------------------------------------------------------------------------
(* The actions.                                                            *)

LEMMA GenRreqSafe ==
  ASSUME IndInv, TypeOK', NEW n \in Node, NEW f \in Flow, GenRreq(n, f)
  PROVE  Safely
<1>1. TypeOK /\ UniqueIds
  BY IdNamesUnique DEF IndInv
<1>2. /\ f.src = n /\ seq' = [seq EXCEPT ![n] = @ + 1]
      /\ rt' = rt /\ rrep' = rrep
  BY DEF GenRreq
<1>3. PICK copies \in Broadcast(n, f, seq[n] + 1, 0, NetDiameter) :
        rreq' = rreq \cup copies
  BY DEF GenRreq
<1>4. /\ f \in Key /\ Rev(f) \in Key /\ Rev(f).dst = n /\ Rev(f).src = f.dst
      /\ f.dst # n /\ seq[n] \in Nat
  BY <1>1, <1>2, KeyFacts DEF TypeOK
<1>5. \A m \in copies : /\ m.from = n /\ m.flow = f /\ m.id = seq[n] + 1
                        /\ m.hops = 0
  BY BroadcastSent
<1>6. RouteStep
  BY <1>2, RoutesUnchanged
<1>7. MessageStep
  BY <1>2, <1>3, <1>4, <1>5 DEF MessageStep, Carried
<1>8. ASSUME NEW k \in Key, NEW id \in Nat, Named(k, id)'
      PROVE  Named(k, id) \/ (k = Rev(f) /\ id = seq[Rev(f).dst] + 1)
  BY <1>1, <1>2, <1>3, <1>4, <1>5, <1>6, <1>8, NamedStep
<1>9. IdNamesRoute'
  <2>1. UniqueIds'
    BY <1>1, <1>2, <1>4, <1>8, OneNewName
  <2>. QED
    BY <2>1, IdNamesUniqueNext
<1>10. ASSUME NEW m \in copies PROVE SoundRreq(m)'
  BY <1>4, <1>5 DEF SoundRreq, Offers, Least
<1>. QED
  BY <1>2, <1>3, <1>6, <1>7, <1>9, <1>10, SafeStep

\* A sound RREQ may write the route back to its source.
LEMMA RreqOffers ==
  ASSUME IndInv, NEW n \in Node, NEW m \in rreq, UsefulRreq(n, m)
  PROVE  /\ Rev(m.flow) \in Key /\ m.from \in Node /\ m.id \in Nat
         /\ m.hops + 1 \in Int
         /\ n # Rev(m.flow).dst /\ m.from # Rev(m.flow).src
         /\ m.hops + 1 >= Least(m.from, Rev(m.flow))
         /\ Offers(m.from, Rev(m.flow), m.id, m.hops + 1)
         /\ Carried(Rev(m.flow), m.id)
<1>1. m \in Rreq
  BY DEF IndInv, TypeOK
<1>2. SoundRreq(m)
  BY DEF IndInv
<1>. QED
  BY <1>1, <1>2, RreqFields DEF UsefulRreq, SoundRreq, Carried

LEMMA AnswerRreqSafe ==
  ASSUME IndInv, TypeOK', NEW n \in Node, NEW m \in rreq, AnswerRreq(n, m)
  PROVE  Safely
<1>. DEFINE tbl == RreqRoute(rt[n], Rev(m.flow), m.from, m.id, m.hops + 1)
<1>1. /\ UsefulRreq(n, m) /\ rt' = [rt EXCEPT ![n] = tbl]
      /\ rreq' = rreq \ {m} /\ seq' = seq /\ rrep' = rrep
  BY DEF AnswerRreq, InstallReverse
<1>2. \A j \in Key : SameRoute(tbl[j], tbl[j])
  BY DEF SameRoute
<1>3. TypeOK
  BY DEF IndInv
<1>4. RouteStep
  <2>. HIDE DEF tbl
  <2>1. /\ Rev(m.flow) \in Key /\ m.from \in Node /\ m.id \in Nat
        /\ m.hops + 1 \in Int
        /\ n # Rev(m.flow).dst /\ m.from # Rev(m.flow).src
        /\ m.hops + 1 >= Least(m.from, Rev(m.flow))
        /\ Offers(m.from, Rev(m.flow), m.id, m.hops + 1)
        /\ Carried(Rev(m.flow), m.id)
    BY <1>1, RreqOffers
  <2>2. \A j \in Key :
          SameRoute(tbl[j], RreqRoute(rt[n], Rev(m.flow), m.from, m.id,
                                      m.hops + 1)[j])
    BY <1>2 DEF tbl
  <2>. QED
    BY <1>1, <1>3, <2>1, <2>2, Install
<1>. QED
  BY <1>1, <1>4, QuietStep

LEMMA ForwardRreqSafe ==
  ASSUME IndInv, TypeOK', NEW n \in Node, NEW m \in rreq, ForwardRreq(n, m)
  PROVE  Safely
<1>. DEFINE k == Rev(m.flow)
            tbl == RreqRoute(rt[n], k, m.from, m.id, m.hops + 1)
<1>1. /\ UsefulRreq(n, m) /\ m.flow.dst # n
      /\ rt' = [rt EXCEPT ![n] = tbl] /\ seq' = seq /\ rrep' = rrep
  BY DEF ForwardRreq, InstallReverse
<1>2. PICK copies \in Broadcast(n, m.flow, m.id, m.hops + 1, m.ttl - 1) :
        rreq' = (rreq \ {m}) \cup copies
  BY DEF ForwardRreq
<1>3. TypeOK /\ m \in Rreq
  BY DEF IndInv, TypeOK
<1>4. /\ k \in Key /\ m.from \in Node /\ m.id \in Nat
      /\ m.hops + 1 \in Int
      /\ n # k.dst /\ m.from # k.src
      /\ m.hops + 1 >= Least(m.from, k)
      /\ Offers(m.from, k, m.id, m.hops + 1)
      /\ Carried(k, m.id)
  BY <1>1, RreqOffers
<1>5. \A j \in Key : SameRoute(tbl[j], tbl[j])
  BY DEF SameRoute
<1>6. RouteStep
  <2>. HIDE DEF tbl, k
  <2>1. \A j \in Key :
          SameRoute(tbl[j], RreqRoute(rt[n], k, m.from, m.id, m.hops + 1)[j])
    BY <1>5 DEF tbl
  <2>. QED
    BY <1>1, <1>3, <1>4, <2>1, Install
<1>10. /\ rt'[n][k].state # "none"
       /\ \/ rt'[n][k].id > m.id
          \/ rt'[n][k].id = m.id /\ rt'[n][k].metric <= m.hops + 1
  <2>1. rt'[n] = tbl
    BY <1>1, <1>3 DEF TypeOK
  <2>2. \A j \in Key :
          SameRoute(tbl[j], RreqRoute(rt[n], k, m.from, m.id, m.hops + 1)[j])
    BY <1>5
  <2>3. /\ tbl[k].state # "none"
        /\ \/ tbl[k].id > m.id
           \/ tbl[k].id = m.id /\ tbl[k].metric <= m.hops + 1
    <3>. HIDE DEF tbl, k
    <3>. QED
      BY <1>3, <1>4, <2>2, Installed
  <2>. QED
    BY <2>1, <2>3
<1>7. \A y \in copies : /\ y.from = n /\ y.flow = m.flow /\ y.id = m.id
                        /\ y.hops = m.hops + 1
  BY BroadcastSent
<1>8. rt'[n][k].metric \in Int
  <2>1. rt'[n][k] \in Entry
    BY <1>4 DEF TypeOK
  <2>. QED
    BY <2>1, EntryFields
<1>9. ASSUME NEW y \in copies PROVE SoundRreq(y)'
  <2>1. m.hops \in Nat /\ k.src = m.flow.dst
    BY <1>3, RreqFields
  <2>2. Offers(n, k, m.id, m.hops + 2)'
    BY <1>4, <1>8, <1>10, <2>1 DEF Offers, Fresher, Present
  <2>3. y.hops + 1 = m.hops + 2 /\ m.hops + 2 >= Least(n, k)
    BY <1>4, <1>7, <2>1 DEF Least
  <2>. QED
    BY <1>1, <1>7, <2>1, <2>2, <2>3 DEF SoundRreq
<1>. QED
  BY <1>1, <1>2, <1>4, <1>6, <1>7, <1>9, QuietStep

\* A step that leaves the routes alone and only takes messages away.
LEMMA IdleSafe ==
  ASSUME IndInv, TypeOK', seq' = seq, rt' = rt, rreq' \subseteq rreq,
         rrep' \subseteq rrep
  PROVE  Safely
BY RoutesUnchanged, QuietStep

\* A step that invalidates some entries of a node.
LEMMA InvalidateSafe ==
  ASSUME IndInv, TypeOK', seq' = seq, rreq' = rreq, rrep' = rrep,
         NEW n \in Node, NEW ks, \A k \in ks : k \in Key /\ Present(n, k),
         rt' = [rt EXCEPT ![n] = Invalidate(@, ks)]
  PROVE  Safely
<1>1. TypeOK /\ rt[n] \in [Key -> Entry]
  BY DEF IndInv, TypeOK
<1>2. \A j \in Key : SameRoute(Invalidate(rt[n], ks)[j], rt[n][j])
  BY <1>1, InvalidateKeeps DEF Present
<1>3. PICK tbl : tbl = Invalidate(rt[n], ks)
  OBVIOUS
<1>4. rt' = [rt EXCEPT ![n] = tbl] /\ \A j \in Key : SameRoute(tbl[j], rt[n][j])
  BY <1>2, <1>3
<1>5. RouteStep
  BY <1>1, <1>4, TableKept
<1>. QED
  BY <1>5, QuietStep

LEMMA DeleteNeighSafe ==
  ASSUME IndInv, TypeOK', NEW n \in Node, NEW x \in Node, DeleteNeigh(n, x)
  PROVE  Safely
<1>. DEFINE lost == {k \in Key : rt[n][k].state = "VALID" /\ rt[n][k].next = x}
<1>1. /\ seq' = seq /\ rreq' = rreq /\ rrep' = rrep
      /\ rt' = [rt EXCEPT ![n] = Invalidate(@, lost)]
  BY DEF DeleteNeigh
<1>2. \A k \in lost : k \in Key /\ Present(n, k)
  BY DEF Present
<1>. HIDE DEF lost
<1>. QED
  BY <1>1, <1>2, InvalidateSafe

LEMMA RecvRerrSafe ==
  ASSUME IndInv, TypeOK', NEW n \in Node, NEW m \in rerr, RecvRerr(n, m)
  PROVE  Safely
<1>1. seq' = seq /\ rreq' = rreq /\ rrep' = rrep
  BY DEF RecvRerr
<1>2. \/ rt' = rt
      \/ \E k \in Key \cap ById(n, rt[n], m.dst, m.id) :
           rt' = [rt EXCEPT ![n] = Invalidate(@, {k})]
  BY DEF RecvRerr
<1>3. CASE rt' = rt
  BY <1>1, <1>3, IdleSafe
<1>4. ASSUME NEW k \in Key \cap ById(n, rt[n], m.dst, m.id),
             rt' = [rt EXCEPT ![n] = Invalidate(@, {k})]
      PROVE  Safely
  <2>1. PICK ks : ks = {k}
    OBVIOUS
  <2>2. \A j \in ks : j \in Key /\ Present(n, j)
    BY <2>1, ByIdType DEF Present
  <2>. QED
    BY <1>1, <1>4, <2>1, <2>2, InvalidateSafe
<1>. QED
  BY <1>2, <1>3, <1>4

LEMMA FlushSafe ==
  ASSUME IndInv, TypeOK', NEW n \in Node, NEW due \in SUBSET Key, Flush(n, due)
  PROVE  Safely
<1>1. TypeOK /\ seq' = seq /\ rreq' = rreq /\ rrep' = rrep
  BY DEF Flush, IndInv
<1>2. /\ \A x \in Node : x # n => rt'[x] = rt[x]
      /\ \A k \in Key : rt'[n][k] =
           IF k \notin due THEN rt[n][k]
           ELSE IF rt[n][k].state = "INVALID" THEN NoEntry
           ELSE [rt[n][k] EXCEPT !.state = "INVALID"]
  BY <1>1 DEF Flush, TypeOK
<1>3. ASSUME NEW k \in Key, k \in due PROVE Kept(n, k) \/ Gone(n, k)
  <2>1. rt[n][k] \in Entry /\ rt[n][k].state # "none"
        /\ FloodOver(k, rt[n][k].id)
    BY <1>1, <1>3 DEF TypeOK, Flush
  <2>2. CASE rt[n][k].state = "INVALID"
    <3>1. rt'[n][k] = NoEntry
      BY <1>2, <1>3, <2>2
    <3>2. rt'[n][k].state = "none"
      BY <3>1 DEF NoEntry
    <3>. QED
      BY <2>1, <3>2 DEF Gone, Present
  <2>3. CASE rt[n][k].state # "INVALID"
    <3>1. rt'[n][k] = [rt[n][k] EXCEPT !.state = "INVALID"]
      BY <1>2, <1>3, <2>3
    <3>. QED
      BY <2>1, <3>1 DEF Kept, SameRoute, Entry
  <2>. QED
    BY <2>2, <2>3
<1>4. RouteStep
  <2>1. ASSUME NEW x \in Node, NEW k \in Key, rt'[x][k] = rt[x][k]
        PROVE  Kept(x, k)
    BY <2>1 DEF Kept, SameRoute
  <2>2. ASSUME NEW x \in Node, NEW k \in Key
        PROVE  Kept(x, k) \/ Gone(x, k)
    <3>1. CASE x # n
      BY <1>2, <2>1, <3>1
    <3>2. CASE x = n /\ k \notin due
      BY <1>2, <2>1, <3>2
    <3>3. CASE x = n /\ k \in due
      BY <1>3, <3>3
    <3>. QED
      BY <3>1, <3>2, <3>3
  <2>. QED
    BY <2>2 DEF RouteStep
<1>. QED
  BY <1>1, <1>4, QuietStep

\* The destination answers along a sound route back.
LEMMA GenRrepSafe ==
  ASSUME IndInv, TypeOK', NEW n \in Node, NEW f \in Flow, GenRrep(n, f)
  PROVE  Safely
<1>. DEFINE k == Rev(f)
            e == rt[n][k]
            m == [from |-> n, to |-> e.next, flow |-> f, id |-> seq[n] + 1,
                  src_id |-> e.id, metric |-> e.metric]
<1>1. CASE e.state = "none"
  <2>1. seq' = seq /\ rt' = rt /\ rreq' = rreq /\ rrep' = rrep
    BY <1>1 DEF GenRrep
  <2>. QED
    BY <2>1, IdleSafe
<1>2. CASE e.state # "none"
  <2>1. /\ f.dst = n /\ seq' = [seq EXCEPT ![n] = @ + 1] /\ rreq' = rreq
        /\ rt' = [rt EXCEPT ![n] = RrepRoute(@, k, n)]
    BY <1>2 DEF GenRrep
  <2>2. PICK sent \in Unicast(neigh[n], {m}) : rrep' = rrep \cup sent
    BY <1>2 DEF GenRrep
  <2>3. /\ f \in Key /\ k \in Key /\ k.dst = f.src /\ k.src = n /\ f.src # n
        /\ f.src \in Node
    BY <2>1, KeyFacts
  <2>4. TypeOK /\ UniqueIds /\ seq[n] \in Nat /\ e \in Entry
    BY <2>3, IdNamesUnique DEF IndInv, TypeOK
  <2>5. PICK i \in Nat : i = e.id
    BY <2>4, EntryFields
  <2>6. PICK w \in Int : w = e.metric
    BY <2>4, EntryFields
  <2>7. \A x \in sent : /\ x.from = n /\ x.to = e.next /\ x.flow = f
                        /\ x.id = seq[n] + 1 /\ x.src_id = i /\ x.metric = w
                        /\ x.to \in Node
    <3>1. \A x \in sent : x = m /\ x.to \in neigh[n]
      BY UnicastSent
    <3>. QED
      BY <3>1, <2>4, <2>5, <2>6 DEF TypeOK
  <2>8. RouteStep /\ \A x \in Node, j \in Key : Kept(x, j)
    <3>1. PICK tbl : tbl = RrepRoute(rt[n], k, n)
      OBVIOUS
    <3>2. \A j \in Key : SameRoute(tbl[j], rt[n][j])
      BY <1>2, <2>3, <2>4, <3>1, RrepRouteKeeps DEF TypeOK
    <3>3. rt' = [rt EXCEPT ![n] = tbl]
      BY <2>1, <3>1
    <3>. QED
      BY <2>4, <3>2, <3>3, TableKept
  <2>9. MessageStep
    BY <2>1, <2>2, <2>4, <2>7 DEF MessageStep, Carried
  <2>10. i <= seq[k.dst] /\ Named(k, i)
    BY <1>2, <2>3, <2>4, <2>5 DEF UniqueIds, Named, Present
  <2>11. IdNamesRoute'
    <3>1. ASSUME NEW j \in Key, NEW id \in Nat, Named(j, id)'
          PROVE  Named(j, id) \/ (j = f /\ id = seq[f.dst] + 1)
      <4>1. \/ Named(j, id)
            \/ \E x \in sent : \/ x.flow = j /\ x.id = id
                               \/ Rev(x.flow) = j /\ x.src_id = id
        BY <2>1, <2>2, <2>4, <2>8, <3>1, NamedStep
      <4>. QED
        BY <2>1, <2>7, <2>10, <4>1
    <3>2. UniqueIds'
      BY <2>1, <2>3, <2>4, <3>1, OneNewName
    <3>. QED
      BY <3>2, IdNamesUniqueNext
  <2>12. Hushed
    BY <2>4, <2>9, FloodsHush
  <2>13. ASSUME NEW x \in sent PROVE SoundRrep(x)'
    <3>1. PICK y \in Node : y = x.to
      BY <2>7
    <3>2. /\ y # k.src /\ w >= Least(y, k)
          /\ y # k.dst => IF Present(y, k)
                          THEN Fresher(rt[y][k], [id |-> i, metric |-> w])
                          ELSE FloodOver(k, i)
      <4>1. SoundEntry(n, k)
        BY <1>2, <2>3 DEF IndInv, Present
      <4>2. y = e.next
        BY <2>7, <3>1
      <4>. QED
        BY <2>5, <2>6, <4>1, <4>2 DEF SoundEntry, Fresher
    <3>3. \A metric \in Int : metric >= 1 =>
            metric >= Least(x.from, x.flow)
            /\ Offers(x.from, x.flow, x.id, metric)'
      BY <2>1, <2>7 DEF Least, Offers
    <3>4. rt[y][k] \in Entry
      BY <2>3, <2>4 DEF TypeOK
    <3>5. rt[y][k].id \in Nat /\ rt[y][k].metric \in Int
      BY <3>4, EntryFields
    <3>6. /\ rt'[y][k].id = rt[y][k].id /\ rt'[y][k].metric = rt[y][k].metric
          /\ Present(y, k)' <=> Present(y, k)
      BY <2>3, <2>8 DEF Kept, SameRoute, Present
    <3>7. FloodOver(k, i) => FloodOver(k, i)'
      BY <2>3, <2>10, <2>12 DEF Hushed
    <3>8. w >= 1 /\ (y # k.dst => w - 1 >= 1)
      BY <3>2 DEF Least
    <3>9. y # k.dst => IF Present(y, k)'
                       THEN \/ rt'[y][k].id > i
                            \/ rt'[y][k].id = i /\ w - rt'[y][k].metric >= 1
                       ELSE FloodOver(k, i)'
      BY <3>2, <3>5, <3>6, <3>7 DEF Fresher
    <3>10. w - rt'[y][k].metric \in Int /\ w - 1 \in Int
      BY <3>5, <3>6
    <3>11. /\ x.from # x.flow.src /\ y # x.flow.dst /\ x.src_id = i
           /\ x.metric = w /\ Rev(x.flow) = k /\ x.flow.src = k.dst
      BY <2>1, <2>3, <2>7, <3>1, <3>2
    <3>. HIDE DEF k
    <3>. QED
      BY <3>1, <3>3, <3>8, <3>9, <3>10, <3>11, <2>6 DEF SoundRrep
  <2>. QED
    BY <2>1, <2>2, <2>8, <2>9, <2>11, <2>13, SafeStep
<1>. QED
  BY <1>1, <1>2

LEMMA FinishRrepSafe ==
  ASSUME IndInv, TypeOK', NEW n \in Node, NEW m \in rrep, FinishRrep(n, m)
  PROVE  Safely
<1>. DEFINE k == m.flow
            tbl == RreqRoute(rt[n], k, m.from, m.id, m.metric)
            found == ById(n, tbl, k.dst, m.id)
<1>1. /\ m.to = n /\ k.src = n /\ seq' = seq /\ rreq' = rreq
      /\ rrep' = rrep \ {m}
  BY DEF FinishRrep
<1>2. \/ rt' = [rt EXCEPT ![n] = tbl]
      \/ \E s \in found : rt' = [rt EXCEPT ![n] = RrepRoute(tbl, s, n)]
  BY DEF FinishRrep
<1>3. TypeOK /\ m \in Rrep
  BY DEF IndInv, TypeOK
<1>4. /\ k \in Key /\ m.from \in Node /\ m.id \in Nat /\ m.metric \in Int
      /\ n # k.dst
  BY <1>1, <1>3, RrepFields
<1>5. /\ m.from # k.src /\ m.metric >= Least(m.from, k)
      /\ Offers(m.from, k, m.id, m.metric) /\ Carried(k, m.id)
  BY DEF IndInv, SoundRrep, Carried
<1>6. tbl \in [Key -> Entry]
  BY <1>3, <1>4, RreqRouteType DEF TypeOK
<1>7. PICK t : /\ rt' = [rt EXCEPT ![n] = t]
               /\ \A j \in Key : SameRoute(t[j], tbl[j])
  <2>1. CASE rt' = [rt EXCEPT ![n] = tbl]
    BY <2>1 DEF SameRoute
  <2>2. ASSUME NEW s \in found, rt' = [rt EXCEPT ![n] = RrepRoute(tbl, s, n)]
        PROVE  \E t : /\ rt' = [rt EXCEPT ![n] = t]
                      /\ \A j \in Key : SameRoute(t[j], tbl[j])
    <3>1. s \in Key \cup {NeighEntry} /\ (s \in Key => tbl[s].state # "none")
      BY ByIdType
    <3>2. \A j \in Key : SameRoute(RrepRoute(tbl, s, n)[j], tbl[j])
      <4>. HIDE DEF tbl
      <4>. QED
        BY <1>6, <3>1, RrepRouteKeeps
    <3>. QED
      BY <2>2, <3>2
  <2>. QED
    BY <1>2, <2>1, <2>2
<1>8. RouteStep
  <2>1. \A j \in Key :
          SameRoute(t[j], RreqRoute(rt[n], k, m.from, m.id, m.metric)[j])
    BY <1>7
  <2>. HIDE DEF k
  <2>. QED
    BY <1>3, <1>4, <1>5, <1>7, <2>1, Install
<1>. QED
  BY <1>1, <1>8, QuietStep

\* The entry a RREP subtracts at an intermediate node is the one towards the
\* source of its flow, and what is left may be written.
LEMMA RrepOffers ==
  ASSUME IndInv, NEW n \in Node, NEW m \in rrep, m.to = n, m.flow.src # n,
         NEW r \in ById(n, rt[n], m.flow.src, m.src_id)
  PROVE  /\ n # m.flow.dst /\ m.from # m.flow.src
         /\ m.metric - Metric(rt[n], r) \in Int
         /\ m.metric - Metric(rt[n], r) >= Least(m.from, m.flow)
         /\ Offers(m.from, m.flow, m.id, m.metric - Metric(rt[n], r))
         /\ r # NeighEntry => /\ r = Rev(m.flow) /\ Present(n, r)
                              /\ rt[n][r].id = m.src_id
                              /\ Metric(rt[n], r) = rt[n][r].metric
<1>1. TypeOK /\ UniqueIds /\ m \in Rrep
  BY IdNamesUnique DEF IndInv, TypeOK
<1>2. SoundRrep(m)
  BY DEF IndInv
<1>3. r \in Key \cup {NeighEntry} /\ rt[n] \in [Key -> Entry]
  BY <1>1, ByIdType DEF TypeOK
<1>4. m.metric - Metric(rt[n], r) \in Int
  BY <1>1, <1>3, NextHopType, RrepFields
<1>5. CASE r = NeighEntry
  BY <1>2, <1>4, <1>5 DEF SoundRrep, Metric
<1>6. CASE r # NeighEntry
  <2>1. /\ r \in Key /\ Present(n, r) /\ r.dst = m.flow.src
        /\ rt[n][r].id = m.src_id
    BY <1>3, <1>6, ByIdType DEF Present
  <2>2. /\ Rev(m.flow) \in Key /\ Rev(m.flow).dst = m.flow.src
        /\ m.src_id \in Nat
    BY <1>1, RrepFields
  <2>3. Named(r, m.src_id) /\ Named(Rev(m.flow), m.src_id)
    BY <2>1 DEF Named
  <2>4. r = Rev(m.flow)
    BY <1>1, <2>1, <2>2, <2>3 DEF UniqueIds
  <2>5. Metric(rt[n], r) = rt[n][r].metric
    BY <1>6 DEF Metric
  <2>6. ~ rt[n][r].id > m.src_id
    BY <2>1, <2>2
  <2>7. LET w == m.metric - rt[n][r].metric
        IN  w >= Least(m.from, m.flow) /\ Offers(m.from, m.flow, m.id, w)
    BY <1>2, <2>1, <2>4, <2>6 DEF SoundRrep
  <2>. QED
    BY <1>2, <1>4, <2>1, <2>4, <2>5, <2>7 DEF SoundRrep
<1>. QED
  BY <1>5, <1>6

\* The RREP sent on is sound once the entry towards dst is installed.
LEMMA OnwardSound ==
  ASSUME IndInv, TypeOK', RouteStep, MessageStep, NEW n \in Node, NEW m \in rrep,
         m.to = n, m.flow.src # n, n # m.flow.dst,
         NEW r \in Key, r = Rev(m.flow), Present(n, r), rt[n][r].id = m.src_id,
         m.metric - rt[n][r].metric >= 1,
         rt'[n][m.flow].state # "none",
         \/ rt'[n][m.flow].id > m.id
         \/ /\ rt'[n][m.flow].id = m.id
            /\ rt'[n][m.flow].metric <= m.metric - rt[n][r].metric,
         NEW x, x = [m EXCEPT !.from = n, !.to = rt[n][r].next]
  PROVE  SoundRrep(x)'
<1>1. TypeOK /\ UniqueIds /\ m \in Rrep
  BY IdNamesUnique DEF IndInv, TypeOK
<1>2. PICK k \in Key : k = m.flow
  BY <1>1, RrepFields
<1>3. /\ r.dst = k.src /\ r.src = k.dst /\ m.metric \in Int /\ m.id \in Nat
      /\ m.src_id \in Nat
  BY <1>1, <1>2, RrepFields
<1>4. Grows /\ Hushed
  BY <1>1, RoutesGrow, FloodsHush
<1>5. rt[n][r] \in Entry /\ rt'[n][k] \in Entry
  BY <1>1 DEF TypeOK
<1>6. PICK w \in Int : w = rt[n][r].metric
  BY <1>5, EntryFields
<1>7. rt'[n][k].id \in Nat /\ rt'[n][k].metric \in Int
  BY <1>5, EntryFields
<1>8. SoundEntry(n, r)
  BY DEF IndInv
<1>9. PICK y \in Node : y = rt[n][r].next
  BY <1>8 DEF SoundEntry
<1>10. /\ y # k.dst /\ w >= Least(y, r)
       /\ y # r.dst => IF Present(y, r)
                       THEN Fresher(rt[y][r], [id |-> m.src_id, metric |-> w])
                       ELSE FloodOver(r, m.src_id)
  BY <1>3, <1>6, <1>8, <1>9 DEF SoundEntry, Fresher
<1>11. m.src_id <= seq[r.dst]
  <2>1. Named(r, m.src_id)
    BY DEF Named
  <2>. QED
    BY <1>1, <1>3, <2>1 DEF UniqueIds
<1>12. y # r.dst => IF Present(y, r)'
                    THEN Fresher(rt'[y][r], [id |-> m.src_id, metric |-> w])
                    ELSE FloodOver(r, m.src_id)'
  <2>1. PICK i \in Nat : i = m.src_id
    BY <1>3
  <2>. QED
    BY <1>1, <1>4, <1>10, <1>11, <2>1, KeptNext
<1>13. ASSUME NEW metric \in Int, metric > m.metric - w, metric >= 2
       PROVE  metric >= Least(n, k) /\ Offers(n, k, m.id, metric)'
  BY <1>2, <1>3, <1>6, <1>7, <1>13 DEF Offers, Fresher, Least, Present
<1>14. rt'[y][r] \in Entry
  BY DEF TypeOK
<1>15. PICK v \in Int : v = rt'[y][r].metric
  BY <1>14, EntryFields
<1>16. /\ x.from = n /\ x.to = y /\ x.flow = k /\ x.id = m.id
       /\ x.src_id = m.src_id /\ x.metric = m.metric
  BY <1>1, <1>2, <1>9 DEF Rrep
<1>17. m.metric >= Least(n, k) /\ Offers(n, k, m.id, m.metric)'
  BY <1>3, <1>6, <1>10, <1>13 DEF Least
<1>18. y # k.src =>
         /\ m.metric - 1 >= Least(n, k) /\ Offers(n, k, m.id, m.metric - 1)'
  <2>1. y # k.src => w >= 2
    BY <1>3, <1>10 DEF Least
  <2>. QED
    BY <1>3, <1>6, <1>13, <2>1
<1>19. y # k.src =>
         IF Present(y, r)'
         THEN \/ rt'[y][r].id > m.src_id
              \/ /\ rt'[y][r].id = m.src_id
                 /\ m.metric - v >= Least(n, k)
                 /\ Offers(n, k, m.id, m.metric - v)'
         ELSE FloodOver(r, m.src_id)'
  <2>1. CASE y # k.src /\ Present(y, r)'
    <3>1. \/ rt'[y][r].id > m.src_id
          \/ rt'[y][r].id = m.src_id /\ v < w
      BY <1>3, <1>12, <1>15, <2>1 DEF Fresher
    <3>2. CASE rt'[y][r].id = m.src_id /\ v < w
      <4>1. /\ m.metric - v \in Int /\ m.metric - v > m.metric - w
            /\ m.metric - v >= 2
        BY <1>3, <1>6, <3>2
      <4>. QED
        BY <1>13, <2>1, <3>2, <4>1
    <3>. QED
      BY <2>1, <3>1, <3>2
  <2>2. CASE ~ Present(y, r)'
    BY <1>3, <1>12, <2>2
  <2>. QED
    BY <2>1, <2>2
<1>20. Rev(k) = r /\ n # k.src
  BY <1>2
<1>. QED
  BY <1>10, <1>15, <1>16, <1>17, <1>18, <1>19, <1>20 DEF SoundRrep

LEMMA ForwardRrepSafe ==
  ASSUME IndInv, TypeOK', NEW n \in Node, NEW m \in rrep, ForwardRrep(n, m)
  PROVE  Safely
<1>1. /\ m.to = n /\ m.flow.src # n /\ seq' = seq /\ rreq' = rreq
  BY DEF ForwardRrep
<1>2. PICK r \in ById(n, rt[n], m.flow.src, m.src_id) :
        LET k == m.flow
            tbl == RreqRoute(rt[n], k, m.from, m.id,
                             m.metric - Metric(rt[n], r))
            found == ById(n, tbl, k.dst, m.id)
            onward == [m EXCEPT !.from = n, !.to = NextHop(tbl, r)]
        IN \/ /\ found = {}
              /\ rt' = [rt EXCEPT ![n] = tbl]
              /\ rrep' = rrep \ {m}
           \/ \E s \in found :
                /\ rt' = [rt EXCEPT ![n] =
                            RrepRoute(RrepRoute(tbl, s, NextHop(tbl, r)),
                                      r, NextHop(tbl, s))]
                /\ \E sent \in Unicast(neigh[n], {onward}) :
                      rrep' = (rrep \ {m}) \cup sent
  BY DEF ForwardRrep
<1>. DEFINE k == m.flow
            w == m.metric - Metric(rt[n], r)
            tbl == RreqRoute(rt[n], k, m.from, m.id, w)
            found == ById(n, tbl, k.dst, m.id)
            onward == [m EXCEPT !.from = n, !.to = NextHop(tbl, r)]
<1>3. TypeOK /\ m \in Rrep /\ rt[n] \in [Key -> Entry]
  BY DEF IndInv, TypeOK
<1>4. /\ k \in Key /\ m.from \in Node /\ m.id \in Nat /\ w \in Int
      /\ n # k.dst /\ m.from # k.src /\ w >= Least(m.from, k)
      /\ Offers(m.from, k, m.id, w) /\ Carried(k, m.id)
      /\ r # NeighEntry => /\ r = Rev(k) /\ r \in Key /\ r # k /\ Present(n, r)
                           /\ rt[n][r].id = m.src_id
                           /\ w = m.metric - rt[n][r].metric
  BY <1>1, <1>3, RrepFields, RrepOffers DEF Carried
<1>5. tbl \in [Key -> Entry] /\ r \in Key \cup {NeighEntry}
  BY <1>3, <1>4, RreqRouteType, ByIdType
<1>6. r # NeighEntry => tbl[r] = rt[n][r]
  BY <1>3, <1>4, RreqRouteWrites
<1>7. PICK t : /\ rt' = [rt EXCEPT ![n] = t]
               /\ \A j \in Key : SameRoute(t[j], tbl[j])
  <2>1. CASE rt' = [rt EXCEPT ![n] = tbl]
    BY <2>1 DEF SameRoute
  <2>2. ASSUME NEW s \in found,
               rt' = [rt EXCEPT ![n] =
                        RrepRoute(RrepRoute(tbl, s, NextHop(tbl, r)),
                                  r, NextHop(tbl, s))]
        PROVE  \E t : /\ rt' = [rt EXCEPT ![n] = t]
                      /\ \A j \in Key : SameRoute(t[j], tbl[j])
    <3>1. s \in Key \cup {NeighEntry} /\ (s \in Key => tbl[s].state # "none")
      BY ByIdType
    <3>. DEFINE t1 == RrepRoute(tbl, s, NextHop(tbl, r))
                t2 == RrepRoute(t1, r, NextHop(tbl, s))
    <3>2. t1 \in [Key -> Entry] /\ \A j \in Key : SameRoute(t1[j], tbl[j])
      <4>. HIDE DEF tbl
      <4>1. NextHop(tbl, r) \in Node \cup {NoNode}
        BY <1>5, NextHopType
      <4>. QED
        BY <1>5, <3>1, <4>1, RrepRouteKeeps, RrepRouteType
    <3>3. r \in Key => t1[r].state # "none"
      <4>1. r \in Key => tbl[r].state # "none"
        BY <1>4, <1>6, NullAssumption DEF Present
      <4>. QED
        BY <3>2, <4>1 DEF SameRoute
    <3>4. \A j \in Key : SameRoute(t2[j], t1[j])
      <4>. HIDE DEF t1, tbl
      <4>. QED
        BY <1>5, <3>2, <3>3, RrepRouteKeeps
    <3>5. \A j \in Key : SameRoute(t2[j], tbl[j])
      <4>. HIDE DEF t2, t1, tbl
      <4>. QED
        BY <3>2, <3>4 DEF SameRoute
    <3>. QED
      BY <2>2, <3>5
  <2>. QED
    BY <1>2, <2>1, <2>2
<1>8. \A j \in Key : SameRoute(t[j], RreqRoute(rt[n], k, m.from, m.id, w)[j])
  BY <1>7
<1>9. RouteStep
  <2>. HIDE DEF k, w
  <2>. QED
    BY <1>3, <1>4, <1>7, <1>8, Install
<1>10. /\ rt'[n][k].state # "none"
       /\ \/ rt'[n][k].id > m.id
          \/ rt'[n][k].id = m.id /\ rt'[n][k].metric <= w
  <2>1. rt'[n] = t
    BY <1>3, <1>7 DEF TypeOK
  <2>2. /\ t[k].state # "none"
        /\ \/ t[k].id > m.id
           \/ t[k].id = m.id /\ t[k].metric <= w
    <3>. HIDE DEF k, w
    <3>. QED
      BY <1>3, <1>4, <1>8, Installed
  <2>. QED
    BY <2>1, <2>2
<1>11. \A x \in rrep' : x \in rrep \/ (x = onward /\ x.to \in Node)
  <2>1. CASE rrep' = rrep \ {m}
    <3>. HIDE DEF onward
    <3>. QED
      BY <2>1
  <2>2. ASSUME NEW sent \in Unicast(neigh[n], {onward}),
               rrep' = (rrep \ {m}) \cup sent
        PROVE  \A x \in rrep' : x \in rrep \/ (x = onward /\ x.to \in Node)
    <3>1. \A x \in sent : x = onward /\ x.to \in neigh[n]
      BY UnicastSent
    <3>2. neigh[n] \subseteq Node
      BY <1>3 DEF TypeOK
    <3>. HIDE DEF onward
    <3>. QED
      BY <2>2, <3>1, <3>2
  <2>. QED
    BY <1>2, <2>1, <2>2
<1>12. ASSUME NEW x \in rrep', x \notin rrep
       PROVE  /\ r # NeighEntry /\ x = [m EXCEPT !.from = n, !.to = rt[n][r].next]
              /\ x.flow = k /\ x.id = m.id /\ x.src_id = m.src_id
  <2>1. x = onward /\ x.to \in Node
    BY <1>11, <1>12
  <2>2. x.to = NextHop(tbl, r) /\ x.flow = k /\ x.id = m.id
        /\ x.src_id = m.src_id
    BY <1>3, <2>1 DEF Rrep
  <2>3. r # NeighEntry
    BY <2>1, <2>2, NullAssumption DEF NextHop
  <2>4. NextHop(tbl, r) = rt[n][r].next
    BY <1>6, <2>3 DEF NextHop
  <2>. QED
    BY <2>1, <2>2, <2>3, <2>4
<1>13. MessageStep
  BY <1>1, <1>4, <1>12 DEF MessageStep, Carried
<1>14. ASSUME NEW x \in rrep', x \notin rrep
       PROVE  /\ Carried(x.flow, x.id) /\ Named(Rev(x.flow), x.src_id)
              /\ SoundRrep(x)'
  <2>1. Carried(x.flow, x.id) /\ Named(Rev(x.flow), x.src_id)
    BY <1>4, <1>12, <1>14 DEF Named
  <2>2. m.metric - rt[n][r].metric >= 1
    BY <1>4, <1>12, <1>14 DEF Least
  <2>3. SoundRrep(x)'
    <3>1. m.to = n /\ m.flow.src # n /\ n # m.flow.dst
      BY <1>1, <1>4
    <3>2. r \in Key /\ r = Rev(m.flow) /\ Present(n, r) /\ rt[n][r].id = m.src_id
      BY <1>4, <1>12, <1>14
    <3>3. w = m.metric - rt[n][r].metric
      BY <1>4, <1>12, <1>14
    <3>4. /\ rt'[n][m.flow].state # "none"
          /\ \/ rt'[n][m.flow].id > m.id
             \/ /\ rt'[n][m.flow].id = m.id
                /\ rt'[n][m.flow].metric <= m.metric - rt[n][r].metric
      <4>. HIDE DEF w
      <4>. QED
        BY <1>10, <3>3
    <3>5. x = [m EXCEPT !.from = n, !.to = rt[n][r].next]
      BY <1>12, <1>14
    <3>. HIDE DEF k, w, tbl, found, onward
    <3>. QED
      BY <1>9, <1>13, <2>2, <3>1, <3>2, <3>4, <3>5, OnwardSound
  <2>. QED
    BY <2>1, <2>3
<1>. QED
  BY <1>1, <1>9, <1>14, QuietStep
-----------------------------------------------------------------------------
(* The inductive invariant and what follows from it.                       *)

LEMMA IndInit == Init => IndInv
<1>. SUFFICES ASSUME Init PROVE IndInv
  OBVIOUS
<1>1. TypeOK
  BY TypeInit
<1>2. rreq = {} /\ rrep = {}
  BY DEF Init
<1>3. \A n \in Node, k \in Key : ~ Present(n, k)
  BY DEF Init, Present, NoEntry
<1>4. \A k, id : ~ (k \in Key /\ Named(k, id))
  BY <1>2, <1>3 DEF Named
<1>5. IdNamesRoute
  BY <1>1, <1>4, IdNamesUnique DEF UniqueIds
<1>. QED
  BY <1>1, <1>2, <1>3, <1>5 DEF IndInv

LEMMA StepSafely == IndInv /\ [Next]_vars => Safely
<1>. SUFFICES ASSUME IndInv, [Next]_vars PROVE Safely
  OBVIOUS
<1>1. TypeOK'
  BY TypeStep DEF IndInv
<1>2. ASSUME NEW n \in Node, NEW f \in Flow, GenRreq(n, f) PROVE Safely
  BY <1>1, <1>2, GenRreqSafe
<1>3. ASSUME NEW n \in Node, NEW f \in Flow, GenRrep(n, f) PROVE Safely
  BY <1>1, <1>3, GenRrepSafe
<1>4. ASSUME NEW f \in Flow, FireRrepTimer(f) PROVE Safely
  BY <1>1, <1>4, IdleSafe DEF FireRrepTimer
<1>5. ASSUME NEW n \in Node, NEW m \in rreq, DropRreq(n, m) PROVE Safely
  BY <1>1, <1>5, IdleSafe DEF DropRreq
<1>6. ASSUME NEW n \in Node, NEW m \in rreq, AnswerRreq(n, m) PROVE Safely
  BY <1>1, <1>6, AnswerRreqSafe
<1>7. ASSUME NEW n \in Node, NEW m \in rreq, ForwardRreq(n, m) PROVE Safely
  BY <1>1, <1>7, ForwardRreqSafe
<1>8. ASSUME NEW n \in Node, NEW m \in rrep, DropRrep(n, m) PROVE Safely
  BY <1>1, <1>8, IdleSafe DEF DropRrep
<1>9. ASSUME NEW n \in Node, NEW m \in rrep, FinishRrep(n, m) PROVE Safely
  BY <1>1, <1>9, FinishRrepSafe
<1>10. ASSUME NEW n \in Node, NEW m \in rrep, ForwardRrep(n, m) PROVE Safely
  BY <1>1, <1>10, ForwardRrepSafe
<1>11. ASSUME NEW n \in Node, NEW m \in rerr, RecvRerr(n, m) PROVE Safely
  BY <1>1, <1>11, RecvRerrSafe
<1>12. ASSUME NEW n \in Node, NEW x \in Node, NewNeigh(n, x) PROVE Safely
  BY <1>1, <1>12, IdleSafe DEF NewNeigh
<1>13. ASSUME NEW n \in Node, NEW x \in Node, DeleteNeigh(n, x) PROVE Safely
  BY <1>1, <1>13, DeleteNeighSafe
<1>14. ASSUME NEW n \in Node, NEW due \in SUBSET Key, Flush(n, due) PROVE Safely
  BY <1>1, <1>14, FlushSafe
<1>15. CASE UNCHANGED vars
  BY <1>1, <1>15, IdleSafe DEF vars
<1>. QED
  BY <1>2, <1>3, <1>4, <1>5, <1>6, <1>7, <1>8, <1>9, <1>10, <1>11, <1>12,
     <1>13, <1>14, <1>15 DEF Next

LEMMA IndStep == IndInv /\ [Next]_vars => IndInv'
BY StepSafely DEF Safely

(* The invariant that the checks of recv_rreq, recv_rrep and               *)
(* rreq_aodv_route keep: every entry and every message of a discovery is   *)
(* backed by its next hop or sender.                                       *)
THEOREM Inductive == Spec => []IndInv
<1>. QED
  BY IndInit, IndStep, PTL DEF Spec

LEMMA IndFresher == IndInv => NextHopFresher
BY DEF IndInv, NextHopFresher, SoundEntry

LEMMA IndPositive == IndInv => MetricPositive
<1>. SUFFICES ASSUME IndInv PROVE MetricPositive
  OBVIOUS
<1>1. ASSUME NEW n \in Node, NEW k \in Key, Present(n, k)
      PROVE  rt[n][k].metric > 0
  <2>1. rt[n][k] \in Entry /\ rt[n][k].metric >= Least(rt[n][k].next, k)
    BY <1>1 DEF IndInv, TypeOK, SoundEntry
  <2>. QED
    BY <2>1, EntryFields DEF Least
<1>2. ASSUME NEW m \in rrep PROVE m.metric > 0
  <2>1. m \in Rrep /\ m.metric >= Least(m.from, m.flow)
    BY DEF IndInv, TypeOK, SoundRrep
  <2>. QED
    BY <2>1, RrepFields DEF Least
<1>. QED
  BY <1>1, <1>2 DEF MetricPositive

(* Following next hops, entries only get fresher, for any mesh and any     *)
(* order, loss or delay of the messages (aodv_route.c:391-398).            *)
THEOREM Fresh == Spec => []NextHopFresher
<1>. QED
  BY Inductive, IndFresher, PTL

(* The subtraction of unsigned metrics in recv_rrep (rrep.c:216) never     *)
(* reaches zero or wraps around.                                           *)
THEOREM Positive == Spec => []MetricPositive
<1>. QED
  BY Inductive, IndPositive, PTL

(* A search by destination and id (aodv_route.c:549) never confuses the    *)
(* routes of two flows.                                                    *)
THEOREM IdsNameRoutes == Spec => []IdNamesRoute
<1>1. IndInv => IdNamesRoute
  BY DEF IndInv
<1>. QED
  BY <1>1, Inductive, PTL

LEMMA LeastNat ==
  ASSUME NEW T, T \subseteq Nat, T # {}
  PROVE  \E x \in T : \A y \in T : x <= y
<1>. DEFINE R == OpToRel(<, Nat)
<1>1. IsWellFoundedOn(R, Nat)
  BY NatLessThanWellFounded
<1>2. PICK x \in T : \A y \in T : <<y, x>> \notin R
  <2>. HIDE DEF R
  <2>. QED
    BY <1>1, WFMin
<1>3. \A y \in T : ~ (y < x)
  BY <1>2 DEF OpToRel
<1>. QED
  BY <1>3

LEMMA IndLoopFree == IndInv => LoopFree
<1>. SUFFICES ASSUME IndInv, NEW k \in Key, NEW S \in SUBSET Node, S # {},
                     \A n \in S : Present(n, k) /\ rt[n][k].next \in S
              PROVE  FALSE
  BY DEF LoopFree
<1>1. TypeOK /\ IdNamesRoute /\ seq[k.dst] \in Nat
  BY KeyFacts DEF IndInv, TypeOK
<1>2. \A n \in S : /\ rt[n][k].id \in Nat /\ rt[n][k].metric \in Nat
                   /\ rt[n][k].id <= seq[k.dst]
  <2>1. ASSUME NEW n \in S
        PROVE  /\ rt[n][k].id \in Nat /\ rt[n][k].metric \in Int
               /\ rt[n][k].id <= seq[k.dst]
    <3>1. rt[n][k] \in Entry
      BY <1>1 DEF TypeOK
    <3>. QED
      BY <1>1, <3>1, EntryFields DEF IdNamesRoute, IssuedIds
  <2>2. ASSUME NEW n \in S PROVE rt[n][k].metric > 0
    BY IndPositive DEF MetricPositive
  <2>. QED
    BY <2>1, <2>2
<1>3. \A n \in S : Fresher(rt[rt[n][k].next][k], rt[n][k])
  <2>1. ASSUME NEW n \in S PROVE Fresher(rt[rt[n][k].next][k], rt[n][k])
    <3>1. rt[n][k].next \in S /\ Present(rt[n][k].next, k)
      OBVIOUS
    <3>2. SoundEntry(n, k) /\ rt[n][k].next # k.dst
      BY <3>1 DEF IndInv, SoundEntry
    <3>. QED
      BY <3>1, <3>2 DEF SoundEntry
  <2>. QED
    BY <2>1
<1>. DEFINE T == {seq[k.dst] - rt[n][k].id : n \in S}
<1>4. PICK a \in S : \A n \in S : rt[n][k].id <= rt[a][k].id
  <2>1. T \subseteq Nat /\ T # {}
    BY <1>1, <1>2
  <2>2. PICK t \in T : \A u \in T : t <= u
    <3>. HIDE DEF T
    <3>. QED
      BY <2>1, LeastNat
  <2>3. PICK a \in S : t = seq[k.dst] - rt[a][k].id
    BY <2>2
  <2>4. \A n \in S : seq[k.dst] - rt[a][k].id <= seq[k.dst] - rt[n][k].id
    BY <2>2, <2>3
  <2>. QED
    BY <1>1, <1>2, <2>4
<1>. DEFINE A == {n \in S : rt[n][k].id = rt[a][k].id}
            U == {rt[n][k].metric : n \in A}
<1>5. PICK b \in A : \A n \in A : rt[b][k].metric <= rt[n][k].metric
  <2>1. U \subseteq Nat /\ U # {}
    BY <1>2
  <2>2. PICK t \in U : \A u \in U : t <= u
    <3>. HIDE DEF U
    <3>. QED
      BY <2>1, LeastNat
  <2>. QED
    BY <2>2
<1>6. PICK x \in S : x = rt[b][k].next
  OBVIOUS
<1>7. Fresher(rt[x][k], rt[b][k])
  BY <1>3, <1>6
<1>8. rt[x][k].id <= rt[b][k].id
  BY <1>4, <1>6
<1>9. rt[x][k].id = rt[b][k].id /\ rt[x][k].metric < rt[b][k].metric
  BY <1>2, <1>7, <1>8 DEF Fresher
<1>10. x \in A
  BY <1>5, <1>9
<1>. QED
  BY <1>2, <1>5, <1>9, <1>10

(* For every mesh, no sequence of floods, answers, errors, losses and      *)
(* expiries makes the next hops of a flow close a loop.                    *)
THEOREM NoLoops == Spec => []LoopFree
<1>. QED
  BY Inductive, IndLoopFree, PTL
-----------------------------------------------------------------------------
(* What a node knows of a route does not age.                              *)

LEMMA EntryRenewed ==
  ASSUME TypeOK, TypeOK', RouteStep, NEW n \in Node, NEW k \in Key
  PROVE  RouteRenewed(n, k)
<1>1. /\ rt[n][k].id \in Nat /\ rt[n][k].metric \in Int
      /\ rt'[n][k].id \in Nat /\ rt'[n][k].metric \in Int
  <2>1. rt[n][k] \in Entry /\ rt'[n][k] \in Entry
    BY DEF TypeOK
  <2>. QED
    BY <2>1, EntryFields
<1>2. CASE Kept(n, k)
  BY <1>2 DEF Kept, SameRoute, Present, RouteRenewed
<1>3. CASE Gone(n, k)
  BY <1>3 DEF Gone, RouteRenewed
<1>4. CASE Written(n, k)
  <2>1. /\ Present(n, k)' /\ Accepts(rt[n][k], rt'[n][k].id, rt'[n][k].metric)
        /\ Carried(k, rt'[n][k].id)
    BY <1>4 DEF Written
  <2>2. Present(n, k) => Fresher(rt'[n][k], rt[n][k])
    BY <2>1 DEF Accepts, Present, Fresher
  <2>3. ~ FloodOver(k, rt'[n][k].id)
    BY <1>1, <2>1 DEF Carried, FloodOver
  <2>. QED
    BY <2>1, <2>2, <2>3 DEF RouteRenewed
<1>. QED
  BY <1>2, <1>3, <1>4 DEF RouteStep

LEMMA StepRenews == IndInv /\ [Next]_vars => RoutesRenewed
<1>. SUFFICES ASSUME IndInv, [Next]_vars PROVE RoutesRenewed
  OBVIOUS
<1>1. TypeOK /\ TypeOK' /\ RouteStep /\ MessageStep
  BY StepSafely DEF Safely, IndInv
<1>2. \A n \in Node, k \in Key : RouteRenewed(n, k)
  BY <1>1, EntryRenewed
<1>3. Hushed
  BY <1>1, FloodsHush
<1>4. \A k \in Key : seq[k.dst] \in Nat
  BY <1>1, KeyFacts DEF TypeOK
<1>. QED
  BY <1>2, <1>3, <1>4 DEF RoutesRenewed, Hushed

(* For every mesh, an entry changes for a fresher one only and comes back  *)
(* only by a flood that is not over: the tests of rreq_aodv_route          *)
(* (aodv_route.c:391-398) and the lifetime of entries do it together.      *)
THEOREM RoutesRenew == Spec => NoOlderRoute
<1>1. IndInv /\ [Next]_vars => [RoutesRenewed]_vars
  BY StepRenews
<1>. QED
  BY <1>1, Inductive, PTL DEF Spec, NoOlderRoute

LEMMA SeqGrows == TypeOK /\ [Next]_vars => \A n \in Node : seq'[n] >= seq[n]
<1>. SUFFICES ASSUME TypeOK, [Next]_vars PROVE \A n \in Node : seq'[n] >= seq[n]
  OBVIOUS
<1>1. seq' = seq \/ \E n \in Node : seq' = [seq EXCEPT ![n] = @ + 1]
  <2>1. ASSUME NEW n \in Node, NEW f \in Flow, GenRreq(n, f) \/ GenRrep(n, f)
        PROVE  seq' = seq \/ seq' = [seq EXCEPT ![n] = @ + 1]
    BY <2>1 DEF GenRreq, GenRrep
  <2>2. ASSUME NEW f \in Flow, FireRrepTimer(f) PROVE seq' = seq
    BY <2>2 DEF FireRrepTimer
  <2>3. ASSUME NEW n \in Node, NEW m \in rreq,
               DropRreq(n, m) \/ AnswerRreq(n, m) \/ ForwardRreq(n, m)
        PROVE  seq' = seq
    BY <2>3 DEF DropRreq, AnswerRreq, ForwardRreq
  <2>4. ASSUME NEW n \in Node, NEW m \in rrep,
               DropRrep(n, m) \/ FinishRrep(n, m) \/ ForwardRrep(n, m)
        PROVE  seq' = seq
    BY <2>4 DEF DropRrep, FinishRrep, ForwardRrep
  <2>5. ASSUME NEW n \in Node, NEW m \in rerr, RecvRerr(n, m) PROVE seq' = seq
    BY <2>5 DEF RecvRerr
  <2>6. ASSUME NEW n \in Node, NEW x \in Node, NewNeigh(n, x) \/ DeleteNeigh(n, x)
        PROVE  seq' = seq
    BY <2>6 DEF NewNeigh, DeleteNeigh
  <2>7. ASSUME NEW n \in Node, NEW due \in SUBSET Key, Flush(n, due)
        PROVE  seq' = seq
    BY <2>7 DEF Flush
  <2>8. CASE UNCHANGED vars
    BY <2>8 DEF vars
  <2>. QED
    BY <2>1, <2>2, <2>3, <2>4, <2>5, <2>6, <2>7, <2>8 DEF Next
<1>2. seq \in [Node -> Nat]
  BY DEF TypeOK
<1>. QED
  BY <1>1, <1>2

\* Node n has, or has had, an entry for k with this id or a newer one.
Knew(n, k, id) ==
  IF Present(n, k) THEN rt[n][k].id >= id
  ELSE id = 0 \/ (id - 1 <= seq[k.dst] /\ FloodOver(k, id - 1))

LEMMA KnewStep ==
  ASSUME IndInv, [Next]_vars, NEW n \in Node, NEW k \in Key, NEW id \in Nat,
         Knew(n, k, id)
  PROVE  Knew(n, k, id)'
<1>1. TypeOK /\ TypeOK' /\ RoutesRenewed /\ IssuedIds
  BY StepSafely, StepRenews DEF Safely, IndInv, IdNamesRoute
<1>2. /\ seq[k.dst] \in Nat /\ seq'[k.dst] \in Nat /\ seq'[k.dst] >= seq[k.dst]
      /\ rt[n][k].id \in Nat /\ rt'[n][k].id \in Nat
  <2>1. rt[n][k] \in Entry /\ rt'[n][k] \in Entry /\ k.dst \in Node
    BY <1>1, KeyFacts DEF TypeOK
  <2>2. seq'[k.dst] >= seq[k.dst]
    BY <1>1, <2>1, SeqGrows
  <2>. QED
    BY <1>1, <2>1, <2>2, EntryFields DEF TypeOK
<1>3. RouteRenewed(n, k)
  BY <1>1 DEF RoutesRenewed
<1>4. ASSUME NEW i \in Nat, i <= seq[k.dst], FloodOver(k, i)
      PROVE  FloodOver(k, i)'
  BY <1>1, <1>2, <1>4 DEF RoutesRenewed
<1>5. CASE id = 0
  BY <1>2, <1>5 DEF Knew
<1>6. CASE id # 0 /\ Present(n, k)
  <2>1. rt[n][k].id >= id /\ rt[n][k].id <= seq[k.dst]
    BY <1>1, <1>6 DEF Knew, IssuedIds
  <2>2. CASE Present(n, k)'
    <3>1. rt'[n][k].id >= rt[n][k].id
      BY <1>2, <1>3, <1>6, <2>2 DEF RouteRenewed, Fresher
    <3>. QED
      BY <1>2, <2>1, <2>2, <3>1 DEF Knew
  <2>3. CASE ~ Present(n, k)'
    <3>1. FloodOver(k, rt[n][k].id)
      BY <1>3, <1>6, <2>3 DEF RouteRenewed
    <3>2. id - 1 \in Nat /\ id - 1 <= rt[n][k].id /\ id - 1 <= seq[k.dst]
      BY <1>2, <1>6, <2>1
    <3>3. FloodOver(k, id - 1)
      BY <1>1, <1>2, <3>1, <3>2, FloodOverDown
    <3>4. FloodOver(k, id - 1)'
      BY <1>4, <3>2, <3>3
    <3>5. id - 1 <= seq'[k.dst]
      BY <1>2, <3>2
    <3>. QED
      BY <2>3, <3>4, <3>5 DEF Knew
  <2>. QED
    BY <2>2, <2>3
<1>7. CASE id # 0 /\ ~ Present(n, k)
  <2>1. id - 1 \in Nat /\ id - 1 <= seq[k.dst] /\ FloodOver(k, id - 1)
    BY <1>7 DEF Knew
  <2>2. CASE Present(n, k)'
    <3>1. ~ FloodOver(k, rt'[n][k].id)
      BY <1>3, <1>7, <2>2 DEF RouteRenewed
    <3>2. ~ (rt'[n][k].id <= id - 1)
      BY <1>1, <1>2, <2>1, <3>1, FloodOverDown
    <3>3. rt'[n][k].id >= id
      BY <1>2, <3>2
    <3>. QED
      BY <2>2, <3>3 DEF Knew
  <2>3. CASE ~ Present(n, k)'
    <3>1. FloodOver(k, id - 1)' /\ id - 1 <= seq'[k.dst]
      BY <1>2, <1>4, <2>1
    <3>. QED
      BY <2>3, <3>1 DEF Knew
  <2>. QED
    BY <2>2, <2>3
<1>. QED
  BY <1>5, <1>6, <1>7

(* For every mesh, once a node has had a route with some id, every route   *)
(* it ever has for the same flow carries that id or a newer one, removals  *)
(* (aodv_route.c:175) and late messages in between or not.                 *)
THEOREM IdsNeverGoBack ==
  ASSUME NEW n \in Node, NEW k \in Key, NEW id \in Nat
  PROVE  Spec => []((Present(n, k) /\ rt[n][k].id >= id)
                      => [](Present(n, k) => rt[n][k].id >= id))
<1>1. Present(n, k) /\ rt[n][k].id >= id => Knew(n, k, id)
  BY DEF Knew
<1>2. IndInv /\ [Next]_vars /\ Knew(n, k, id) => Knew(n, k, id)'
  BY KnewStep
<1>3. Knew(n, k, id) => (Present(n, k) => rt[n][k].id >= id)
  BY DEF Knew
<1>. QED
  BY <1>1, <1>2, <1>3, Inductive, PTL DEF Spec
=============================================================================
