------------------------------ MODULE Gateways ------------------------------
(***************************************************************************)
(* Gateways (gw_list.c, st_rreq.c).  A gateway floods an ST-RREQ with a    *)
(* number of its own every ten seconds.  A node keeps one entry for each   *)
(* gateway it heard of, passes an ST-RREQ on when it took it for news, and *)
(* every 21 seconds throws out the entries not renewed and makes the best  *)
(* of the others its default gateway, which its RREQs for the outside name *)
(* (rreq.c:176, 278).                                                      *)
(*                                                                         *)
(* A broadcast may miss any of the neighbours; a neighbour may have been   *)
(* forgotten, or have no rate yet (then its ST-RREQ is dropped); a gateway *)
(* may restart.  A flood is over in a fraction of ST_INTERVAL, so no other *)
(* of the gateway starts while one is under way, and ACTIVE_GWROUTE_TIMEOUT *)
(* does not pass between an ST-RREQ taken and the end of its flood.        *)
(***************************************************************************)
EXTENDS Integers, Sequences, FiniteSets

CONSTANTS
  Node,
  Gateway,      \* nodes with g_aodv_gateway set
  Link,         \* Link[n]: nodes in reach of n
  Cost,         \* Cost[n][m]: what the metric grows by when n hears m
  Limit,        \* DEFAULT_ETT_METRIC
  NetDiameter,  \* NET_DIAMETER
  Null,         \* g_null_ip
  Stray,        \* what a walk led astray may choose: any address at all
  MaxId,        \* bound: MaxId[g] is the number of ST-RREQs of gateway g
  MaxRestarts,  \* bound: restarts of gateways
  Least         \* Least[g][n]: the least metric at which n can hear g

ASSUME GatewayAssumption ==
  /\ Gateway \subseteq Node /\ Null \notin Node
  /\ MaxId \in [Gateway -> Nat] /\ MaxRestarts \in Nat /\ NetDiameter \in Nat /\ Limit \in Nat
  /\ IsFiniteSet(Node) /\ \A n \in Node : Link[n] \subseteq Node \ {n}
  \* HOPS counts one for each hop; the time that ETT adds is never less than
  \* PROBE_PACKET * 1000 / (RATE_54 * 100).
  /\ \A m \in Node : \A n \in Link[m] : Cost[n][m] \in Nat \ {0}

\* What Least[g] is, a function on the nodes that can hear g.
IsLeast(g, d) ==
  /\ g \in DOMAIN d /\ DOMAIN d \subseteq Node /\ d[g] = 0
  /\ \A m \in DOMAIN d : d[m] \in Nat
  /\ \A m \in DOMAIN d : \A n \in Link[m] : n \in DOMAIN d /\ d[n] <= d[m] + Cost[n][m]
  /\ \A n \in DOMAIN d \ {g} :
       \E m \in DOMAIN d : n \in Link[m] /\ d[n] = d[m] + Cost[n][m]

ASSUME LeastAssumption == \A g \in Gateway : IsLeast(g, Least[g])

VARIABLES
  id,         \* id[g]: dst_id of the route of g to itself
  list,       \* list[n]: gw_list, a sequence of entries
  default,    \* default[n]: g_default_gw
  tasks,      \* tasks[n]: ST-RREQs that wait for the thread of n
  restarts,   \* restarts so far
  hurt        \* floods, <<gateway, number>>, of which a copy was not taken

vars == <<id, list, default, tasks, restarts, hurt>>

Init ==
  /\ id = [g \in Gateway |-> 0]
  /\ list = [n \in Node |-> <<>>] /\ default = [n \in Node |-> Null]
  /\ tasks = [n \in Node |-> <<>>]
  /\ restarts = 0 /\ hurt = {}
-----------------------------------------------------------------------------
(* gw_list.c, on one list.                                                 *)

Entry(m) == [ip |-> m.gw, id |-> m.id, metric |-> m.metric]
At(l, g) == {i \in DOMAIN l : l[i].ip = g}

\* Mutants of Refused: the metric is not compared; a number already known is
\* never taken again.
RefusedOlder(l, m) == \E i \in At(l, m.gw) : l[i].id > m.id
RefusedSeen(l, m) == \E i \in At(l, m.gw) : l[i].id >= m.id

\* update_gw, which takes all but an older number, or the same over a path
\* that is worse.
Refused(l, m) ==
  \E i \in At(l, m.gw) : \/ l[i].id > m.id
                         \/ l[i].id = m.id /\ l[i].metric < m.metric
UpdateGw(l, m) ==
  IF At(l, m.gw) = {} THEN <<Entry(m)>> \o l
  ELSE [i \in DOMAIN l |-> IF l[i].ip = m.gw THEN Entry(m) ELSE l[i]]

\* The gateway update_gw_lifetimes chooses: the first with the least metric
\* below Limit.
Best(l) ==
  LET fit == {i \in DOMAIN l : l[i].metric < Limit}
      least == {i \in fit : \A j \in fit : l[i].metric <= l[j].metric}
  IN IF fit = {} THEN Null ELSE l[CHOOSE i \in least : \A j \in least : i <= j].ip
-----------------------------------------------------------------------------
\* Copies of flood k of g are under way; any flood of g is.
Waiting(g, k) ==
  \E n \in Node : \E i \in DOMAIN tasks[n] : tasks[n][i].gw = g /\ tasks[n][i].id = k
Quiet(g) == \A n \in Node : \A i \in DOMAIN tasks[n] : tasks[n][i].gw # g

\* local_broadcast, which sends nothing once the TTL is used up.  Of those in
\* reach, heard get the ST-RREQ, know n as a neighbour and have a rate for it;
\* recv_rreq_st ignores it at the others.
Broadcast(n, m, before) ==
  \E heard \in SUBSET (IF m.hops < NetDiameter THEN Link[n] ELSE {}) :
    /\ tasks' = [k \in Node |-> IF k \in heard THEN Append(before[k], m) ELSE before[k]]
    /\ hurt' = IF heard = Link[n] THEN hurt ELSE hurt \cup {<<m.gw, m.id>>}

\* gen_st_rreq.
GenStRreq(g) ==
  /\ id[g] < MaxId[g] /\ Quiet(g)
  /\ id' = [id EXCEPT ![g] = @ + 1]
  /\ Broadcast(g, [gw |-> g, id |-> id[g] + 1, hops |-> 0, metric |-> 0, from |-> g],
               tasks)
  /\ UNCHANGED <<list, default, restarts>>

\* recv_rreq_st.
RecvRreqSt(n) ==
  /\ tasks[n] # <<>>
  /\ LET m == Head(tasks[n])
         here == [m EXCEPT !.hops = @ + 1, !.metric = @ + Cost[n][m.from], !.from = n]
         rest == [tasks EXCEPT ![n] = Tail(@)]
     IN \/ /\ n = m.gw \/ Refused(list[n], here)
           /\ tasks' = rest
           /\ UNCHANGED <<list, hurt>>
        \/ /\ n # m.gw /\ ~ Refused(list[n], here)
           /\ list' = [list EXCEPT ![n] = UpdateGw(@, here)]
           /\ Broadcast(n, here, rest)
  /\ UNCHANGED <<id, default, restarts>>

\* The indices I of a list in their order: the only such function.
InOrder(I) ==
  {f \in [1 .. Cardinality(I) -> I] : \A i, j \in DOMAIN f : i < j => f[i] < f[j]}

\* The entries of n that may be past their lifetime: all but those the present
\* flood of their gateway renewed.
MayBeDue(n) == {i \in DOMAIN list[n] : ~ Waiting(list[n][i].ip, list[n][i].id)}

\* Mutant of UpdateGwLifetimes: the default gateway stays when there is no other.
UpdateGwLifetimesSticky(n) ==
  \E due \in SUBSET MayBeDue(n) :
  \E keep \in InOrder(DOMAIN list[n] \ due) :
    LET live == [i \in DOMAIN keep |-> list[n][keep[i]]] IN
    /\ list' = [list EXCEPT ![n] = live]
    /\ default' = [default EXCEPT ![n] = IF Best(live) = Null THEN @ ELSE Best(live)]
    /\ UNCHANGED <<id, tasks, restarts, hurt>>

\* update_gw_lifetimes, with the entries in due past their lifetime.  After an
\* entry is freed the walk reads its next pointer: that may still be what it
\* was, or end the walk at this entry, or lead astray, where the choice is made
\* from what is found there; a kernel that crashes does nothing from then on.
UpdateGwLifetimes(n) ==
  \E due \in SUBSET MayBeDue(n) :
  \E end \in due \cup {Len(list[n])} :
  \E keep \in InOrder((1 .. end) \ due) :
    LET live == [i \in DOMAIN keep |-> list[n][keep[i]]] IN
    /\ list' = [list EXCEPT ![n] = live \o SubSeq(@, end + 1, Len(@))]
    /\ \/ default' = [default EXCEPT ![n] = Best(live)]
       \/ end \in due /\ default' = [default EXCEPT ![n] = Stray]
    /\ UNCHANGED <<id, tasks, restarts, hurt>>
-----------------------------------------------------------------------------
\* A gateway is restarted, and numbers its ST-RREQs from the start.  Until the
\* next hellos it knows no neighbour, so what others flooded passes it by.
Restart(g) ==
  /\ restarts < MaxRestarts /\ restarts' = restarts + 1
  /\ \A h \in Gateway \ {g} : Quiet(h)
  /\ id' = [id EXCEPT ![g] = 0]
  /\ list' = [list EXCEPT ![g] = <<>>] /\ default' = [default EXCEPT ![g] = Null]
  /\ tasks' = [tasks EXCEPT ![g] = <<>>]
  /\ hurt' = hurt \cup UNION {{h} \X (1 .. MaxId[h]) : h \in Gateway}

Next ==
  \/ \E g \in Gateway : GenStRreq(g) \/ Restart(g)
  \/ \E n \in Node : RecvRreqSt(n) \/ UpdateGwLifetimes(n)

Spec == Init /\ [][Next]_vars
-----------------------------------------------------------------------------
(* update_gw takes an ST-RREQ again that comes over a path just as good,   *)
(* and takes any once the entry is gone (gw_list.c:63).  Still no ST-RREQ  *)
(* comes back to where it was: it is never passed on by more nodes than    *)
(* there are.                                                              *)
NoneComesBack ==
  \A n \in Node : \A i \in DOMAIN tasks[n] : tasks[n][i].hops < Cardinality(Node)

(* When a flood of which no copy was lost is over, every node that still   *)
(* has its entry knows the least metric at which the gateway can be heard, *)
(* in whatever order the copies came (gw_list.c:59).                       *)
FloodFindsLeast ==
  \A g \in Gateway : \A k \in 1 .. MaxId[g] :
    <<g, k>> \notin hurt /\ ~ Waiting(g, k) =>
      \A n \in Node \ {g} : \A i \in At(list[n], g) :
        list[n][i].id = k => list[n][i].metric = Least[g][n]

(* The default gateway that RREQs name is one the list holds, although     *)
(* entries come and go without a look at it and the walk that frees them   *)
(* may be cut short (gw_list.c:154, 166).  Only a walk led astray may      *)
(* choose another.                                                         *)
DefaultListed ==
  \A n \in Node :
    default[n] \notin {Null, Stray} => At(list[n], default[n]) # {}
=============================================================================
