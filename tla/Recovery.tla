------------------------------ MODULE Recovery ------------------------------
(***************************************************************************)
(* Broken links and the recovery path (brk_list.c, rcvp.c, and where they  *)
(* are called from: rerr.c, hello.c, rrep.c).  A node that reports or      *)
(* hears of a broken route notes it as a broken link.  When a new          *)
(* neighbour turns up it tries to find the destinations of its broken      *)
(* links again; the one that succeeds sends a RCVP back along the path of  *)
(* the flow, and each node that passes it on forgets its link.             *)
(*                                                                         *)
(* Every flow has a path that stays the same; routes along it break and    *)
(* are found again.  RERR, RCVP and RRDP travel from a node to the one     *)
(* before it; what one node sends another arrives in order or not at all.  *)
(* The RREQs that recv_hello sends are discoveries like any other: their   *)
(* RREPs come whenever they come.  No DTN layer is registered and there is *)
(* no gateway, so last_avail_ip is null and is_overlapped_with_route finds *)
(* nothing.                                                                *)
(***************************************************************************)
EXTENDS Integers, Sequences, FiniteSets

CONSTANTS
  Node,       \* nodes
  Flow,       \* flows: records [src, dst]; destinations are numbers
  Path,       \* Path[f]: the nodes of flow f from its source on, in order
  Null,       \* no node
  MaxLinks,   \* bound: links noted and not paid for before the last break
  MaxTasks    \* bound: messages at a node when another break or hello comes

Dst == {f.dst : f \in Flow}
On(n, f) == \E i \in 1 .. Len(Path[f]) : Path[f][i] = n
Pos(n, f) == CHOOSE i \in 1 .. Len(Path[f]) : Path[f][i] = n
\* last_hop of a route, which at the source is no node, and next_hop.
LastHop(n, f) == IF n = f.src THEN Null ELSE Path[f][Pos(n, f) - 1]
NextHop(n, f) == Append(Path[f], Null)[Pos(n, f) + 1]

ASSUME RecoveryAssumption ==
  /\ MaxLinks \in Nat /\ MaxTasks \in Nat /\ Null \notin Node
  /\ IsFiniteSet(Node) /\ IsFiniteSet(Flow)
  \* A path is free of loops.
  /\ \A f \in Flow : /\ f.dst \in Nat
                     /\ Path[f] \in Seq(Node) /\ Path[f] # <<>>
                     /\ Path[f][1] = f.src
                     /\ \A i, j \in 1 .. Len(Path[f]) : Path[f][i] = Path[f][j] => i = j

VARIABLES
  valid,    \* valid[n]: flows whose route at n is not INVALID
  brk,      \* brk[n]: brk_list, a sequence of links
  tasks,    \* tasks[n]: messages that wait for the thread of n
  down,     \* nodes whose kernel has crashed
  credit,   \* links noted so far, less RCVPs sent so far
  clean     \* no message was lost, no link outlived its time, no node crashed

vars == <<valid, brk, tasks, down, credit, clean>>

\* heard: the link was noted because of a RERR.
Link(n, f, heard) ==
  [flow |-> f, last |-> LastHop(n, f), state |-> "ACTIVE", heard |-> heard]
Message(kind, f) == [kind |-> kind, flow |-> f]
Packet(n, kind, f) == [to |-> LastHop(n, f), message |-> Message(kind, f)]

Init ==
  /\ valid = [n \in Node |-> {f \in Flow : On(n, f)}]
  /\ brk = [n \in Node |-> <<>>] /\ tasks = [n \in Node |-> <<>>]
  /\ down = {} /\ credit = 0 /\ clean = TRUE

\* The members of l at the places in I, in their order.
Picked(l, I) ==
  LET at(k) == CHOOSE i \in I : Cardinality({j \in I : j <= i}) = k
  IN [k \in 1 .. Cardinality(I) |-> l[at(k)]]
-----------------------------------------------------------------------------
(* brk_list.c, on one list.                                                *)

\* The places of the links to d, and of the link of f (find_brk_link and
\* find_first_brk_link_with_dst, which stop at the first greater destination).
Upto(l, d) == {i \in 1 .. Len(l) : \A j \in 1 .. i : l[j].flow.dst <= d}
LinksTo(l, d) == {i \in Upto(l, d) : l[i].flow.dst = d}
LinkOf(l, f) == {i \in LinksTo(l, f.dst) : l[i].flow = f}

\* Mutant of InsertLink: at the head, whatever is there.
InsertLinkFirst(l, k) == <<k>> \o l

\* insert_brk_link: in front of the first link whose destination is not less.
InsertLink(l, k) ==
  LET less == {i \in 1 .. Len(l) : \A j \in 1 .. i : l[j].flow.dst < k.flow.dst}
      at == Cardinality(less)
  IN SubSeq(l, 1, at) \o <<k>> \o SubSeq(l, at + 1, Len(l))

\* flush_brk_list, when the links of the flows in due are past their lifetime.
\* Such a link is marked and renewed if it was ACTIVE, and then the one behind
\* it is removed; else it is removed itself.  The link after that is passed
\* over.  Where there is none the walk follows a null pointer.
FlushBrkList(l, due) ==
  LET places == 1 .. Len(l)
      Step(i) == IF l[i].flow \notin due THEN i + 1
                ELSE IF l[i].state = "ACTIVE" THEN i + 3 ELSE i + 2
      seen == {i \in places : \A C \in SUBSET places :
                 (1 \in C /\ \A j \in C : Step(j) \in C \/ Step(j) > Len(l)) => i \in C}
      past == {i \in seen : l[i].flow \in due}
      marked == {i \in past : l[i].state = "ACTIVE"}
      gone == {i \in places : i \in past \ marked \/ i - 1 \in marked}
      after == [i \in places |-> IF i \in marked THEN [l[i] EXCEPT !.state = "INVALID"]
                                 ELSE l[i]]
  IN [list |-> Picked(after, places \ gone),
      ok   |-> \A i \in past : Step(i) <= Len(l) + 1,
      due  |-> due \ {l[i].flow : i \in marked}]

\* remove_brk_link.
Without(l, I) == Picked(l, (1 .. Len(l)) \ I)
-----------------------------------------------------------------------------
(* Messages and routes.                                                    *)

\* send_message for each of ms, sequences of a node and a message, of which
\* only those in got arrive.
Send(n, rest, ms, flawless) ==
  \E got \in SUBSET (1 .. Len(ms)) :
    LET content == [i \in 1 .. Len(ms) |-> ms[i].message]
        Arriving(m) == {i \in got : ms[i].to = m /\ m \notin down}
    IN /\ tasks' = [m \in Node |->
                      (IF m = n THEN rest ELSE tasks[m]) \o Picked(content, Arriving(m))]
       /\ clean' = (clean /\ flawless /\ got = 1 .. Len(ms))

\* The orders in which the routing table may list the routes of F, and the
\* routes it may hold at n: INVALID ones stay until they are flushed.
Listings(F) ==
  {q \in [1 .. Cardinality(F) -> F] :
     \A i, j \in DOMAIN q : i < j => q[i].dst <= q[j].dst /\ q[i] # q[j]}
Tables(n) == {F \in SUBSET {f \in Flow : On(n, f)} : valid[n] \subseteq F}

\* What gen_rerr and recv_rerr do for the route of f: the link noted or its
\* lifetime renewed (its state is not), the list flushed, a RERR sent, which the
\* source of a flow does not do.  r is what they have done before: the list, is
\* the kernel still up, whose links are past their lifetime, how many links are
\* new, and the RERRs.
Note(n, r, f, heard) ==
  LET known == LinkOf(r.list, f) # {}
      noted == IF known THEN r.list ELSE InsertLink(r.list, Link(n, f, heard))
      left  == FlushBrkList(noted, r.due \ {f})
  IN IF ~ r.ok THEN r
     ELSE [list |-> left.list, ok |-> left.ok, due |-> left.due,
           new |-> IF known THEN r.new ELSE r.new + 1,
           ms |-> IF n = f.src THEN r.ms ELSE Append(r.ms, Packet(n, "rerr", f))]

\* The same for the routes in q one after the other.
NoteAll(n, q, heard, over) ==
  LET after[i \in 0 .. Len(q)] ==
        IF i = 0
        THEN [list |-> brk[n], ok |-> TRUE, due |-> over, new |-> 0, ms |-> <<>>]
        ELSE Note(n, after[i - 1], q[i], heard)
  IN after[Len(q)]

\* In the end they are expired.
NoteBreaks(n, q, heard, rest) ==
  \E over \in SUBSET {brk[n][i].flow : i \in 1 .. Len(brk[n])} :
    LET all == NoteAll(n, q, heard, over) IN
    /\ brk' = [brk EXCEPT ![n] = all.list]
    /\ down' = IF all.ok THEN down ELSE down \cup {n}
    /\ credit' = credit + all.new
    /\ Send(n, rest, all.ms, over = {} /\ all.ok)
    /\ valid' = [valid EXCEPT ![n] = @ \ {q[i] : i \in 1 .. Len(q)}]

\* Mutant of GenRcvp: the links stay.
GenRcvpKeeping(n, d, ms) ==
  LET away == {i \in LinksTo(brk[n], d) : brk[n][i].flow.src # n}
      rcvps == Picked([i \in 1 .. Len(brk[n]) |-> Packet(n, "rcvp", brk[n][i].flow)], away)
  IN
  /\ credit' = credit - Cardinality(away)
  /\ Send(n, tasks[n], rcvps \o ms, TRUE)
  /\ UNCHANGED brk

\* gen_rcvp at n: one RCVP for each link to d of another source, and all the
\* links to d removed.  ms are messages sent after them by the same handler.
GenRcvp(n, d, ms) ==
  LET to == LinksTo(brk[n], d)
      away == {i \in to : brk[n][i].flow.src # n}
      rcvp == [i \in 1 .. Len(brk[n]) |->
                 [to |-> brk[n][i].last, message |-> Message("rcvp", brk[n][i].flow)]]
  IN
  /\ brk' = [brk EXCEPT ![n] = Without(@, to)]
  /\ credit' = credit - Cardinality(away)
  /\ Send(n, tasks[n], Picked(rcvp, away) \o ms, TRUE)

\* The RRDPs of recv_hello: for the routes of other sources, as the table lists
\* them, up to the first INVALID one.
Redirections(n, q) ==
  Picked([i \in DOMAIN q |-> Packet(n, "rrdp", q[i])],
         {i \in DOMAIN q : q[i].src # n /\ \A j \in 1 .. i : q[j] \in valid[n]})
-----------------------------------------------------------------------------
(* What happens to a node.                                                 *)

Room == \A m \in Node : Len(tasks[m]) < MaxTasks

\* recv_rrep at a node on the way makes the route of f valid again.
Found(n, f) ==
  /\ n \notin down /\ On(n, f) /\ n # f.src /\ f \notin valid[n]
  /\ valid' = [valid EXCEPT ![n] = @ \cup {f}]
  /\ UNCHANGED <<brk, tasks, down, credit, clean>>

\* recv_rrep at the node that asked for d.
RecvRrep(n, d) ==
  /\ n \notin down /\ Room
  /\ valid' = [valid EXCEPT ![n] = @ \cup {f \in Flow : f.src = n /\ f.dst = d}]
  /\ GenRcvp(n, d, <<>>)
  /\ UNCHANGED down

\* gen_rerr, which delete_aodv_neigh calls for the neighbour hop: every route
\* over it that is valid, and at its source even one that is INVALID.
GenRerr(n, hop) ==
  /\ n \notin down /\ credit < MaxLinks /\ Room
  /\ \E F \in Tables(n) :
       LET broken == {f \in F : /\ NextHop(n, f) = hop
                                /\ f \in valid[n] \/ f.src = n}
       IN broken # {} /\ \E q \in Listings(broken) : NoteBreaks(n, q, FALSE, tasks[n])

\* recv_hello of a node that was no neighbour.  The walk over the links stops
\* at the first ACTIVE one that leads to the new neighbour.
RecvHello(n, who) ==
  LET hits == {i \in 1 .. Len(brk[n]) :
                 brk[n][i].state = "ACTIVE" /\ brk[n][i].flow.dst = who}
  IN
  /\ n \notin down /\ Room
  /\ \E F \in Tables(n) : \E q \in Listings(F) :
       \/ hits # {} /\ GenRcvp(n, who, Redirections(n, q))
       \/ /\ hits = {}
          /\ Send(n, tasks[n], Redirections(n, q), TRUE)
          /\ UNCHANGED <<brk, credit>>
  /\ UNCHANGED <<valid, down>>
-----------------------------------------------------------------------------
(* The thread of n.                                                        *)

Take(n, kind) ==
  n \notin down /\ tasks[n] # <<>> /\ Head(tasks[n]).kind = kind

\* recv_rerr.  The sender is the next hop; a route that is INVALID may be gone.
RecvRerr(n) ==
  /\ Take(n, "rerr")
  /\ LET f == Head(tasks[n]).flow IN
     \/ (f \in valid[n] \/ n = f.src) /\ NoteBreaks(n, <<f>>, TRUE, Tail(tasks[n]))
     \/ /\ f \notin valid[n]
        /\ tasks' = [tasks EXCEPT ![n] = Tail(@)]
        /\ UNCHANGED <<valid, brk, down, credit, clean>>

\* Mutant of RecvRcvp: the link is forgotten before it is used to pass it on.
RecvRcvpStops(n) ==
  /\ Take(n, "rcvp")
  /\ brk' = [brk EXCEPT ![n] = Without(@, LinkOf(@, Head(tasks[n]).flow))]
  /\ tasks' = [tasks EXCEPT ![n] = Tail(@)]
  /\ UNCHANGED <<valid, down, credit, clean>>

\* recv_rcvp.
RecvRcvp(n) ==
  /\ Take(n, "rcvp")
  /\ LET f == Head(tasks[n]).flow
         old == LinkOf(brk[n], f)
         pass == old # {} /\ n # f.src
     IN /\ brk' = [brk EXCEPT ![n] = Without(@, old)]
        /\ Send(n, Tail(tasks[n]),
                IF pass THEN <<Packet(n, "rcvp", f)>> ELSE <<>>, TRUE)
        /\ credit' = IF pass THEN credit - 1 ELSE credit
  /\ UNCHANGED <<valid, down>>

\* recv_rrdp.  The source frees the message, which the thread frees again:
\* that may go unnoticed, or not.
RecvRrdp(n) ==
  /\ Take(n, "rrdp")
  /\ LET f == Head(tasks[n]).flow IN
     \/ /\ n # f.src
        /\ Send(n, Tail(tasks[n]),
                IF f \in valid[n] THEN <<Packet(n, "rrdp", f)>> ELSE <<>>, TRUE)
        /\ UNCHANGED down
     \/ /\ n = f.src
        /\ tasks' = [tasks EXCEPT ![n] = Tail(@)]
        /\ \/ UNCHANGED <<down, clean>>
           \/ down' = down \cup {n} /\ clean' = FALSE
  /\ UNCHANGED <<valid, brk, credit>>

Thread(n) == RecvRerr(n) \/ RecvRcvp(n) \/ RecvRrdp(n)

Next ==
  \E n \in Node :
    \/ \E f \in Flow : Found(n, f)
    \/ \E d \in Dst : RecvRrep(n, d)
    \/ \E hop \in Node \cup {Null} : GenRerr(n, hop)
    \/ \E who \in Dst \cup {0} : RecvHello(n, who)
    \/ Thread(n)

Spec == Init /\ [][Next]_vars
-----------------------------------------------------------------------------
Waiting(n, kind, f) == \E i \in 1 .. Len(tasks[n]) : tasks[n][i] = Message(kind, f)

(* A RCVP has neither a hop limit nor a sequence number, and every node    *)
(* that knows of the break may start one (rcvp.c:21, 124).  Still there    *)
(* are never more of them than links were noted: each was paid for with a  *)
(* link that is gone, however breaks, losses and crashes fall.             *)
RcvpPaid ==
  Cardinality(UNION {{n} \X (1 .. Len(brk[n])) : n \in Node}) <= credit

(* The searches of brk_list.c stop at the first greater destination, and   *)
(* gen_rcvp at the first other one: the list stays sorted, with one link   *)
(* for a flow, although flush_brk_list removes links from its middle.      *)
ListSorted ==
  \A n \in Node : \A i, j \in 1 .. Len(brk[n]) :
    i < j => /\ brk[n][i].flow.dst <= brk[n][j].flow.dst
             /\ brk[n][i].flow # brk[n][j].flow

(* A node that heard of a break from the hop behind it forgets its link    *)
(* when a RCVP comes from there, and by its own discovery (rcvp.c:165).    *)
(* Nothing confirms a RERR or a RCVP; still, while no message is lost, no  *)
(* link outlives its time and no node crashes, such a link is never left   *)
(* over: the hop behind has its own link of the flow, or the RCVP that it  *)
(* sent when it gave it up is on its way, however breaks, discoveries and  *)
(* RCVPs of different nodes fall.                                          *)
HeardBacked ==
  clean => \A n \in Node : \A i \in 1 .. Len(brk[n]) :
    LET k == brk[n][i] IN
    k.heard => \/ LinkOf(brk[NextHop(n, k.flow)], k.flow) # {}
               \/ Waiting(n, "rcvp", k.flow)
=============================================================================
