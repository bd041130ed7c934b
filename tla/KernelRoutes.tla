---------------------------- MODULE KernelRoutes ----------------------------
(***************************************************************************)
(* The tables of one node that describe the same routes: the entries of    *)
(* aodv_route.c, the sources of src_list.c with a rule and a table number  *)
(* each, and the kernel's routes, written over netlink (rpdb.c).  The      *)
(* output hook (packet_out.c) looks at the entries while the thread        *)
(* changes them.                                                           *)
(*                                                                         *)
(* Any message may arrive at any time; an entry may be past its lifetime   *)
(* at any time.  HOPS metric, so path_metric is num_hops.                  *)
(***************************************************************************)
EXTENDS Integers, FiniteSets

CONSTANTS
  Me,         \* g_mesh_ip
  Key,        \* places for entries: records [src, dst, tos, copy]; of the
              \* entries of a flow the one with the greatest copy is the newest
  Offer,      \* Offer[k]: what messages about flow k offer, records of the
              \* neighbour, the number of hops and the id
  Neigh,      \* nodes that may become neighbours
  Busy,       \* flows with packets of their own
  MaxTables,  \* MAX_ROUTE_TABLES
  Dtn,        \* flows that DTN hellos make routes for
  Null        \* no next hop

Source == {k.src : k \in Key} \cup {Me}

ASSUME KernelAssumption ==
  /\ IsFiniteSet(Key) /\ MaxTables \in Nat \ {0}
  /\ \A k \in Key : k.copy \in Nat
  /\ Busy \subseteq Key /\ Dtn \subseteq Key
  /\ \A k \in Key : \A o \in Offer[k] :
       o.hop # Null /\ o.hops \in Nat \ {0} /\ o.id \in Nat

VARIABLES
  rt,       \* rt[k]: the entry of k
  src,      \* src[s]: its src_list entry; table 0 if it has none
  rules,    \* the kernel's rules: pairs (source, table)
  kernel,   \* the kernel's routes: records [dst, hop, hops]
  hook,     \* the output hook: the entry it points at and how far it is
  bare,     \* has an entry ever been left out of num_routes?
  up        \* is the module in place?

vars == <<rt, src, rules, kernel, hook, bare, up>>

NoEntry == [state |-> "none", id |-> 0, hop |-> Null, hops |-> 0]
\* create_aodv_route.
Bare(id) == [state |-> "INVALID", id |-> id, hop |-> Null, hops |-> 0]
\* The entry rreq_aodv_route writes.
Taken(o) == [state |-> "ACTIVE", id |-> o.id, hop |-> o.hop, hops |-> o.hops]
Unlisted == [table |-> 0, num_routes |-> 0]
Idle == [at |-> "idle", key |-> Null, live |-> TRUE]

Has(k) == rt[k] # NoEntry
\* The places for entries of the flow of k.
Copies(k) == {j \in Key : j.src = k.src /\ j.dst = k.dst /\ j.tos = k.tos}
\* find_aodv_route: insert_aodv_route puts the newest entry of a destination
\* in front.  The first entry of a flow goes to the first place.
Absent(k) == \A j \in Copies(k) : ~ Has(j) /\ k.copy <= j.copy
Found(k) == Has(k) /\ \A j \in Copies(k) : Has(j) => j.copy <= k.copy
Listed(s) == src[s].table # 0
Route(k, e) == [dst |-> k.dst, hop |-> e.hop, hops |-> e.hops]
\* The kernel's route of the self route.
Self == [dst |-> Me, hop |-> Me, hops |-> 0]

\* create_aodv_dev: the node lists itself, with its self route.
Init ==
  /\ rt = [k \in Key |-> NoEntry]
  /\ src = [s \in Source |->
              IF s = Me THEN [table |-> 1, num_routes |-> 1] ELSE Unlisted]
  /\ rules = {<<Me, 1>>} /\ kernel = {Self}
  /\ hook = Idle /\ bare = FALSE /\ up = TRUE
-----------------------------------------------------------------------------
(* The kernel.                                                             *)

\* The routes RTM_DELROUTE looks for: a null gateway, and metric 0, match any.
Matches(r) ==
  {q \in kernel : /\ q.dst = r.dst
                  /\ r.hop \in {Null, q.hop} /\ r.hops \in {0, q.hops}}

\* RTM_DELROUTE in rpdb_route: of these the one with the least metric goes.
\* Table and tos are not part of the request.
DelRoute(r) ==
  \/ Matches(r) = {} /\ UNCHANGED kernel
  \/ \E q \in Matches(r) :
       /\ \A p \in Matches(r) : q.hops <= p.hops
       /\ kernel' = kernel \ {q}
-----------------------------------------------------------------------------
(* The list of sources.                                                    *)

\* Mutant of FreeTables: a table that is in use counts as free.
AllTables == 1 .. MaxTables

\* find_empty_rttable.
FreeTables == {t \in 1 .. MaxTables : \A s \in Source : src[s].table # t}

\* find_first_rttable.
FirstTable == CHOOSE t \in FreeTables : \A u \in FreeTables : t <= u

\* Mutant of AddSource: the first route of a source is not counted.
AddSourceUncounted(s) ==
  /\ src' = [src EXCEPT ![s] = [table |-> FirstTable, num_routes |-> 0]]
  /\ rules' = rules \cup {<<s, FirstTable>>}

\* insert_src_list_entry, and the num_routes++ of its caller.
AddSource(s) ==
  /\ src' = [src EXCEPT ![s] = [table |-> FirstTable, num_routes |-> 1]]
  /\ rules' = rules \cup {<<s, FirstTable>>}

\* delete_src_list_entry; rpdb_rule names the rule by its table.
DropSource(s) ==
  /\ src' = [src EXCEPT ![s] = Unlisted]
  /\ rules' = {r \in rules : r[2] # src[s].table}
-----------------------------------------------------------------------------
(* The thread.                                                             *)

\* rreq_aodv_route, for a flow it has no entry of: what becomes of the list,
\* and the entry it leaves, which stays bare when there is no table left.
Create(k, o) ==
  \/ /\ Listed(k.src)
     /\ src' = [src EXCEPT ![k.src].num_routes = @ + 1]
     /\ rt' = [rt EXCEPT ![k] = Taken(o)]
     /\ UNCHANGED <<rules, bare>>
  \/ /\ ~ Listed(k.src) /\ FreeTables # {}
     /\ AddSource(k.src)
     /\ rt' = [rt EXCEPT ![k] = Taken(o)]
     /\ UNCHANGED bare
  \/ /\ ~ Listed(k.src) /\ FreeTables = {}
     /\ rt' = [rt EXCEPT ![k] = Bare(o.id)]
     /\ bare' = TRUE
     /\ UNCHANGED <<src, rules>>

\* The tests of rreq_aodv_route on an entry it has.
Better(k, o) ==
  \/ o.id > rt[k].id
  \/ o.id = rt[k].id /\ o.hops < rt[k].hops

\* Mutant of Replace: the kernel keeps the old route.
ReplaceSilently(k, o) ==
  /\ rt' = [rt EXCEPT ![k] = Taken(o)]
  /\ UNCHANGED <<src, rules, kernel, bare>>

\* rreq_aodv_route, for a better path.  The kernel's route of an INVALID entry
\* is left where it is.
Replace(k, o) ==
  /\ \/ rt[k].state # "INVALID" /\ DelRoute(Route(k, rt[k]))
     \/ rt[k].state = "INVALID" /\ UNCHANGED kernel
  /\ rt' = [rt EXCEPT ![k] = Taken(o)]
  /\ UNCHANGED <<src, rules, bare>>

\* A RREQ, or the first half of recv_rrep.
RecvRreq(k, o) ==
  /\ up
  /\ \/ Absent(k) /\ Create(k, o) /\ UNCHANGED kernel
     \/ Found(k) /\ Better(k, o) /\ Replace(k, o)
  /\ UNCHANGED <<hook, up>>

\* Mutant of RecvRrep: only the route of a valid entry goes to the kernel.
RecvRrepValid(k) ==
  /\ up /\ Has(k) /\ rt[k].hop # Null /\ Listed(k.src)
  /\ kernel' = kernel \cup
       (IF rt[k].state = "INVALID" THEN {} ELSE {Route(k, rt[k])})
  /\ rt' = [rt EXCEPT ![k].state = "REPLIED"]
  /\ UNCHANGED <<src, rules, hook, bare, up>>

\* rrep_aodv_route, from gen_rrep and recv_rrep.  No RREP takes up a bare
\* entry: the RREQ that left it was not passed on, and for the RREP that left
\* it the source is not listed.
RecvRrep(k) ==
  /\ up /\ Has(k) /\ rt[k].hop # Null /\ Listed(k.src)
  /\ kernel' = kernel \cup {Route(k, rt[k])}
  /\ rt' = [rt EXCEPT ![k].state = "REPLIED"]
  /\ UNCHANGED <<src, rules, hook, bare, up>>

\* expire_aodv_route, from gen_rerr, recv_rerr and flush_aodv_route_table.
Expire(k) ==
  /\ up /\ Has(k) /\ rt[k].state # "INVALID"
  /\ rt' = [rt EXCEPT ![k].state = "INVALID"]
  /\ UNCHANGED <<src, rules, kernel, hook, bare, up>>

\* remove_aodv_route: a hook that points at the entry goes on pointing.
Unlink(k) ==
  /\ rt' = [rt EXCEPT ![k] = NoEntry]
  /\ hook' = [hook EXCEPT !.live = @ /\ hook.key # k]

\* Mutant of Flush: the count of this node is not put right.
FlushUncorrected(k) ==
  /\ up /\ Has(k) /\ rt[k].state = "INVALID"
  /\ \/ /\ Listed(k.src) /\ DelRoute(Route(k, rt[k]))
        /\ \/ /\ src[k.src].num_routes > 1 \/ k.src = Me
              /\ src' = [src EXCEPT ![k.src].num_routes = @ - 1]
              /\ UNCHANGED rules
           \/ src[k.src].num_routes <= 1 /\ k.src # Me /\ DropSource(k.src)
     \/ ~ Listed(k.src) /\ UNCHANGED <<src, rules, kernel>>
  /\ Unlink(k)
  /\ UNCHANGED <<bare, up>>

\* One turn of flush_aodv_route_table, for an INVALID entry past its lifetime.
Flush(k) ==
  /\ up /\ Has(k) /\ rt[k].state = "INVALID"
  /\ \/ /\ Listed(k.src)
        /\ DelRoute(Route(k, rt[k]))
        /\ \/ /\ src[k.src].num_routes > 1
              /\ src' = [src EXCEPT ![k.src].num_routes = @ - 1]
              /\ UNCHANGED rules
           \/ /\ src[k.src].num_routes <= 1 /\ k.src # Me
              /\ DropSource(k.src)
           \/ /\ src[k.src].num_routes <= 1 /\ k.src = Me
              /\ src' = [src EXCEPT ![Me].num_routes = 1]
              /\ UNCHANGED rules
     \/ /\ ~ Listed(k.src)
        /\ UNCHANGED <<src, rules, kernel>>
  /\ Unlink(k)
  /\ UNCHANGED <<bare, up>>

\* gen_rrep and recv_rrep for a DTN hello: a route made with create_aodv_route
\* alone, so that it is not counted and has metric 0, whether or not the flow
\* has entries already.  It is put in force at once, unless its source is not
\* listed or recv_rrep returns before it comes to that.
DtnRoute(k, o) ==
  LET entry == [state |-> "REPLIED", id |-> o.id, hop |-> o.hop, hops |-> 0]
  IN
  /\ up /\ k \in Dtn
  /\ \A j \in Copies(k) : Has(j) => j.copy < k.copy
  /\ \/ /\ Listed(k.src)
        /\ rt' = [rt EXCEPT ![k] = entry]
        /\ kernel' = kernel \cup {Route(k, entry)}
     \/ /\ rt' = [rt EXCEPT ![k] = [entry EXCEPT !.state = "INVALID"]]
        /\ UNCHANGED kernel
  /\ bare' = TRUE
  /\ UNCHANGED <<src, rules, hook, up>>

\* route_aodv_neigh: the neighbour entries are never flushed.
NewNeigh(n) ==
  /\ up
  /\ kernel' = kernel \cup {[dst |-> n, hop |-> n, hops |-> 1]}
  /\ UNCHANGED <<rt, src, rules, hook, bare, up>>
-----------------------------------------------------------------------------
(* The hook, which holds no lock once find_aodv_route has returned.        *)

\* find_aodv_route.
HookFinds(k) ==
  /\ up /\ hook.at = "idle" /\ Found(k)
  /\ hook' = [at |-> "found", key |-> k, live |-> TRUE]
  /\ UNCHANGED <<rt, src, rules, kernel, bare, up>>

\* What the hook may read through its pointer: the state of its entry or,
\* once that is freed, of whatever was put there.
Seen ==
  IF hook.live THEN {rt[hook.key].state}
  ELSE {"INVALID", "REPLIED", "ACTIVE"}

\* The test for a route: without one the packet is queued or dropped.
HookTests ==
  /\ hook.at = "found"
  /\ \/ "INVALID" \in Seen /\ hook' = Idle
     \/ Seen \ {"INVALID"} # {} /\ hook' = [hook EXCEPT !.at = "valid"]
  /\ UNCHANGED <<rt, src, rules, kernel, bare, up>>

\* The test for REPLIED.
HookReads ==
  /\ hook.at = "valid"
  /\ \/ "REPLIED" \in Seen /\ hook' = [hook EXCEPT !.at = "replied"]
     \/ Seen \ {"REPLIED"} # {} /\ hook' = Idle
  /\ UNCHANGED <<rt, src, rules, kernel, bare, up>>

\* The entries its write may hit: its own or, once that is freed, none or one
\* that was put there.
Target == IF hook.live THEN {{hook.key}}
          ELSE {{}} \cup {{k} : k \in {j \in Key : Has(j)}}

HookWrites ==
  /\ hook.at = "replied"
  /\ \E ks \in Target :
       rt' = [k \in Key |->
                IF k \in ks THEN [rt[k] EXCEPT !.state = "ACTIVE"] ELSE rt[k]]
  /\ hook' = Idle
  /\ UNCHANGED <<src, rules, kernel, bare, up>>

Hook ==
  (\E k \in Busy : HookFinds(k)) \/ HookTests \/ HookReads \/ HookWrites
-----------------------------------------------------------------------------
(* cleanup_fbaodv_module, once hook and thread have stopped.               *)

\* cleanup_neigh_routes, for those that are neighbours still.
CleanupNeighRoutes ==
  /\ up /\ hook = Idle
  /\ up' = FALSE
  /\ \E here \in SUBSET Neigh :
       kernel' = kernel \ {[dst |-> n, hop |-> n, hops |-> 1] : n \in here}
  /\ UNCHANGED <<rt, src, rules, hook, bare>>

\* One turn of cleanup_aodv_route_table.  Neighbour entries are passed over.
CleanupRoute(k) ==
  /\ ~ up /\ Has(k)
  /\ \/ Listed(k.src) /\ DelRoute(Route(k, rt[k]))
     \/ ~ Listed(k.src) /\ UNCHANGED kernel
  /\ rt' = [rt EXCEPT ![k] = NoEntry]
  /\ UNCHANGED <<src, rules, hook, bare, up>>

\* The end of cleanup_aodv_route_table: it looks for the self route in the list
\* that it has just freed, and may come upon it or upon something else.  When
\* it finds nothing it goes through a null pointer and removal stops.
CleanupSelf ==
  DelRoute(Self) \/ UNCHANGED kernel

\* flush_src_list.
FlushSrcList ==
  /\ ~ up /\ Listed(Me) /\ \A k \in Key : ~ Has(k)
  /\ CleanupSelf
  /\ src' = [s \in Source |-> Unlisted]
  /\ rules' = {r \in rules : \A s \in Source : r[2] # src[s].table}
  /\ UNCHANGED <<rt, hook, bare, up>>

Cleanup ==
  CleanupNeighRoutes \/ (\E k \in Key : CleanupRoute(k)) \/ FlushSrcList

Thread ==
  \/ \E k \in Key : \E o \in Offer[k] : RecvRreq(k, o) \/ DtnRoute(k, o)
  \/ \E k \in Key : RecvRrep(k) \/ Expire(k) \/ Flush(k)
  \/ \E n \in Neigh : NewNeigh(n)

Next == Thread \/ Hook \/ Cleanup

Spec == Init /\ [][Next]_vars
-----------------------------------------------------------------------------
Hops == {o.hop : o \in UNION {Offer[k] : k \in Key}}
RouteSet == [dst : {k.dst : k \in Key} \cup Neigh \cup {Me},
             hop : Hops \cup Neigh \cup {Me}, hops : Nat]

(* Every variable has its type; in particular num_routes, a count that     *)
(* flush_aodv_route_table decrements for entries that were never counted,  *)
(* does not become negative, and no route without a gateway reaches the    *)
(* kernel (aodv_route.c:197, 216).                                         *)
TypeOK ==
  /\ rt \in [Key -> [state : {"none", "INVALID", "ACTIVE", "REPLIED"}, id : Nat,
                     hop : Hops \cup {Null}, hops : Nat]]
  /\ src \in [Source -> [table : 0 .. MaxTables, num_routes : Nat]]
  /\ rules \subseteq Source \X (1 .. MaxTables)
  /\ kernel \subseteq RouteSet
  /\ hook \in [at : {"idle", "found", "valid", "replied"},
               key : Key \cup {Null}, live : BOOLEAN]
  /\ bare \in BOOLEAN /\ up \in BOOLEAN

EntriesOf(s) == {k \in Key : k.src = s /\ Has(k)}

(* As long as no entry was left out of num_routes (no table free, or a DTN *)
(* route), the count of a source is the number of its entries, one more    *)
(* for this node: delete_src_list_entry takes the rule of a source exactly *)
(* when its last entry goes, however creation, replacement, expiry and the *)
(* races of the hook interleave (aodv_route.c:197, 216, 379).              *)
SrcCounted ==
  ~ bare /\ up =>
    \A s \in Source :
      /\ Listed(s) <=> s = Me \/ EntriesOf(s) # {}
      /\ src[s].num_routes =
           Cardinality(EntriesOf(s)) + (IF s = Me THEN 1 ELSE 0)

(* Even when tables run out and counts are wrong, the kernel's rules are   *)
(* those of the list and no two sources share a table; removal of the      *)
(* module leaves no rule (src_list.c:38, 57, 89).                          *)
RulesFollowList ==
  /\ rules = {<<s, src[s].table>> : s \in {x \in Source : Listed(x)}}
  /\ \A s, u \in Source : Listed(s) /\ src[s].table = src[u].table => s = u

\* No other flow of the node leads to the destination of k, and no DTN hello
\* makes a route to it.
Sole(k) ==
  \A j \in Key : j.dst = k.dst => j \in Copies(k) /\ j \notin Dtn

(* A flow that has its destination to itself and is REPLIED has its route  *)
(* in the kernel, through replacement, revival of INVALID entries, removal *)
(* and a hook that writes to entries already freed (aodv_route.c:455).  It *)
(* is not so for a flow with a DTN route: every hello adds an entry        *)
(* (rrep.c:173, 325), and when an older one is flushed its metric 0        *)
(* matches the kernel's route of the newer one.                            *)
RepliedInstalled ==
  up => \A k \in Key :
          Sole(k) /\ rt[k].state = "REPLIED" => Route(k, rt[k]) \in kernel

Backed(r) == \E k \in Key : Has(k) /\ Route(k, rt[k]) = r

(* What the kernel keeps when nobody needs it any more: while counts are   *)
(* right, a route that stays in the kernel as its last entry goes is one   *)
(* whose entry was INVALID and was replaced (aodv_route.c:408): removal    *)
(* and replacement of valid entries leave nothing behind.                  *)
LeftBehind ==
  [][ ~ bare' =>
        \A r \in kernel \cap kernel' :
          Backed(r) /\ ~ Backed(r)' =>
            \E k \in Key : /\ rt[k].state = "INVALID" /\ Route(k, rt[k]) = r
                           /\ rt'[k].state = "ACTIVE" ]_vars
=============================================================================
