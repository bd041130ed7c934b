------------------------- MODULE KernelRoutesProofs -------------------------
(***************************************************************************)
(* Safety of KernelRoutes for every set of flows, whatever is offered for  *)
(* them, and every number of tables.                                       *)
(***************************************************************************)
EXTENDS KernelRoutes, WellFoundedInduction, FiniteSetTheorems, TLAPS

(* TypeOK, one part for each variable.                                     *)
Entries == [state : {"none", "INVALID", "ACTIVE", "REPLIED"}, id : Nat,
            hop : Hops \cup {Null}, hops : Nat]
Sources == [table : 0 .. MaxTables, num_routes : Nat]
Hooks   == [at : {"idle", "found", "valid", "replied"},
            key : Key \cup {Null}, live : BOOLEAN]
RtOK     == rt \in [Key -> Entries]
SrcOK    == src \in [Source -> Sources]
RulesOK  == rules \subseteq Source \X (1 .. MaxTables)
KernelOK == kernel \subseteq RouteSet

RestOK   == hook \in Hooks /\ bare \in BOOLEAN /\ up \in BOOLEAN
Parts    == RtOK /\ SrcOK /\ RulesOK /\ KernelOK /\ RestOK

LEMMA TypeParts == (TypeOK <=> Parts) /\ (TypeOK' <=> Parts')
  BY DEF TypeOK, RtOK, SrcOK, RulesOK, KernelOK, RestOK, Parts,
  Entries, Sources, Hooks

LEMMA OfferType ==
  ASSUME NEW k \in Key, NEW o \in Offer[k]
  PROVE  /\ o.hop \in Hops /\ o.hop # Null
         /\ o.hops \in Nat \ {0} /\ o.id \in Nat
  BY KernelAssumption DEF KernelAssumption, Hops

LEMMA MeIsSource == Me \in Source /\ \A k \in Key : k.src \in Source
  BY DEF Source

LEMMA LeastNat ==
  ASSUME NEW T, T \subseteq Nat, T # {}
  PROVE  \E x \in T : \A y \in T : x <= y
<1>. DEFINE R == OpToRel(<, Nat)
<1>1. PICK x \in T : \A y \in T : <<y, x>> \notin R
  <2>1. IsWellFoundedOn(R, Nat)
    BY NatLessThanWellFounded
  <2>. HIDE DEF R
  <2>. QED
    BY <2>1, WFMin
<1>2. \A y \in T : ~ (y < x)
  BY <1>1 DEF OpToRel
<1>. QED
  BY <1>2

(* find_first_rttable returns a table that no source uses.                 *)
LEMMA FirstTableIsFree ==
  ASSUME FreeTables # {}
  PROVE  FirstTable \in FreeTables /\ FirstTable \in 1 .. MaxTables
<1>1. FreeTables \in SUBSET Nat
  BY KernelAssumption DEF KernelAssumption, FreeTables
<1>2. \E t \in FreeTables : \A u \in FreeTables : t <= u
  BY <1>1, LeastNat
<1>. QED
  BY <1>2 DEF FirstTable, FreeTables

(* RTM_DELROUTE takes one route at most, and only to that destination.     *)
LEMMA DelRouteTakes ==
  ASSUME NEW r, DelRoute(r)
  PROVE  /\ kernel' \subseteq kernel
         /\ \A q \in kernel : q.dst # r.dst => q \in kernel'
  BY DEF DelRoute, Matches

(* An entry is made in a place that is free.                               *)
LEMMA Places ==
  ASSUME NEW k \in Key
  PROVE  /\ Absent(k) => ~ Has(k)
         /\ Found(k) => Has(k)
         /\ \A o : DtnRoute(k, o) => ~ Has(k)
<1>1. k \in Copies(k) /\ ~ (k.copy < k.copy)
  BY KernelAssumption DEF KernelAssumption, Copies
<1>. QED
  BY <1>1 DEF Absent, Found, DtnRoute

LEMMA RouteType ==
  ASSUME NEW k \in Key, NEW e, e.hop \in Hops, e.hops \in Nat
  PROVE  Route(k, e) \in RouteSet
  BY DEF Route, RouteSet
-----------------------------------------------------------------------------
(* What the parts of an action do to the list of sources.                  *)

LEMMA AddSourceType ==
  ASSUME SrcOK, RulesOK, NEW s \in Source, FreeTables # {}, AddSource(s)
  PROVE  SrcOK' /\ RulesOK'
  BY FirstTableIsFree DEF AddSource, SrcOK, RulesOK, Sources

LEMMA DropSourceType ==
  ASSUME SrcOK, RulesOK, NEW s \in Source, DropSource(s)
  PROVE  SrcOK' /\ RulesOK'
<1>1. Unlisted \in Sources
  BY KernelAssumption DEF KernelAssumption, Unlisted, Sources
<1>. QED
  BY <1>1 DEF DropSource, SrcOK, RulesOK

LEMMA CountType ==
  ASSUME SrcOK, NEW s \in Source, NEW n \in Nat,
         src' = [src EXCEPT ![s].num_routes = n]
  PROVE  SrcOK'
  BY DEF SrcOK, Sources

LEMMA EntryType ==
  ASSUME RtOK, NEW k \in Key, NEW e \in Entries, rt' = [rt EXCEPT ![k] = e]
  PROVE  RtOK'
  BY DEF RtOK

LEMMA StateType ==
  ASSUME RtOK, NEW k \in Key, NEW s \in {"INVALID", "ACTIVE", "REPLIED"}
  PROVE  [rt[k] EXCEPT !.state = s] \in Entries
  BY DEF RtOK, Entries

LEMMA NoEntryType == NoEntry \in Entries
  BY DEF NoEntry, Entries

LEMMA TakenType ==
  ASSUME NEW k \in Key, NEW o \in Offer[k]
  PROVE  Taken(o) \in Entries /\ Bare(o.id) \in Entries
  BY OfferType DEF Taken, Bare, Entries
-----------------------------------------------------------------------------
LEMMA InitType == Init => TypeOK
<1>. SUFFICES ASSUME Init PROVE TypeOK
  OBVIOUS
<1>1. RtOK
  BY NoEntryType DEF Init, RtOK
<1>2. SrcOK /\ RulesOK
  BY KernelAssumption, MeIsSource
  DEF KernelAssumption, Init, SrcOK, RulesOK, Sources, Unlisted
<1>3. hook \in Hooks /\ bare \in BOOLEAN /\ up \in BOOLEAN
  BY DEF Init, Hooks, Idle
<1>4. KernelOK
  <2>1. Self \in RouteSet
    BY DEF Self, RouteSet
  <2>. QED
    BY <2>1 DEF Init, KernelOK
<1>. QED
  BY <1>1, <1>2, <1>3, <1>4, TypeParts DEF Parts, RestOK

LEMMA CreateType ==
  ASSUME TypeOK, NEW k \in Key, NEW o \in Offer[k], Create(k, o)
  PROVE  RtOK' /\ SrcOK' /\ RulesOK' /\ bare' \in BOOLEAN
<1>. USE TypeParts, MeIsSource DEF Parts, RestOK
<1>1. RtOK'
  BY TakenType, EntryType DEF Create
<1>2. CASE Listed(k.src) /\ src' = [src EXCEPT ![k.src].num_routes = @ + 1]
           /\ UNCHANGED <<rules, bare>>
  <2>1. src[k.src].num_routes + 1 \in Nat
    BY DEF SrcOK, Sources
  <2>. QED
    BY <1>1, <1>2, <2>1, CountType DEF RulesOK
<1>3. CASE FreeTables # {} /\ AddSource(k.src) /\ UNCHANGED bare
  BY <1>1, <1>3, AddSourceType
<1>4. CASE bare' = TRUE /\ UNCHANGED <<src, rules>>
  BY <1>1, <1>4 DEF SrcOK, RulesOK
<1>. QED
  BY <1>2, <1>3, <1>4 DEF Create

LEMMA FlushType ==
  ASSUME TypeOK, NEW k \in Key, Flush(k)
  PROVE  TypeOK'
<1>. USE TypeParts, MeIsSource DEF Parts, RestOK
<1>1. RtOK'
  BY NoEntryType, EntryType DEF Flush, Unlink
<1>2. hook' \in Hooks /\ bare' \in BOOLEAN /\ up' \in BOOLEAN
  BY DEF Flush, Unlink, Hooks
<1>3. KernelOK'
  BY DelRouteTakes DEF Flush, KernelOK
<1>4. src[k.src].num_routes \in Nat
  BY DEF SrcOK, Sources
<1>5. CASE src[k.src].num_routes > 1 /\ UNCHANGED rules
           /\ src' = [src EXCEPT ![k.src].num_routes = @ - 1]
  <2>1. src[k.src].num_routes - 1 \in Nat
    BY <1>4, <1>5
  <2>2. SrcOK'
    BY <1>5, <2>1, CountType
  <2>. QED
    BY <1>1, <1>2, <1>3, <1>5, <2>2 DEF RulesOK
<1>6. CASE DropSource(k.src)
  BY <1>1, <1>2, <1>3, <1>6, DropSourceType
<1>7. CASE src' = [src EXCEPT ![Me].num_routes = 1] /\ UNCHANGED rules
  BY <1>1, <1>2, <1>3, <1>7, CountType DEF RulesOK
<1>8. CASE UNCHANGED <<src, rules>>
  BY <1>1, <1>2, <1>3, <1>8 DEF SrcOK, RulesOK
<1>. QED
  BY <1>5, <1>6, <1>7, <1>8 DEF Flush
-----------------------------------------------------------------------------
LEMMA NextType == TypeOK /\ [Next]_vars => TypeOK'
<1>. SUFFICES ASSUME TypeOK, [Next]_vars PROVE TypeOK'
  OBVIOUS
<1>. USE TypeParts, MeIsSource DEF Parts, RestOK
<1>1. ASSUME NEW k \in Key, NEW o \in Offer[k], RecvRreq(k, o)
      PROVE  TypeOK'
  <2>1. CASE Create(k, o) /\ UNCHANGED <<kernel, hook, up>>
    BY <2>1, CreateType DEF KernelOK
  <2>2. CASE Replace(k, o) /\ UNCHANGED <<hook, up>>
    <3>1. RtOK'
      BY <2>2, TakenType, EntryType DEF Replace
    <3>2. KernelOK'
      BY <2>2, DelRouteTakes DEF Replace, KernelOK
    <3>. QED
      BY <2>2, <3>1, <3>2 DEF Replace, SrcOK, RulesOK
  <2>. QED
    BY <1>1, <2>1, <2>2 DEF RecvRreq
<1>2. ASSUME NEW k \in Key, NEW o \in Offer[k], DtnRoute(k, o)
      PROVE  TypeOK'
  <2>. DEFINE entry == [state |-> "REPLIED", id |-> o.id, hop |-> o.hop, hops |-> 0]
  <2>1. entry \in Entries /\ [entry EXCEPT !.state = "INVALID"] \in Entries
    BY OfferType DEF Entries
  <2>2. RtOK'
    BY <1>2, <2>1, EntryType DEF DtnRoute
  <2>3. KernelOK'
    <3>1. Route(k, entry) \in RouteSet
      BY OfferType, RouteType
    <3>. QED
      BY <1>2, <3>1 DEF DtnRoute, KernelOK
  <2>. QED
    BY <1>2, <2>2, <2>3 DEF DtnRoute, SrcOK, RulesOK
<1>3. ASSUME NEW k \in Key, RecvRrep(k)
      PROVE  TypeOK'
  <2>1. RtOK'
    BY <1>3, StateType, EntryType DEF RecvRrep
  <2>2. KernelOK'
    <3>1. rt[k].hop \in Hops /\ rt[k].hops \in Nat
      BY <1>3 DEF RecvRrep, RtOK, Entries
    <3>. QED
      BY <1>3, <3>1, RouteType DEF RecvRrep, KernelOK
  <2>. QED
    BY <1>3, <2>1, <2>2 DEF RecvRrep, SrcOK, RulesOK
<1>4. ASSUME NEW k \in Key, Expire(k)
      PROVE  TypeOK'
  BY <1>4, StateType, EntryType DEF Expire, SrcOK, RulesOK, KernelOK
<1>5. ASSUME NEW k \in Key, Flush(k)
      PROVE  TypeOK'
  BY <1>5, FlushType
<1>6. ASSUME NEW n \in Neigh, NewNeigh(n)
      PROVE  TypeOK'
  BY <1>6 DEF NewNeigh, RtOK, SrcOK, RulesOK, KernelOK, RouteSet
<1>7. CASE Hook
  <2>1. ASSUME NEW k \in Busy, HookFinds(k)
        PROVE  TypeOK'
    BY <2>1, KernelAssumption
    DEF KernelAssumption, HookFinds, Hooks, RtOK, SrcOK, RulesOK, KernelOK
  <2>2. CASE HookTests
    <3>1. hook' = Idle \/ hook' = [hook EXCEPT !.at = "valid"]
      BY <2>2 DEF HookTests
    <3>2. hook' \in Hooks
      <4>1. [hook EXCEPT !.at = "valid"] \in Hooks
        BY DEF Hooks
      <4>2. Idle \in Hooks
        BY DEF Idle, Hooks
      <4>. QED
        BY <3>1, <4>1, <4>2
    <3>. QED
      BY <2>2, <3>2 DEF HookTests, RtOK, SrcOK, RulesOK, KernelOK
  <2>3. CASE HookReads
    <3>1. hook' = Idle \/ hook' = [hook EXCEPT !.at = "replied"]
      BY <2>3 DEF HookReads
    <3>2. hook' \in Hooks
      <4>1. [hook EXCEPT !.at = "replied"] \in Hooks
        BY DEF Hooks
      <4>2. Idle \in Hooks
        BY DEF Idle, Hooks
      <4>. QED
        BY <3>1, <4>1, <4>2
    <3>. QED
      BY <2>3, <3>2 DEF HookReads, RtOK, SrcOK, RulesOK, KernelOK
  <2>4. CASE HookWrites
    <3>1. PICK ks :
            rt' = [k \in Key |->
                     IF k \in ks THEN [rt[k] EXCEPT !.state = "ACTIVE"] ELSE rt[k]]
      BY <2>4 DEF HookWrites
    <3>2. RtOK'
      BY <3>1, StateType DEF RtOK
    <3>3. hook' = Idle /\ UNCHANGED <<src, rules, kernel, bare, up>>
      BY <2>4 DEF HookWrites
    <3>. QED
      BY <3>2, <3>3 DEF Idle, Hooks, SrcOK, RulesOK, KernelOK
  <2>. QED
    BY <1>7, <2>1, <2>2, <2>3, <2>4 DEF Hook
<1>8. CASE Cleanup
  <2>1. CASE CleanupNeighRoutes
    BY <2>1 DEF CleanupNeighRoutes, RtOK, SrcOK, RulesOK, KernelOK
  <2>2. ASSUME NEW k \in Key, CleanupRoute(k)
        PROVE  TypeOK'
    BY <2>2, NoEntryType, EntryType, DelRouteTakes
    DEF CleanupRoute, SrcOK, RulesOK, KernelOK
  <2>3. CASE FlushSrcList
    <3>1. kernel' \subseteq kernel
      BY <2>3, DelRouteTakes DEF FlushSrcList, CleanupSelf
    <3>. QED
      BY <2>3, <3>1, KernelAssumption
      DEF KernelAssumption, FlushSrcList, Unlisted, Sources,
          RtOK, SrcOK, RulesOK, KernelOK
  <2>. QED
    BY <1>8, <2>1, <2>2, <2>3 DEF Cleanup
<1>9. CASE UNCHANGED vars
  BY <1>9 DEF vars, RtOK, SrcOK, RulesOK, KernelOK
<1>. QED
  BY <1>1, <1>2, <1>3, <1>4, <1>5, <1>6, <1>7, <1>8, <1>9 DEF Next, Thread

(* The tables keep their types; in particular the count of a source never  *)
(* becomes negative, and no route without a gateway reaches the kernel.    *)
THEOREM KernelTypes == Spec => []TypeOK
<1>. QED
  BY InitType, NextType, PTL DEF Spec
-----------------------------------------------------------------------------
(* Rules and tables.                                                       *)

LEMMA SrcType ==
  ASSUME TypeOK, NEW s \in Source
  PROVE  src[s] \in Sources /\ src[s].table \in Nat /\ src[s].num_routes \in Nat
  BY TypeParts, KernelAssumption
  DEF Parts, SrcOK, Sources, KernelAssumption

LEMMA SrcIsFunction == TypeOK => DOMAIN src = Source
  BY TypeParts DEF Parts, SrcOK

(* Where no table changes, the rules stay those of the list.               *)
LEMMA SameTables ==
  ASSUME RulesFollowList, rules' = rules,
         \A s \in Source : src'[s].table = src[s].table
  PROVE  RulesFollowList'
  BY DEF RulesFollowList, Listed

LEMMA CountKeepsTables ==
  ASSUME TypeOK, NEW s \in Source, NEW n,
         src' = [src EXCEPT ![s].num_routes = n]
  PROVE  \A u \in Source : src'[u].table = src[u].table
  BY SrcType, SrcIsFunction DEF Sources

LEMMA AddSourceRules ==
  ASSUME TypeOK, RulesFollowList, NEW s \in Source, ~ Listed(s),
         FreeTables # {}, AddSource(s)
  PROVE  RulesFollowList'
<1>1. FirstTable \in 1 .. MaxTables /\ \A u \in Source : src[u].table # FirstTable
  BY FirstTableIsFree DEF FreeTables
<1>2. /\ src'[s].table = FirstTable
      /\ \A u \in Source \ {s} : src'[u] = src[u]
  BY SrcIsFunction DEF AddSource
<1>3. FirstTable # 0
  BY <1>1
<1>4. rules' = {<<u, src'[u].table>> : u \in {x \in Source : src'[x].table # 0}}
  BY <1>2, <1>3 DEF AddSource, RulesFollowList, Listed
<1>5. \A u, v \in Source :
        src'[u].table # 0 /\ src'[u].table = src'[v].table => u = v
  BY <1>1, <1>2 DEF RulesFollowList, Listed
<1>. QED
  BY <1>4, <1>5 DEF RulesFollowList, Listed

LEMMA DropSourceRules ==
  ASSUME TypeOK, RulesFollowList, NEW s \in Source, Listed(s), DropSource(s)
  PROVE  RulesFollowList'
<1>1. src'[s].table = 0 /\ \A u \in Source \ {s} : src'[u] = src[u]
  BY SrcIsFunction DEF DropSource, Unlisted
<1>2. rules' = {<<u, src'[u].table>> : u \in {x \in Source : src'[x].table # 0}}
  BY <1>1 DEF DropSource, RulesFollowList, Listed
<1>3. \A u, v \in Source :
        src'[u].table # 0 /\ src'[u].table = src'[v].table => u = v
  BY <1>1 DEF RulesFollowList, Listed
<1>. QED
  BY <1>2, <1>3 DEF RulesFollowList, Listed

LEMMA InitRules == Init => RulesFollowList
  BY MeIsSource DEF Init, RulesFollowList, Listed, Unlisted

LEMMA NextRules == TypeOK /\ RulesFollowList /\ [Next]_vars => RulesFollowList'
<1>. SUFFICES ASSUME TypeOK, RulesFollowList, [Next]_vars PROVE RulesFollowList'
  OBVIOUS
<1>. USE MeIsSource
<1>1. CASE UNCHANGED <<src, rules>>
  BY <1>1, SameTables
<1>2. ASSUME NEW k \in Key, NEW o \in Offer[k], RecvRreq(k, o)
      PROVE  RulesFollowList'
  <2>1. CASE Listed(k.src) /\ src' = [src EXCEPT ![k.src].num_routes = @ + 1]
             /\ UNCHANGED rules
    BY <2>1, CountKeepsTables, SameTables
  <2>2. CASE ~ Listed(k.src) /\ FreeTables # {} /\ AddSource(k.src)
    BY <2>2, AddSourceRules
  <2>. QED
    BY <1>1, <1>2, <2>1, <2>2 DEF RecvRreq, Create, Replace
<1>3. ASSUME NEW k \in Key, Flush(k)
      PROVE  RulesFollowList'
  <2>1. CASE UNCHANGED rules /\ \E n : src' = [src EXCEPT ![k.src].num_routes = n]
    BY <2>1, CountKeepsTables, SameTables
  <2>2. CASE Listed(k.src) /\ DropSource(k.src)
    BY <2>2, DropSourceRules
  <2>. QED
    BY <1>1, <1>3, <2>1, <2>2 DEF Flush
<1>4. CASE FlushSrcList
  BY <1>4 DEF FlushSrcList, RulesFollowList, Listed, Unlisted
<1>. QED
  BY <1>1, <1>2, <1>3, <1>4
  DEF Next, Thread, DtnRoute, RecvRrep, Expire, NewNeigh, Hook, HookFinds, HookTests,
      HookReads, HookWrites, Cleanup, CleanupNeighRoutes, CleanupRoute, vars

(* Rules and tables of the sources agree, and no table is shared.          *)
THEOREM KernelRules == Spec => []RulesFollowList
<1>1. Init => TypeOK /\ RulesFollowList
  BY InitType, InitRules
<1>2. TypeOK /\ RulesFollowList /\ [Next]_vars => TypeOK' /\ RulesFollowList'
  BY NextType, NextRules
<1>. QED
  BY <1>1, <1>2, PTL DEF Spec
-----------------------------------------------------------------------------
(* Counts.  The hook never makes an entry: when it points at one that was  *)
(* not freed, that one is in the table.                                    *)

HookSound ==
  /\ hook.at # "idle" /\ hook.live => hook.key \in Key /\ Has(hook.key)
  /\ ~ up => hook.at = "idle"

CountInv == TypeOK /\ HookSound /\ SrcCounted

LEMMA RtIsFunction == TypeOK => DOMAIN rt = Key
  BY TypeParts DEF Parts, RtOK

LEMMA FiniteEntries ==
  ASSUME NEW s
  PROVE  IsFiniteSet(EntriesOf(s)) /\ Cardinality(EntriesOf(s)) \in Nat
<1>1. IsFiniteSet(EntriesOf(s))
  <2>1. EntriesOf(s) \in SUBSET Key
    BY DEF EntriesOf
  <2>. QED
    BY <2>1, KernelAssumption, FS_Subset DEF KernelAssumption
<1>. QED
  BY <1>1, FS_CardinalityType

(* A step that leaves the sources alone, and adds or removes no entry.     *)
LEMMA SameEntries ==
  ASSUME SrcCounted, UNCHANGED <<src, bare, up>>,
         \A k \in Key : Has(k)' <=> Has(k)
  PROVE  SrcCounted'
<1>1. \A s : EntriesOf(s)' = EntriesOf(s)
  BY DEF EntriesOf
<1>. QED
  BY <1>1 DEF SrcCounted, Listed

(* A new entry, and a removed one.                                         *)
LEMMA EntryAdded ==
  ASSUME TypeOK, NEW k \in Key, ~ Has(k), NEW e, e # NoEntry,
         rt' = [rt EXCEPT ![k] = e]
  PROVE  /\ \A s : s # k.src => EntriesOf(s)' = EntriesOf(s)
         /\ EntriesOf(k.src)' # {}
         /\ Cardinality(EntriesOf(k.src)') = Cardinality(EntriesOf(k.src)) + 1
<1>1. Has(k)' /\ \A j \in Key \ {k} : Has(j)' <=> Has(j)
  BY RtIsFunction DEF Has
<1>2. \A s : s # k.src => EntriesOf(s)' = EntriesOf(s)
  BY <1>1 DEF EntriesOf
<1>3. EntriesOf(k.src)' = EntriesOf(k.src) \cup {k} /\ k \notin EntriesOf(k.src)
  BY <1>1 DEF EntriesOf
<1>4. Cardinality(EntriesOf(k.src)') = Cardinality(EntriesOf(k.src)) + 1
  <2>. DEFINE S == EntriesOf(k.src)
  <2>1. IsFiniteSet(S)
    BY FiniteEntries
  <2>2. Cardinality(S \cup {k}) = Cardinality(S) + 1
    BY <1>3, <2>1, FS_AddElement
  <2>. QED
    BY <1>3, <2>2
<1>. QED
  BY <1>2, <1>3, <1>4

LEMMA EntryRemoved ==
  ASSUME TypeOK, NEW k \in Key, Has(k), rt' = [rt EXCEPT ![k] = NoEntry]
  PROVE  /\ \A s : s # k.src => EntriesOf(s)' = EntriesOf(s)
         /\ k \in EntriesOf(k.src)
         /\ Cardinality(EntriesOf(k.src)') = Cardinality(EntriesOf(k.src)) - 1
         /\ EntriesOf(k.src)' = {} <=> Cardinality(EntriesOf(k.src)) = 1
<1>1. ~ Has(k)' /\ \A j \in Key \ {k} : Has(j)' <=> Has(j)
  BY RtIsFunction DEF Has
<1>2. \A s : s # k.src => EntriesOf(s)' = EntriesOf(s)
  BY <1>1 DEF EntriesOf
<1>3. EntriesOf(k.src)' = EntriesOf(k.src) \ {k} /\ k \in EntriesOf(k.src)
  BY <1>1 DEF EntriesOf
<1>4. /\ IsFiniteSet(EntriesOf(k.src)')
      /\ Cardinality(EntriesOf(k.src)') = Cardinality(EntriesOf(k.src)) - 1
  BY <1>3, FiniteEntries, FS_RemoveElement
<1>5. EntriesOf(k.src)' = {} <=> Cardinality(EntriesOf(k.src)') = 0
  BY <1>4, FS_EmptySet
<1>6. Cardinality(EntriesOf(k.src)) \in Nat
  BY FiniteEntries
<1>. QED
  BY <1>2, <1>3, <1>4, <1>5, <1>6
-----------------------------------------------------------------------------
LEMMA InitCount == Init => CountInv
<1>. SUFFICES ASSUME Init PROVE CountInv
  OBVIOUS
<1>1. TypeOK
  BY InitType
<1>2. HookSound
  BY DEF Init, HookSound, Idle
<1>3. SrcCounted
  <2>1. \A s : EntriesOf(s) = {}
    BY DEF Init, EntriesOf, Has
  <2>2. Cardinality({}) = 0
    BY FS_EmptySet
  <2>. QED
    BY <2>1, <2>2 DEF Init, SrcCounted, Listed, Unlisted
<1>. QED
  BY <1>1, <1>2, <1>3 DEF CountInv

LEMMA WrittenIsEntry ==
  /\ \A o : Taken(o) # NoEntry
  /\ \A n : Bare(n) # NoEntry
  BY DEF Taken, Bare, NoEntry

LEMMA StateKeepsEntry ==
  ASSUME TypeOK, NEW k \in Key, NEW s \in {"INVALID", "ACTIVE", "REPLIED"},
         Has(k), rt' = [rt EXCEPT ![k].state = s]
  PROVE  \A j \in Key : Has(j)' <=> Has(j)
<1>1. rt[k] \in Entries
  BY TypeParts DEF Parts, RtOK
<1>2. rt'[k].state = s /\ \A j \in Key \ {k} : rt'[j] = rt[j]
  BY <1>1, RtIsFunction DEF Entries
<1>3. rt'[k] # NoEntry
  BY <1>2 DEF NoEntry
<1>. QED
  BY <1>2, <1>3 DEF Has

LEMMA CreateCount ==
  ASSUME CountInv, up, NEW k \in Key, NEW o, ~ Has(k), Create(k, o), UNCHANGED up
  PROVE  SrcCounted'
<1>. USE MeIsSource DEF CountInv
<1>1. CASE bare'
  BY <1>1 DEF SrcCounted
<1>2. CASE ~ bare'
  <2>1. ~ bare /\ rt' = [rt EXCEPT ![k] = Taken(o)]
    BY <1>2 DEF Create
  <2>2. /\ \A s : s # k.src => EntriesOf(s)' = EntriesOf(s)
        /\ EntriesOf(k.src)' # {}
        /\ Cardinality(EntriesOf(k.src)') = Cardinality(EntriesOf(k.src)) + 1
    BY <2>1, EntryAdded, WrittenIsEntry
  <2>3. \A s \in Source :
          /\ Listed(s) <=> s = Me \/ EntriesOf(s) # {}
          /\ src[s].num_routes =
               Cardinality(EntriesOf(s)) + (IF s = Me THEN 1 ELSE 0)
    BY <2>1 DEF SrcCounted
  <2>4. Cardinality(EntriesOf(k.src)) \in Nat
    BY FiniteEntries
  <2>5. \A s \in Source \ {k.src} : src'[s] = src[s]
    BY SrcIsFunction DEF Create, AddSource
  <2>6. Listed(k.src)' /\ src'[k.src].num_routes =
          Cardinality(EntriesOf(k.src)') + (IF k.src = Me THEN 1 ELSE 0)
    <3>1. CASE Listed(k.src) /\ src' = [src EXCEPT ![k.src].num_routes = @ + 1]
      <4>1. /\ src'[k.src].table = src[k.src].table
            /\ src'[k.src].num_routes = src[k.src].num_routes + 1
        BY <3>1, SrcType, SrcIsFunction DEF Sources
      <4>. QED
        BY <3>1, <4>1, <2>2, <2>3, <2>4 DEF Listed
    <3>2. CASE ~ Listed(k.src) /\ FreeTables # {} /\ AddSource(k.src)
      <4>1. EntriesOf(k.src) = {} /\ k.src # Me
        BY <3>2, <2>3
      <4>2. Cardinality(EntriesOf(k.src)) = 0
        BY <4>1, FS_EmptySet
      <4>3. src'[k.src] = [table |-> FirstTable, num_routes |-> 1] /\ FirstTable # 0
        BY <3>2, SrcIsFunction, FirstTableIsFree DEF AddSource
      <4>. QED
        BY <4>1, <4>2, <4>3, <2>2 DEF Listed
    <3>. QED
      BY <1>2, <3>1, <3>2 DEF Create
  <2>. QED
    BY <2>2, <2>3, <2>5, <2>6 DEF SrcCounted, Listed
<1>. QED
  BY <1>1, <1>2

LEMMA FlushCount ==
  ASSUME CountInv, NEW k \in Key, Flush(k)
  PROVE  SrcCounted'
<1>. USE MeIsSource DEF CountInv
<1>1. CASE bare'
  BY <1>1 DEF SrcCounted
<1>2. CASE ~ bare'
  <2>1. ~ bare /\ up /\ Has(k) /\ rt' = [rt EXCEPT ![k] = NoEntry]
    BY <1>2 DEF Flush, Unlink
  <2>2. /\ \A s : s # k.src => EntriesOf(s)' = EntriesOf(s)
        /\ k \in EntriesOf(k.src)
        /\ Cardinality(EntriesOf(k.src)') = Cardinality(EntriesOf(k.src)) - 1
        /\ EntriesOf(k.src)' = {} <=> Cardinality(EntriesOf(k.src)) = 1
    BY <2>1, EntryRemoved
  <2>3. \A s \in Source :
          /\ Listed(s) <=> s = Me \/ EntriesOf(s) # {}
          /\ src[s].num_routes =
               Cardinality(EntriesOf(s)) + (IF s = Me THEN 1 ELSE 0)
    BY <2>1 DEF SrcCounted
  <2>4. Cardinality(EntriesOf(k.src)) \in Nat \ {0}
    BY <2>2, FiniteEntries, FS_EmptySet
  <2>5. Listed(k.src)
    BY <2>2, <2>3
  <2>6. \A s \in Source \ {k.src} : src'[s] = src[s]
    BY <2>5, SrcIsFunction DEF Flush, DropSource
  <2>7. /\ Listed(k.src)' <=> k.src = Me \/ EntriesOf(k.src)' # {}
        /\ src'[k.src].num_routes =
             Cardinality(EntriesOf(k.src)') + (IF k.src = Me THEN 1 ELSE 0)
    <3>1. CASE src[k.src].num_routes > 1
      <4>1. /\ src'[k.src].table = src[k.src].table
            /\ src'[k.src].num_routes = src[k.src].num_routes - 1
        <5>1. src' = [src EXCEPT ![k.src].num_routes = @ - 1]
          BY <3>1, <2>5, SrcType DEF Flush
        <5>. QED
          BY <5>1, SrcType, SrcIsFunction DEF Sources
      <4>. QED
        BY <3>1, <4>1, <2>2, <2>3, <2>4, <2>5 DEF Listed
    <3>2. CASE src[k.src].num_routes <= 1
      <4>1. k.src # Me /\ Cardinality(EntriesOf(k.src)) = 1
        BY <3>2, <2>3, <2>4
      <4>2. DropSource(k.src)
        BY <3>2, <4>1, <2>5, SrcType DEF Flush
      <4>3. src'[k.src] = Unlisted
        BY <4>2, SrcIsFunction DEF DropSource
      <4>. QED
        BY <4>1, <4>3, <2>2 DEF Listed, Unlisted
    <3>. QED
      BY <3>1, <3>2, SrcType
  <2>. QED
    BY <2>2, <2>3, <2>6, <2>7 DEF SrcCounted, Listed
<1>. QED
  BY <1>1, <1>2
-----------------------------------------------------------------------------
LEMMA CleanedUp == HookSound /\ hook.at # "idle" => up
  BY DEF HookSound

LEMMA NextHook == CountInv /\ [Next]_vars => HookSound'
<1>. SUFFICES ASSUME CountInv, [Next]_vars PROVE HookSound'
  OBVIOUS
<1>. USE DEF CountInv
<1>1. CASE /\ UNCHANGED <<hook, up>>
           /\ \A k \in Key : Has(k) => Has(k)'
  BY <1>1 DEF HookSound
<1>2. CASE hook' = Idle
  BY <1>2 DEF HookSound, Idle
<1>3. CASE ~ up /\ ~ up' /\ UNCHANGED hook
  BY <1>3 DEF HookSound
<1>4. ASSUME NEW k \in Key, NEW e, e # NoEntry, rt' = [rt EXCEPT ![k] = e],
             UNCHANGED <<hook, up>>
      PROVE  HookSound'
  <2>1. \A j \in Key : Has(j) => Has(j)'
    BY <1>4, RtIsFunction DEF Has
  <2>. QED
    BY <1>1, <1>4, <2>1
<1>5. ASSUME NEW k \in Key, NEW o, RecvRreq(k, o)
      PROVE  HookSound'
  BY <1>4, <1>5, WrittenIsEntry DEF RecvRreq, Create, Replace
<1>6. ASSUME NEW k \in Key, NEW o, DtnRoute(k, o)
      PROVE  HookSound'
  <2>. DEFINE entry == [state |-> "REPLIED", id |-> o.id, hop |-> o.hop, hops |-> 0]
  <2>1. entry # NoEntry /\ [entry EXCEPT !.state = "INVALID"] # NoEntry
    BY DEF NoEntry
  <2>. QED
    BY <1>4, <1>6, <2>1 DEF DtnRoute
<1>7. ASSUME NEW k \in Key, RecvRrep(k) \/ Expire(k)
      PROVE  HookSound'
  BY <1>1, <1>7, StateKeepsEntry DEF RecvRrep, Expire
<1>8. ASSUME NEW k \in Key, Flush(k)
      PROVE  HookSound'
  <2>1. /\ up /\ up' /\ rt' = [rt EXCEPT ![k] = NoEntry]
        /\ hook' = [hook EXCEPT !.live = @ /\ hook.key # k]
    BY <1>8 DEF Flush, Unlink
  <2>2. \A j \in Key \ {k} : Has(j)' <=> Has(j)
    BY <2>1, RtIsFunction DEF Has
  <2>3. hook \in Hooks
    BY TypeParts DEF Parts, RestOK
  <2>4. /\ hook'.at = hook.at /\ hook'.key = hook.key
        /\ hook'.live => hook.live /\ hook.key # k
    BY <2>1, <2>3 DEF Hooks
  <2>. QED
    BY <2>1, <2>2, <2>4 DEF HookSound
<1>9. ASSUME NEW n \in Neigh, NewNeigh(n)
      PROVE  HookSound'
  BY <1>1, <1>9 DEF NewNeigh, Has
<1>10. ASSUME NEW k \in Busy, HookFinds(k)
       PROVE  HookSound'
  <2>1. k \in Key
    BY KernelAssumption DEF KernelAssumption
  <2>. QED
    BY <1>10, <2>1, Places DEF HookFinds, HookSound, Has
<1>11. CASE HookTests \/ HookReads
  <2>1. CASE hook.at # "idle" /\ UNCHANGED <<rt, up>>
             /\ \E to \in {"valid", "replied"} : hook' = [hook EXCEPT !.at = to]
    <3>1. hook \in Hooks
      BY TypeParts DEF Parts, RestOK
    <3>2. hook'.key = hook.key /\ hook'.live = hook.live
      BY <2>1, <3>1 DEF Hooks
    <3>. QED
      BY <2>1, <3>2 DEF HookSound, Has
  <2>. QED
    BY <1>2, <1>11, <2>1 DEF HookTests, HookReads
<1>12. CASE HookWrites
  BY <1>2, <1>12 DEF HookWrites
<1>13. CASE CleanupNeighRoutes
  BY <1>2, <1>13 DEF CleanupNeighRoutes
<1>14. CASE (\E k \in Key : CleanupRoute(k)) \/ FlushSrcList
  BY <1>3, <1>14 DEF CleanupRoute, FlushSrcList
<1>15. CASE UNCHANGED vars
  BY <1>1, <1>15 DEF vars, Has
<1>. QED
  BY <1>5, <1>6, <1>7, <1>8, <1>9, <1>10, <1>11, <1>12, <1>13, <1>14, <1>15
  DEF Next, Thread, Hook, Cleanup

LEMMA NextCount == CountInv /\ [Next]_vars => SrcCounted'
<1>. SUFFICES ASSUME CountInv, [Next]_vars PROVE SrcCounted'
  OBVIOUS
<1>. USE DEF CountInv
<1>1. CASE bare' \/ ~ up'
  BY <1>1 DEF SrcCounted
<1>2. CASE /\ UNCHANGED <<src, bare, up>>
           /\ \A k \in Key : Has(k)' <=> Has(k)
  BY <1>2, SameEntries
<1>3. ASSUME NEW k \in Key, NEW o, RecvRreq(k, o)
      PROVE  SrcCounted'
  <2>1. CASE up /\ Absent(k) /\ Create(k, o) /\ UNCHANGED up
    BY <2>1, CreateCount, Places
  <2>2. CASE Found(k) /\ Replace(k, o) /\ UNCHANGED up
    <3>1. \A j \in Key : Has(j)' <=> Has(j)
      BY <2>2, RtIsFunction, WrittenIsEntry, Places DEF Replace, Has
    <3>. QED
      BY <1>2, <2>2, <3>1 DEF Replace
  <2>. QED
    BY <1>3, <2>1, <2>2 DEF RecvRreq
<1>4. ASSUME NEW k \in Key, RecvRrep(k) \/ Expire(k)
      PROVE  SrcCounted'
  BY <1>2, <1>4, StateKeepsEntry DEF RecvRrep, Expire
<1>5. ASSUME NEW k \in Key, Flush(k)
      PROVE  SrcCounted'
  BY <1>5, FlushCount
<1>6. CASE HookWrites
  <2>1. PICK ks \in Target :
          rt' = [k \in Key |->
                   IF k \in ks THEN [rt[k] EXCEPT !.state = "ACTIVE"] ELSE rt[k]]
    BY <1>6 DEF HookWrites
  <2>2. \A k \in ks : k \in Key /\ Has(k)
    BY <1>6, <2>1 DEF HookWrites, Target, HookSound
  <2>3. ASSUME NEW k \in Key
        PROVE  Has(k)' <=> Has(k)
    <3>1. rt[k] \in Entries
      BY TypeParts DEF Parts, RtOK
    <3>2. CASE k \in ks
      <4>1. rt'[k].state = "ACTIVE"
        BY <2>1, <3>1, <3>2 DEF Entries
      <4>2. rt'[k] # NoEntry
        BY <4>1 DEF NoEntry
      <4>. QED
        BY <2>2, <3>2, <4>2 DEF Has
    <3>3. CASE k \notin ks
      BY <2>1, <3>3 DEF Has
    <3>. QED
      BY <3>2, <3>3
  <2>. QED
    BY <1>2, <1>6, <2>3 DEF HookWrites
<1>7. CASE UNCHANGED <<rt, src, bare, up>>
  BY <1>2, <1>7 DEF Has
<1>8. ASSUME NEW k \in Key, NEW o, DtnRoute(k, o)
      PROVE  SrcCounted'
  BY <1>1, <1>8 DEF DtnRoute
<1>9. CASE Hook
  BY <1>6, <1>7, <1>9 DEF Hook, HookFinds, HookTests, HookReads
<1>10. CASE Cleanup
  BY <1>1, <1>10 DEF Cleanup, CleanupNeighRoutes, CleanupRoute, FlushSrcList
<1>11. ASSUME NEW n \in Neigh, NewNeigh(n)
       PROVE  SrcCounted'
  BY <1>7, <1>11 DEF NewNeigh
<1>12. CASE UNCHANGED vars
  BY <1>7, <1>12 DEF vars
<1>. QED
  BY <1>3, <1>4, <1>5, <1>8, <1>9, <1>10, <1>11, <1>12 DEF Next, Thread

(* As long as every entry was counted, the count of each source is right   *)
(* and its rule stands exactly as long as it has an entry.                 *)
THEOREM SourcesCounted == Spec => []SrcCounted
<1>1. CountInv /\ [Next]_vars => CountInv'
  BY NextType, NextHook, NextCount DEF CountInv
<1>2. CountInv => SrcCounted
  BY DEF CountInv
<1>. QED
  BY InitCount, <1>1, <1>2, PTL DEF Spec
-----------------------------------------------------------------------------
(* Routes in force.  A flow that no DTN hello makes routes for has one     *)
(* entry at most.                                                          *)

SingleEntry ==
  \A k, j \in Key : Sole(k) /\ j.dst = k.dst /\ Has(k) /\ Has(j) => j = k

InstalledInv == CountInv /\ SingleEntry /\ RepliedInstalled

(* An entry is made for a DTN hello, or where its flow has none.           *)
LEMMA EntryAppears ==
  ASSUME CountInv, [Next]_vars, NEW k \in Key, ~ Has(k), Has(k)'
  PROVE  k \in Dtn \/ (Absent(k) /\ \A j \in Key \ {k} : rt'[j] = rt[j])
<1>. USE DEF CountInv
<1>1. rt'[k] # rt[k]
  BY DEF Has
<1>2. ASSUME NEW j \in Key, NEW o, RecvRreq(j, o)
      PROVE  Absent(k) /\ \A i \in Key \ {k} : rt'[i] = rt[i]
  BY <1>1, <1>2, Places, RtIsFunction DEF RecvRreq, Create, Replace
<1>3. ASSUME NEW j \in Key, NEW o, DtnRoute(j, o)
      PROVE  k \in Dtn
  BY <1>1, <1>3, RtIsFunction DEF DtnRoute
<1>4. ASSUME NEW j \in Key, RecvRrep(j) \/ Expire(j)
      PROVE  FALSE
  BY <1>1, <1>4, RtIsFunction DEF RecvRrep, Expire
<1>5. ASSUME NEW j \in Key, Flush(j) \/ CleanupRoute(j)
      PROVE  FALSE
  BY <1>1, <1>5, RtIsFunction DEF Flush, Unlink, CleanupRoute, Has
<1>6. ASSUME HookWrites
      PROVE  FALSE
  <2>1. PICK ks \in Target :
          rt' = [j \in Key |->
                   IF j \in ks THEN [rt[j] EXCEPT !.state = "ACTIVE"] ELSE rt[j]]
    BY <1>6 DEF HookWrites
  <2>2. k \in ks
    BY <1>1, <2>1
  <2>3. hook.at # "idle"
    BY <1>6 DEF HookWrites
  <2>. QED
    BY <2>2, <2>3 DEF Target, HookSound
<1>. QED
  BY <1>1, <1>2, <1>3, <1>4, <1>5, <1>6
  DEF Next, Thread, NewNeigh, Hook, HookFinds, HookTests, HookReads, Cleanup,
      CleanupNeighRoutes, FlushSrcList, vars

LEMMA NextSingle == InstalledInv /\ [Next]_vars => SingleEntry'
<1>. SUFFICES ASSUME InstalledInv, [Next]_vars, NEW k \in Key, NEW j \in Key,
                     Sole(k), j.dst = k.dst, Has(k)', Has(j)', j # k
              PROVE  FALSE
  BY DEF SingleEntry, Sole, Copies
<1>1. j \in Copies(k) /\ j \notin Dtn /\ k \notin Dtn
  BY DEF Sole
<1>2. k \in Copies(j)
  BY <1>1 DEF Copies
<1>3. CASE Has(k) /\ Has(j)
  BY <1>3 DEF InstalledInv, SingleEntry
<1>4. CASE ~ Has(k)
  <2>1. Absent(k) /\ rt'[j] = rt[j]
    BY <1>1, <1>4, EntryAppears DEF InstalledInv
  <2>2. ~ Has(j)
    BY <1>1, <2>1 DEF Absent
  <2>. QED
    BY <2>1, <2>2 DEF Has
<1>5. CASE ~ Has(j)
  <2>1. Absent(j) /\ rt'[k] = rt[k]
    BY <1>1, <1>5, EntryAppears DEF InstalledInv
  <2>2. ~ Has(k)
    BY <1>2, <2>1 DEF Absent
  <2>. QED
    BY <2>1, <2>2 DEF Has
<1>. QED
  BY <1>3, <1>4, <1>5

(* No flow that has its destination to itself shares it with k.            *)
Apart(k) == \A j \in Key \ {k} : Sole(j) /\ Has(j) => j.dst # k.dst

LEMMA WrittenApart ==
  ASSUME InstalledInv, NEW k \in Key, Has(k) \/ Absent(k) \/ k \in Dtn
  PROVE  Apart(k)
<1>. SUFFICES ASSUME NEW j \in Key \ {k}, Sole(j), Has(j), j.dst = k.dst PROVE FALSE
  BY DEF Apart
<1>1. k \in Copies(j) /\ k \notin Dtn
  BY DEF Sole
<1>2. j \in Copies(k)
  BY <1>1 DEF Copies
<1>. QED
  BY <1>1, <1>2 DEF InstalledInv, SingleEntry, Absent

(* A step that writes the entry of k, takes routes to its destination only *)
(* from the kernel, and leaves that of k there if it is REPLIED.           *)
LEMMA OneEntryWritten ==
  ASSUME InstalledInv, up, NEW k \in Key, Apart(k), NEW e,
         rt' = [rt EXCEPT ![k] = e],
         \A q \in kernel : q.dst # k.dst => q \in kernel',
         e.state = "REPLIED" => Route(k, e) \in kernel'
  PROVE  RepliedInstalled'
<1>. USE DEF InstalledInv, CountInv
<1>1. rt'[k] = e /\ \A j \in Key \ {k} : rt'[j] = rt[j]
  BY RtIsFunction
<1>2. ASSUME NEW j \in Key, Sole(j), rt'[j].state = "REPLIED"
      PROVE  Route(j, rt'[j]) \in kernel'
  <2>1. CASE j = k
    BY <1>1, <1>2, <2>1
  <2>2. CASE j # k
    <3>1. Route(j, rt[j]) \in kernel
      BY <1>1, <1>2, <2>2 DEF RepliedInstalled
    <3>2. Has(j)
      BY <1>1, <1>2, <2>2 DEF Has, NoEntry
    <3>3. Route(j, rt[j]).dst = j.dst /\ j.dst # k.dst
      BY <1>2, <2>2, <3>2 DEF Route, Apart
    <3>. QED
      BY <1>1, <2>2, <3>1, <3>3
  <2>. QED
    BY <2>1, <2>2
<1>. QED
  BY <1>2 DEF RepliedInstalled, Sole, Copies

LEMMA DelRouteOther ==
  ASSUME NEW k \in Key, NEW e, DelRoute(Route(k, e))
  PROVE  \A q \in kernel : q.dst # k.dst => q \in kernel'
<1>1. Route(k, e).dst = k.dst
  BY DEF Route
<1>. QED
  BY <1>1, DelRouteTakes

LEMMA InitInstalled == Init => SingleEntry /\ RepliedInstalled
  BY DEF Init, SingleEntry, Has, RepliedInstalled, NoEntry

LEMMA NextInstalled ==
  InstalledInv /\ [Next]_vars => RepliedInstalled'
<1>. SUFFICES ASSUME InstalledInv, [Next]_vars PROVE RepliedInstalled'
  OBVIOUS
<1>0. TypeOK /\ RepliedInstalled
  BY DEF InstalledInv, CountInv
<1>1. CASE ~ up'
  BY <1>1 DEF RepliedInstalled
<1>2. CASE UNCHANGED <<rt, up>> /\ kernel \subseteq kernel'
  BY <1>0, <1>2 DEF RepliedInstalled, Sole, Copies
<1>3. ASSUME NEW k \in Key, NEW o, RecvRreq(k, o)
      PROVE  RepliedInstalled'
  <2>1. Taken(o).state # "REPLIED" /\ Bare(o.id).state # "REPLIED"
    BY DEF Taken, Bare
  <2>4. Apart(k)
    BY <1>3, WrittenApart DEF RecvRreq, Found
  <2>2. CASE Create(k, o) /\ UNCHANGED kernel
    BY <1>3, <2>1, <2>2, <2>4, OneEntryWritten DEF RecvRreq, Create
  <2>3. CASE Replace(k, o)
    BY <1>3, <2>1, <2>3, <2>4, DelRouteOther, OneEntryWritten DEF RecvRreq, Replace
  <2>. QED
    BY <1>3, <2>2, <2>3 DEF RecvRreq
<1>4. ASSUME NEW k \in Key, NEW o, DtnRoute(k, o)
      PROVE  RepliedInstalled'
  <2>. DEFINE entry == [state |-> "REPLIED", id |-> o.id, hop |-> o.hop, hops |-> 0]
  <2>1. [entry EXCEPT !.state = "INVALID"].state # "REPLIED"
    OBVIOUS
  <2>. QED
    BY <1>4, <2>1, OneEntryWritten, WrittenApart DEF DtnRoute
<1>5. ASSUME NEW k \in Key, RecvRrep(k)
      PROVE  RepliedInstalled'
  <2>. DEFINE e == [rt[k] EXCEPT !.state = "REPLIED"]
  <2>1. rt[k] \in Entries
    BY <1>0, TypeParts DEF Parts, RtOK
  <2>2. rt' = [rt EXCEPT ![k] = e]
    BY <1>5 DEF RecvRrep
  <2>3. Route(k, e) = Route(k, rt[k])
    BY <2>1 DEF Route, Entries
  <2>4. up /\ kernel \subseteq kernel' /\ Route(k, e) \in kernel'
    BY <1>5, <2>3 DEF RecvRrep
  <2>5. Apart(k)
    BY <1>5, WrittenApart DEF RecvRrep
  <2>. HIDE DEF e
  <2>. QED
    BY <2>2, <2>4, <2>5, OneEntryWritten
<1>6. ASSUME NEW k \in Key, Expire(k)
      PROVE  RepliedInstalled'
  <2>. DEFINE e == [rt[k] EXCEPT !.state = "INVALID"]
  <2>1. rt[k] \in Entries
    BY <1>0, TypeParts DEF Parts, RtOK
  <2>2. e.state # "REPLIED"
    BY <2>1 DEF Entries
  <2>3. rt' = [rt EXCEPT ![k] = e] /\ up /\ UNCHANGED kernel
    BY <1>6 DEF Expire
  <2>4. Apart(k)
    BY <1>6, WrittenApart DEF Expire
  <2>. HIDE DEF e
  <2>. QED
    BY <2>2, <2>3, <2>4, OneEntryWritten
<1>7. ASSUME NEW k \in Key, Flush(k)
      PROVE  RepliedInstalled'
  BY <1>7, DelRouteOther, OneEntryWritten, WrittenApart DEF Flush, Unlink, NoEntry
<1>8. ASSUME NEW n \in Neigh, NewNeigh(n)
      PROVE  RepliedInstalled'
  BY <1>2, <1>8 DEF NewNeigh
<1>9. CASE HookWrites
  <2>1. PICK ks :
          rt' = [k \in Key |->
                   IF k \in ks THEN [rt[k] EXCEPT !.state = "ACTIVE"] ELSE rt[k]]
    BY <1>9 DEF HookWrites
  <2>2. ASSUME NEW k \in Key, rt'[k].state = "REPLIED"
        PROVE  rt'[k] = rt[k]
    <3>1. rt[k] \in Entries
      BY <1>0, TypeParts DEF Parts, RtOK
    <3>. QED
      BY <2>1, <2>2, <3>1 DEF Entries
  <2>. QED
    BY <1>0, <1>9, <2>2 DEF HookWrites, RepliedInstalled, Sole, Copies
<1>10. CASE Hook /\ ~ HookWrites
  BY <1>2, <1>10 DEF Hook, HookFinds, HookTests, HookReads
<1>11. CASE Cleanup
  BY <1>1, <1>11 DEF Cleanup, CleanupNeighRoutes, CleanupRoute, FlushSrcList
<1>12. CASE UNCHANGED vars
  BY <1>2, <1>12 DEF vars
<1>. QED
  BY <1>3, <1>4, <1>5, <1>6, <1>7, <1>8, <1>9, <1>10, <1>11, <1>12 DEF Next, Thread

(* A REPLIED flow that has its destination to itself, with no DTN route to *)
(* it, is in the kernel.                                                   *)
THEOREM KernelInstalled == Spec => []RepliedInstalled
<1>1. Init => InstalledInv
  BY InitCount, InitInstalled DEF InstalledInv
<1>2. InstalledInv /\ [Next]_vars => InstalledInv'
  BY NextType, NextHook, NextCount, NextSingle, NextInstalled DEF InstalledInv, CountInv
<1>3. InstalledInv => RepliedInstalled
  BY DEF InstalledInv
<1>. QED
  BY <1>1, <1>2, <1>3, PTL DEF Spec
-----------------------------------------------------------------------------
(* What is left behind.  As long as nothing was left uncounted, an entry   *)
(* names its kernel route in full and its source is listed, so what        *)
(* DelRoute takes is the route of the entry and no other.                  *)

WholeEntries ==
  ~ bare => \A k \in Key :
    Has(k) => rt[k].hop # Null /\ rt[k].hops # 0 /\ Listed(k.src)

LeftInv == CountInv /\ WholeEntries

LEMMA DelRouteExact ==
  ASSUME TypeOK, NEW k \in Key, NEW e, e.hop # Null, e.hops # 0,
         Route(k, e) \in kernel, DelRoute(Route(k, e))
  PROVE  Route(k, e) \notin kernel'
<1>. DEFINE r == Route(k, e)
<1>1. r.dst = k.dst /\ r.hop = e.hop /\ r.hops = e.hops
  BY DEF Route
<1>2. \A q \in kernel : q \in RouteSet
  BY TypeParts DEF Parts, KernelOK
<1>3. Matches(r) = {r}
  <2>1. \A q \in Matches(r) : q.dst = r.dst /\ q.hop = r.hop /\ q.hops = r.hops
    BY <1>1 DEF Matches
  <2>2. \A q \in Matches(r) : q \in RouteSet /\ r \in RouteSet
    BY <1>2 DEF Matches
  <2>3. r \in Matches(r)
    BY <1>1 DEF Matches
  <2>. HIDE DEF r
  <2>4. \A q \in Matches(r) : q = r
    BY <2>1, <2>2 DEF RouteSet
  <2>. QED
    BY <2>3, <2>4
<1>. HIDE DEF r
<1>4. kernel' = kernel \ {r}
  BY <1>3 DEF DelRoute, r
<1>. QED
  BY <1>4 DEF r

SameRoute(k) == Has(k)' /\ rt'[k].hop = rt[k].hop /\ rt'[k].hops = rt[k].hops

LEMMA NoEntryState ==
  ASSUME NEW k \in Key, rt'[k].state \in {"INVALID", "ACTIVE", "REPLIED"},
         rt'[k].hop = rt[k].hop, rt'[k].hops = rt[k].hops
  PROVE  SameRoute(k)
<1>1. rt'[k] # NoEntry
  BY DEF NoEntry
<1>. QED
  BY <1>1 DEF SameRoute, Has

(* What a step does to an entry: its route stays, or it is replaced by a   *)
(* better path, or flushed, or cleaned up.                                 *)
LEMMA EntryStep ==
  ASSUME CountInv, [Next]_vars, NEW k \in Key, Has(k)
  PROVE  \/ SameRoute(k)
         \/ \E o \in Offer[k] : Replace(k, o)
         \/ Flush(k) \/ CleanupRoute(k)
<1>. USE DEF CountInv
<1>1. ASSUME rt'[k] = rt[k]
      PROVE  SameRoute(k)
  BY <1>1 DEF SameRoute, Has
<1>2. ASSUME NEW j \in Key, NEW o \in Offer[j], RecvRreq(j, o) \/ DtnRoute(j, o)
      PROVE  rt'[k] = rt[k] \/ \E p \in Offer[k] : Replace(k, p)
  <2>1. CASE j = k
    BY <1>2, <2>1, Places DEF RecvRreq
  <2>2. CASE j # k
    BY <1>2, <2>2, RtIsFunction DEF RecvRreq, Create, Replace, DtnRoute
  <2>. QED
    BY <2>1, <2>2
<1>3. ASSUME NEW j \in Key, RecvRrep(j) \/ Expire(j)
      PROVE  SameRoute(k)
  <2>1. CASE j = k
    <3>1. PICK s \in {"INVALID", "REPLIED"} : rt' = [rt EXCEPT ![k].state = s]
      BY <1>3, <2>1 DEF RecvRrep, Expire
    <3>2. rt \in [Key -> Entries]
      BY TypeParts DEF Parts, RtOK
    <3>3. rt'[k].state = s /\ rt'[k].hop = rt[k].hop /\ rt'[k].hops = rt[k].hops
      BY <3>1, <3>2 DEF Entries
    <3>. QED
      BY <3>3, NoEntryState
  <2>2. CASE j # k
    <3>1. \E s \in {"INVALID", "REPLIED"} : rt' = [rt EXCEPT ![j].state = s]
      BY <1>3 DEF RecvRrep, Expire
    <3>2. rt'[k] = rt[k]
      BY <2>2, <3>1, RtIsFunction, Zenon
    <3>. QED
      BY <1>1, <3>2
  <2>. QED
    BY <2>1, <2>2
<1>4. ASSUME NEW j \in Key, Flush(j) \/ CleanupRoute(j), j # k
      PROVE  rt'[k] = rt[k]
  BY <1>4, RtIsFunction DEF Flush, Unlink, CleanupRoute
<1>5. ASSUME HookWrites
      PROVE  SameRoute(k)
  <2>1. PICK ks \in Target :
          rt' = [j \in Key |->
                   IF j \in ks THEN [rt[j] EXCEPT !.state = "ACTIVE"] ELSE rt[j]]
    BY <1>5 DEF HookWrites
  <2>2. rt \in [Key -> Entries]
    BY TypeParts DEF Parts, RtOK
  <2>3. CASE k \notin ks
    BY <1>1, <2>1, <2>3
  <2>4. CASE k \in ks
    <3>1. rt'[k].state = "ACTIVE" /\ rt'[k].hop = rt[k].hop /\ rt'[k].hops = rt[k].hops
      BY <2>1, <2>2, <2>4 DEF Entries
    <3>. QED
      BY <3>1, NoEntryState
  <2>. QED
    BY <2>3, <2>4
<1>6. CASE UNCHANGED rt
  BY <1>1, <1>6
<1>. QED
  BY <1>1, <1>2, <1>3, <1>4, <1>5, <1>6
  DEF Next, Thread, NewNeigh, Hook, HookFinds, HookTests, HookReads, Cleanup,
      CleanupNeighRoutes, FlushSrcList, vars

LEMMA BareStays == [Next]_vars /\ ~ bare' => ~ bare
  BY DEF Next, Thread, RecvRreq, Create, Replace, DtnRoute, RecvRrep, Expire, Flush,
         NewNeigh, Hook, HookFinds, HookTests, HookReads, HookWrites, Cleanup,
         CleanupNeighRoutes, CleanupRoute, FlushSrcList, vars

(* An entry that is new is one made for an offer, as long as all count.    *)
LEMMA NewEntry ==
  ASSUME CountInv, [Next]_vars, NEW k \in Key, ~ Has(k), Has(k)', ~ bare'
  PROVE  \E o \in Offer[k] : rt'[k] = Taken(o)
<1>. USE DEF CountInv
<1>1. rt'[k] # rt[k]
  BY DEF Has
<1>2. ASSUME NEW j \in Key, NEW o \in Offer[j], RecvRreq(j, o)
      PROVE  j = k /\ rt'[k] = Taken(o)
  BY <1>1, <1>2, RtIsFunction DEF RecvRreq, Create, Replace
<1>3. ASSUME NEW j \in Key, NEW o \in Offer[j], DtnRoute(j, o)
      PROVE  FALSE
  BY <1>3 DEF DtnRoute
<1>4. ASSUME NEW j \in Key, RecvRrep(j) \/ Expire(j)
      PROVE  FALSE
  BY <1>1, <1>4, RtIsFunction DEF RecvRrep, Expire
<1>5. ASSUME NEW j \in Key, Flush(j) \/ CleanupRoute(j)
      PROVE  FALSE
  BY <1>1, <1>5, RtIsFunction DEF Flush, Unlink, CleanupRoute, Has
<1>6. CASE HookWrites
  <2>1. PICK ks \in Target :
          rt' = [j \in Key |->
                   IF j \in ks THEN [rt[j] EXCEPT !.state = "ACTIVE"] ELSE rt[j]]
    BY <1>6 DEF HookWrites
  <2>2. k \in ks
    BY <1>1, <2>1
  <2>3. hook.at # "idle"
    BY <1>6 DEF HookWrites
  <2>. QED
    BY <2>2, <2>3 DEF Target, HookSound
<1>. QED
  BY <1>1, <1>2, <1>3, <1>4, <1>5, <1>6
  DEF Next, Thread, NewNeigh, Hook, HookFinds, HookTests, HookReads, Cleanup,
      CleanupNeighRoutes, FlushSrcList, vars

LEMMA TakenIsWhole ==
  ASSUME NEW k \in Key, NEW o \in Offer[k]
  PROVE  Taken(o).hop # Null /\ Taken(o).hops # 0
  BY OfferType DEF Taken

(* Removal empties the list of sources once no entry needs it.             *)
LEMMA SourceStays ==
  ASSUME CountInv, [Next]_vars, ~ up', NEW k \in Key, Has(k)'
  PROVE  UNCHANGED src /\ Has(k)
<1>. USE DEF CountInv
<1>1. ~ Thread
  <2>1. \A j, o : RecvRreq(j, o) \/ DtnRoute(j, o) => up'
    BY DEF RecvRreq, DtnRoute
  <2>2. \A j : RecvRrep(j) \/ Expire(j) \/ Flush(j) \/ NewNeigh(j) => up'
    BY DEF RecvRrep, Expire, Flush, NewNeigh
  <2>. QED
    BY <2>1, <2>2 DEF Thread
<1>2. ~ Hook
  BY DEF Hook, HookFinds, HookTests, HookReads, HookWrites, HookSound
<1>3. CASE CleanupNeighRoutes
  BY <1>3 DEF CleanupNeighRoutes, Has
<1>4. ASSUME NEW j \in Key, CleanupRoute(j)
      PROVE  UNCHANGED src /\ Has(k)
  BY <1>4, RtIsFunction DEF CleanupRoute, Has
<1>5. CASE FlushSrcList
  BY <1>5 DEF FlushSrcList, Has
<1>6. CASE UNCHANGED vars
  BY <1>6 DEF vars, Has
<1>. QED
  BY <1>1, <1>2, <1>3, <1>4, <1>5, <1>6 DEF Next, Cleanup

LEMMA NextWhole == LeftInv /\ [Next]_vars => WholeEntries'
<1>. SUFFICES ASSUME LeftInv, [Next]_vars, ~ bare', NEW k \in Key, Has(k)'
              PROVE  rt'[k].hop # Null /\ rt'[k].hops # 0 /\ Listed(k.src)'
  BY DEF WholeEntries
<1>. USE DEF LeftInv
<1>1. ~ bare /\ CountInv'
  BY BareStays, NextType, NextHook, NextCount DEF CountInv
<1>2. rt'[k].hop # Null /\ rt'[k].hops # 0
  <2>1. CASE ~ Has(k)
    BY <2>1, NewEntry, TakenIsWhole
  <2>2. CASE Has(k) /\ SameRoute(k)
    BY <1>1, <2>2 DEF WholeEntries, SameRoute
  <2>3. ASSUME NEW o \in Offer[k], Replace(k, o)
        PROVE  rt'[k].hop # Null /\ rt'[k].hops # 0
    BY <2>3, TakenIsWhole, RtIsFunction DEF Replace, CountInv
  <2>4. CASE Flush(k) \/ CleanupRoute(k)
    BY <2>4, RtIsFunction DEF Flush, Unlink, CleanupRoute, Has, CountInv
  <2>. QED
    BY <2>1, <2>2, <2>3, <2>4, EntryStep
<1>3. Listed(k.src)'
  <2>1. k.src \in Source
    BY MeIsSource
  <2>2. CASE up'
    <3>1. EntriesOf(k.src)' # {}
      BY DEF EntriesOf
    <3>. QED
      BY <1>1, <2>1, <2>2, <3>1 DEF CountInv, SrcCounted
  <2>3. CASE ~ up'
    BY <1>1, <2>3, SourceStays DEF WholeEntries, Listed
  <2>. QED
    BY <2>2, <2>3
<1>. QED
  BY <1>2, <1>3

LEMMA InitLeft == Init => LeftInv
  BY InitCount DEF LeftInv, WholeEntries, Init, Has

(* The step in question: its entry was replaced while it was INVALID, for  *)
(* else DelRoute would have taken the route.                               *)
LEMMA StepLeaves ==
  ASSUME LeftInv, [Next]_vars, ~ bare', NEW r \in kernel \cap kernel',
         Backed(r), ~ Backed(r)'
  PROVE  \E k \in Key : /\ rt[k].state = "INVALID" /\ Route(k, rt[k]) = r
                        /\ rt'[k].state = "ACTIVE"
<1>. USE DEF LeftInv
<1>1. ~ bare /\ TypeOK
  BY BareStays DEF CountInv
<1>2. PICK k \in Key : Has(k) /\ Route(k, rt[k]) = r
  BY DEF Backed
<1>3. rt[k].hop # Null /\ rt[k].hops # 0 /\ Listed(k.src)
  BY <1>1, <1>2 DEF WholeEntries
<1>4. ~ DelRoute(Route(k, rt[k]))
  BY <1>1, <1>2, <1>3, DelRouteExact
<1>5. ~ SameRoute(k)
  <2>1. SameRoute(k) => Route(k, rt'[k]) = r
    BY <1>2 DEF SameRoute, Route
  <2>. QED
    BY <2>1 DEF SameRoute, Backed
<1>6. ~ Flush(k) /\ ~ CleanupRoute(k)
  BY <1>3, <1>4 DEF Flush, CleanupRoute
<1>7. PICK o \in Offer[k] : Replace(k, o)
  BY <1>2, <1>5, <1>6, EntryStep
<1>8. rt[k].state = "INVALID"
  BY <1>4, <1>7 DEF Replace
<1>9. rt'[k].state = "ACTIVE"
  BY <1>1, <1>7, RtIsFunction DEF Replace, Taken
<1>. QED
  BY <1>2, <1>8, <1>9

(* As long as every entry was counted, the kernel keeps a route that no    *)
(* entry needs only when an INVALID entry was replaced.                    *)
THEOREM KernelLeaves == Spec => LeftBehind
<1>1. LeftInv /\ [Next]_vars => LeftInv'
  BY NextType, NextHook, NextCount, NextWhole DEF LeftInv, CountInv
<1>2. ASSUME LeftInv, [Next]_vars
      PROVE  [~ bare' =>
                \A r \in kernel \cap kernel' :
                  Backed(r) /\ ~ Backed(r)' =>
                    \E k \in Key : /\ rt[k].state = "INVALID" /\ Route(k, rt[k]) = r
                                   /\ rt'[k].state = "ACTIVE"]_vars
  BY <1>2, StepLeaves
<1>. QED
  BY InitLeft, <1>1, <1>2, PTL DEF Spec, LeftBehind
=============================================================================
