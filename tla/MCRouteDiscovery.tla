-------------------------- MODULE MCRouteDiscovery --------------------------
(***************************************************************************)
(* Small meshes and flows for RouteDiscovery.                              *)
(***************************************************************************)
EXTENDS RouteDiscovery

CONSTANTS a, b, c, d, t1

Both(pairs) == pairs \cup {<<p[2], p[1]>> : p \in pairs}

\* a - b - c: everything between a and c goes through b.
Line == Both({<<a, b>>, <<b, c>>})
\* a and d with b and c between them, who hear each other; c does not hear d.
Kite == Both({<<a, b>>, <<a, c>>, <<b, c>>, <<b, d>>})
\* The kite in which a hears neither b nor c: its messages go out by two paths
\* that share b, and what comes back does not reach it.
DeafKite == Kite \ {<<a, b>>, <<a, c>>}
\* Two disjoint paths from a to d.
Diamond == Both({<<a, b>>, <<a, c>>, <<b, d>>, <<c, d>>})

FlowAD == {[src |-> a, dst |-> d, tos |-> t1]}
\* b opens a flow too, so the ids of b and of a can meet in b's table.
ToC    == {[src |-> a, dst |-> c, tos |-> t1],
           [src |-> b, dst |-> c, tos |-> t1]}
NoLink == {}
\* The links over which b may lose a neighbour and find it again.
BHearsBoth == {<<b, a>>, <<b, c>>}
=============================================================================
