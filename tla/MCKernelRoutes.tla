--------------------------- MODULE MCKernelRoutes ---------------------------
(***************************************************************************)
(* Flows, paths and table numbers for KernelRoutes.                        *)
(***************************************************************************)
EXTENDS KernelRoutes, TLC

CONSTANTS s1, s2, d1, h1, h2, t1

Flow(s, d, t, n) == [src |-> s, dst |-> d, tos |-> t, copy |-> n]
Short(n) == [hop |-> h1, hops |-> 1, id |-> n]
Long(n)  == [hop |-> h2, hops |-> 2, id |-> n]

\* A flow of this node to where DTN hellos come from, once and again.
Hailed == {Flow(Me, d1, t1, n) : n \in 1 .. 2}
\* Two flows of s1, one of them to the neighbour h1, and one of s2.
ToNeigh == Flow(s1, h1, t1, 1)
Others == {Flow(s1, d1, t1, 1), Flow(s2, d1, t1, 1)}

Flows == Hailed \cup {ToNeigh} \cup Others
\* A path can be replaced by a shorter one, and by a newer one.
Offers == [k \in Flows |-> IF k = ToNeigh THEN {Long(1), Short(1), Long(2)}
                           ELSE {Short(1)}]
Neighs == {h1}
BusyFlows == {ToNeigh}
DtnFlows == Hailed
=============================================================================
