----------------------------- MODULE MCRecovery -----------------------------
(***************************************************************************)
(* Flows and paths for Recovery.                                           *)
(***************************************************************************)
EXTENDS Recovery

CONSTANTS s, b, c

\* s sends to 1 through b and c, and to 2 through b; b sends to 3.
Far == [src |-> s, dst |-> 1]
Near == [src |-> s, dst |-> 2]
Own == [src |-> b, dst |-> 3]

Flows == {Far, Near, Own}
Paths == [f \in Flows |-> CASE f = Far -> <<s, b, c>>
                            [] f = Near -> <<s, b>>
                            [] f = Own -> <<b>>]
=============================================================================
