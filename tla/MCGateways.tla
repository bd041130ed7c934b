----------------------------- MODULE MCGateways -----------------------------
(***************************************************************************)
(* A network for Gateways: g and b are gateways; b hears g, but badly, and *)
(* g does not hear b; a and each of them hear each other well.             *)
(***************************************************************************)
EXTENDS Gateways, TLC

CONSTANTS g, a, b

Links == (g :> {a, b}) @@ (a :> {g, b}) @@ (b :> {a})
Costs == [n \in Node |-> [m \in Node |-> IF {n, m} = {g, b} THEN 3 ELSE 1]]
Leasts ==
  (g :> ((g :> 0) @@ (a :> 1) @@ (b :> 2))) @@ (b :> ((g :> 2) @@ (a :> 1) @@ (b :> 0)))
Numbers == (g :> 2) @@ (b :> 1)
=============================================================================
