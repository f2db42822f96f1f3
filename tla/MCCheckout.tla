----------------------------- MODULE MCCheckout -----------------------------
(* Two orders that compete for the two units of a; the first also wants    *)
(* units of b, of which one more is stocked.                               *)
EXTENDS Checkout, TLC
CONSTANTS o1, o2, a, b
MCLines == o1 :> (a :> 1 @@ b :> 1) @@ o2 :> (a :> 2 @@ b :> 0)
MCStock == a :> 2 @@ b :> 1
MCMaxReceived == a :> 2 @@ b :> 2
=============================================================================
