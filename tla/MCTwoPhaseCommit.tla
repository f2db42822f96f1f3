--------------------------- MODULE MCTwoPhaseCommit ---------------------------
(* TwoPhaseCommit on two transactions over two participants.  They compete   *)
(* for x at both; t2 lists the participants in the other order, so the runs  *)
(* can block each other half way.  t2 takes two units of x where p2 has one, *)
(* which the floor allows only after t1 has brought the other.               *)
EXTENDS TwoPhaseCommit, TLC

CONSTANTS t1, t2, p1, p2, x, y

MCPlan == [t \in Tx |-> IF t = t2 THEN <<p2, p1>> ELSE <<p1, p2>>]
MCDelta == (t1 :> ((p1 :> (x :> 1)) @@ (p2 :> ((x :> 1) @@ (y :> -1)))))
        @@ (t2 :> ((p1 :> (x :> -1)) @@ (p2 :> (x :> -2))))
MCBalance == (p1 :> ((x :> 1) @@ (y :> 0))) @@ (p2 :> ((x :> 1) @@ (y :> 1)))
=============================================================================
