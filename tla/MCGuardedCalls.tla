---------------------------- MODULE MCGuardedCalls ----------------------------
(* GuardedCalls with two callers: windows and cooldowns of one second, two    *)
(* trials in half-open that must both succeed, and two permits lost per       *)
(* episode, so that every slot can be lost.  A budget of four retries is      *)
(* half spent before it refuses; a success earns half a retry.                *)
EXTENDS GuardedCalls
=============================================================================
