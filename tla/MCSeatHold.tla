------------------------------ MODULE MCSeatHold ------------------------------
(* SeatHold with two users after two seats.  Two holds, each with a TTL and a *)
(* grace of one, are enough for a late payer to have lost one of his seats, or *)
(* both, to the other user, before or after the sweeper has been there.       *)
EXTENDS SeatHold
=============================================================================
