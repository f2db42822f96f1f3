---------------------------- MODULE MCJobExecution ----------------------------
(* JobExecution with two workers and one job, due once: three attempts, a     *)
(* lease shorter than the claim of a key (with the age of a reading the two   *)
(* end in either order), and a response kept long enough to be asked for      *)
(* again.                                                                     *)
EXTENDS JobExecution, TLC

CONSTANT j1

MCInterval == [j \in Job |-> 1]
MCPriority == [j \in Job |-> 0]
MCMisfire == [j \in Job |-> "catch_up"]
MCBackoff == [a \in 1..MaxAttempts |-> 1]
=============================================================================
