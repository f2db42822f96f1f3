--------------------------- MODULE IdempotencyStore ---------------------------
(***************************************************************************)
(* code/hld/idempotency_store.py: the records of IdempotencyStore.  begin  *)
(* and purge_expired read the clock before they take the lock; the caller  *)
(* passes the age of that reading.  Keys are given once per payload, so no *)
(* begin ends in MISMATCH.  A response is the token of the claim that made *)
(* it.                                                                     *)
(***************************************************************************)
EXTENDS Integers

CONSTANTS
    Key,
    ResponseTTL, InProgressTTL,
    Nobody,          \* no record, no call
    Horizon          \* bound: age of a clock reading when the lock is taken

VARIABLES
    records,         \* records[k]: [state, token, left], or Nobody
    nextToken

storeVars == <<records, nextToken>>

Record == [state : {"in_progress", "completed"}, token : Nat, left : Int]

StoreTypeOK ==
    /\ nextToken \in Nat \ {0}
    /\ records \in [Key -> Record \cup {Nobody}]
    /\ \A k \in Key : records[k] # Nobody => records[k].token < nextToken

StoreInit ==
    /\ records = [k \in Key |-> Nobody]
    /\ nextToken = 1

\* Seeded fault: any claim may be taken over.
ExpiredIfClaimed(k, age) ==
    records[k] # Nobody /\ (records[k].left <= 0 - age \/ records[k].state = "in_progress")

Expired(k, age) == records[k] # Nobody /\ records[k].left <= 0 - age

Free(k, age) == records[k] = Nobody \/ Expired(k, age)

\* begin answers NEW: the key is free, or its record is past its time.
BeginNew(k, age) ==
    /\ Free(k, age)
    /\ records' = [records EXCEPT ![k] =
          [state |-> "in_progress", token |-> nextToken, left |-> InProgressTTL - age]]
    /\ nextToken' = nextToken + 1

\* begin answers REPLAY or IN_PROGRESS.
Replays(k, age) == ~Free(k, age) /\ records[k].state = "completed"
InProgress(k, age) == ~Free(k, age) /\ records[k].state = "in_progress"

\* Seeded fault: a response is stored without looking at the claim.
CurrentIfThere(k, token) == records[k] # Nobody

Current(k, token) == records[k] # Nobody /\ records[k].token = token

\* complete
Store(k, token) ==
    /\ Current(k, token)
    /\ records' = [records EXCEPT ![k] = [state |-> "completed", token |-> token, left |-> ResponseTTL]]
    /\ UNCHANGED nextToken

\* release
Drop(k, token) ==
    /\ records' = IF Current(k, token) /\ records[k].state = "in_progress"
                  THEN [records EXCEPT ![k] = Nobody] ELSE records
    /\ UNCHANGED nextToken

\* purge_expired, locked.
Purge(age) ==
    /\ records' = [k \in Key |-> IF Expired(k, age) THEN Nobody ELSE records[k]]
    /\ UNCHANGED nextToken

StorePasses ==
    /\ records' = [k \in Key |->
          IF records[k] = Nobody \/ records[k].left <= 0 - Horizon THEN records[k]
          ELSE [records[k] EXCEPT !.left = @ - 1]]
    /\ UNCHANGED nextToken
=============================================================================
