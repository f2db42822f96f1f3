------------------------------ MODULE FencingLock ------------------------------
(***************************************************************************)
(* code/hld/fencing_lock.py: a LeaseLockService, a FencedStore, and the    *)
(* clients that hold its leases.  Each method is one critical section and  *)
(* so one action.  A client keeps every lease it was ever given and may    *)
(* use it at any later time: that is the paused client the tokens are for. *)
(* The store's key is the name of the resource the clients lock for it.    *)
(***************************************************************************)
EXTENDS Integers, FiniteSets

CONSTANTS
    Owner,
    Resource,
    TTL,          \* seconds a lease lasts
    None,         \* "no entry" in the code's dictionaries
    MaxTime,      \* bound: the last value of the clock
    MaxToken      \* bound: the number of grants

ASSUME LeaseAssumption == TTL \in Nat \ {0} /\ MaxTime \in Nat /\ MaxToken \in Nat

VARIABLES
    now,          \* the clock
    leases,       \* leases[r]: the service's entry, expired or not, or None
    nextToken,
    given,        \* the leases clients were given (a renewal changes none of
                  \* the fields a client passes on)
    values,       \* values[r]: token of the last accepted write, or None
    rejected      \* <<key, token>> of the writes refused so far

lockVars == <<now, leases, nextToken, given, values, rejected>>

Token == 1..MaxToken
Lease == [owner : Owner, token : Token, expiresAt : 0..(MaxTime + TTL)]
Given == [resource : Resource, owner : Owner, token : Token]

ASSUME NoneAssumption == None \notin Lease /\ None \notin Token /\ None \notin Token \X Owner

LockTypeOK ==
    /\ now \in 0..MaxTime
    /\ leases \in [Resource -> Lease \cup {None}]
    /\ nextToken \in 0..MaxToken
    /\ given \in SUBSET Given
    /\ values \in [Resource -> Token \cup {None}]
    /\ rejected \in SUBSET (Resource \X Token)

LockInit ==
    /\ now = 0
    /\ leases = [r \in Resource |-> None]
    /\ nextToken = 0
    /\ given = {}
    /\ values = [r \in Resource |-> None]
    /\ rejected = {}

------------------------------------------------------------------------------
(* LeaseLockService *)

\* holder(): the lease on r, if it has not expired.
Holder(r) == IF leases[r] # None /\ leases[r].expiresAt > now THEN leases[r] ELSE None

\* The lease l is the entry of its resource.
Current(l) == leases[l.resource] # None /\ leases[l.resource].token = l.token

Acquire(c, r) ==
    /\ Holder(r) = None
    /\ nextToken < MaxToken
    /\ nextToken' = nextToken + 1
    /\ leases' = [leases EXCEPT ![r] = [owner |-> c, token |-> nextToken', expiresAt |-> now + TTL]]
    /\ given' = given \cup {[resource |-> r, owner |-> c, token |-> nextToken']}
    /\ UNCHANGED <<now, values, rejected>>

\* Seeded fault: a renewal brings an expired or superseded lease back.
RenewStale(l) ==
    /\ leases[l.resource] # None
    /\ leases' = [leases EXCEPT ![l.resource] =
                    [owner |-> l.owner, token |-> l.token, expiresAt |-> now + TTL]]
    /\ UNCHANGED <<now, nextToken, given, values, rejected>>

Renew(l) ==
    /\ Current(l)
    /\ Holder(l.resource) # None
    /\ leases' = [leases EXCEPT ![l.resource] =
                    [owner |-> l.owner, token |-> l.token, expiresAt |-> now + TTL]]
    /\ UNCHANGED <<now, nextToken, given, values, rejected>>

\* An expired lease may still be released while nobody has taken it over.
Release(l) ==
    /\ Current(l)
    /\ leases' = [leases EXCEPT ![l.resource] = None]
    /\ UNCHANGED <<now, nextToken, given, values, rejected>>

------------------------------------------------------------------------------
(* FencedStore, with check_tokens *)

\* Seeded fault: the check of the token is missing.
StaleNever(r, token) == FALSE

Stale(r, token) == values[r] # None /\ token < values[r]

\* Any lease ever given may be behind a write, whatever became of it.
Write(l) ==
    /\ IF Stale(l.resource, l.token)
       THEN /\ rejected' = rejected \cup {<<l.resource, l.token>>}
            /\ UNCHANGED values
       ELSE /\ values' = [values EXCEPT ![l.resource] = l.token]
            /\ UNCHANGED rejected
    /\ UNCHANGED <<now, leases, nextToken, given>>

------------------------------------------------------------------------------
Tick ==
    /\ now < MaxTime
    /\ now' = now + 1
    /\ UNCHANGED <<leases, nextToken, given, values, rejected>>

LockNext ==
    \/ \E c \in Owner, r \in Resource : Acquire(c, r)
    \/ \E l \in given : Renew(l) \/ Release(l) \/ Write(l)
    \/ Tick

LockSpec == LockInit /\ [][LockNext]_lockVars

------------------------------------------------------------------------------
(* Properties *)

\* A client that still has its lock is never refused, however many paused
\* clients keep writing with what they were given before: while the service
\* has a lease on r, no write that carried its token has been rejected and none
\* would be.
LiveWriterIsAccepted ==
    \A r \in Resource : leases[r] # None =>
        /\ <<r, leases[r].token>> \notin rejected
        /\ ~Stale(r, leases[r].token)

\* Two grants never carry the same token, so the store's order is the order of
\* the grants (LeaseLockService: "any two grants ... are strictly ordered").
GrantsAreOrdered ==
    \A l, m \in given : l.token = m.token => l = m

\* Every token in use was granted, and the service's entry for a resource is its
\* latest grant: nothing at that resource carries a higher token.
LatestGrant ==
    /\ \A l \in given : l.token <= nextToken
    /\ \A r \in Resource :
         /\ leases[r] # None =>
              /\ [resource |-> r, owner |-> leases[r].owner, token |-> leases[r].token] \in given
              /\ \A l \in given : l.resource = r => l.token <= leases[r].token
         /\ values[r] # None => \E l \in given : l.resource = r /\ l.token = values[r]
    /\ \A x \in rejected : values[x[1]] # None /\ x[2] < values[x[1]]

\* The inductive invariant of the proofs.
FencingInv == LockTypeOK /\ GrantsAreOrdered /\ LatestGrant /\ LiveWriterIsAccepted

\* The service and the store implement Turns: the unexpired lease is the open
\* turn, and the store shows the latest turn that wrote.
OwnerOf(r, token) == (CHOOSE l \in given : l.resource = r /\ l.token = token).owner
TurnOf(r, token) == <<token, OwnerOf(r, token)>>
Promise == INSTANCE Turns WITH
        Client <- Owner,
        Number <- Token,
        open <- [r \in Resource |->
                   IF Holder(r) = None THEN None ELSE <<leases[r].token, leases[r].owner>>],
        taken <- [r \in Resource |-> {<<l.token, l.owner>> : l \in {m \in given : m.resource = r}}],
        shown <- [r \in Resource |-> IF values[r] = None THEN None ELSE TurnOf(r, values[r])]
ImplementsTurns == Promise!Spec
=============================================================================
