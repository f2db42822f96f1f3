----------------------------- MODULE GuardedCalls -----------------------------
(***************************************************************************)
(* code/hld/retry.py around code/hld/circuit_breaker.py: callers that share *)
(* a Retrier, its RetryBudget and one CircuitBreaker, and make their calls  *)
(* as retrier.call(breaker.call, fn).                                       *)
(*                                                                          *)
(* The function fails with a transient error, which the breaker counts and  *)
(* the retrier repeats; with an ignored one, which neither does; or with    *)
(* one that is no Exception.  CircuitOpenError is none of the exceptions    *)
(* the retrier repeats.  How long a retry sleeps is left open.  The         *)
(* counters of RetryStats are left out: nothing reads them but reports.     *)
(***************************************************************************)
EXTENDS CircuitBreaker

CONSTANTS
    MaxAttempts,
    MaxTokens,       \* the budget's max_tokens
    EarnRate         \* a success earns 1/EarnRate of a token (token_ratio)

ASSUME RetryAssumption == {MaxAttempts, MaxTokens, EarnRate} \subseteq Nat \ {0}

VARIABLES
    pc, attempt,     \* per caller: where it is in Retrier.call, and which attempt
    tokens,          \* the budget, in units of 1/EarnRate of a token
    credit           \* history: retries the successes so far have paid for

retryVars == <<pc, attempt, tokens, credit>>
vars == <<cbVars, retryVars>>

Full == MaxTokens * EarnRate
\* What the callers may be ahead of the budget: half of it, and one retry each
\* whose failure is counted before another caller's.
CreditLimit == Full \div 2 + Cardinality(Caller) * EarnRate

TypeOK ==
    /\ BreakerTypeOK
    /\ pc \in [Caller -> {"idle", "attempt", "inside", "failed", "counted", "sleeping", "succeeded"}]
    /\ attempt \in [Caller -> 0..MaxAttempts]
    /\ tokens \in 0..Full
    /\ credit \in Int /\ credit <= CreditLimit

Init ==
    /\ BreakerInit
    /\ pc = [c \in Caller |-> "idle"]
    /\ attempt = [c \in Caller |-> 0]
    /\ tokens = Full
    /\ credit = CreditLimit

Goto(c, from, to) == pc[c] = from /\ pc' = [pc EXCEPT ![c] = to]

Finish(c, from) ==
    /\ pc[c] = from
    /\ pc' = [pc EXCEPT ![c] = "idle"] /\ attempt' = [attempt EXCEPT ![c] = 0]

------------------------------------------------------------------------------
(* Retrier.call *)

Call(c) ==
    /\ Goto(c, "idle", "attempt")
    /\ attempt' = [attempt EXCEPT ![c] = 1]
    /\ UNCHANGED <<cbVars, tokens, credit>>

\* breaker.call: admitted, or out of the retrier with CircuitOpenError.
Try(c) ==
    /\ \/ Acquire(c) /\ Goto(c, "attempt", "inside") /\ UNCHANGED attempt
       \/ Rejects /\ Finish(c, "attempt") /\ UNCHANGED cbVars
    /\ UNCHANGED <<tokens, credit>>

\* The function returned, in time or too late.
Succeed(c) ==
    /\ Goto(c, "inside", "succeeded")
    /\ Record(c, ~Slow(c))
    /\ UNCHANGED <<attempt, tokens, credit>>

Fail(c) ==
    /\ Goto(c, "inside", "failed")
    /\ Record(c, FALSE)
    /\ UNCHANGED <<attempt, tokens, credit>>

\* An ignored exception.
Ignore(c) ==
    /\ Finish(c, "inside")
    /\ SettleLate(c) \/ HandBack(c)
    /\ UNCHANGED <<tokens, credit>>

\* An exception that is no Exception.
Vanish(c) ==
    /\ Finish(c, "inside")
    /\ Lose(c)
    /\ UNCHANGED <<tokens, credit>>

AtMost(n, limit) == IF n <= limit THEN n ELSE limit
AtLeast(n, limit) == IF n >= limit THEN n ELSE limit

\* Seeded fault: a failure costs what a success earns.
SpendLittle(c) ==
    /\ Goto(c, "failed", "counted")
    /\ tokens' = AtLeast(tokens - 1, 0)
    /\ UNCHANGED <<cbVars, attempt, credit>>

\* RetryBudget.record(ok=False)
Spend(c) ==
    /\ Goto(c, "failed", "counted")
    /\ tokens' = AtLeast(tokens - EarnRate, 0)
    /\ UNCHANGED <<cbVars, attempt, credit>>

\* RetryBudget.record(ok=True), and the call returns.
Earn(c) ==
    /\ Finish(c, "succeeded")
    /\ tokens' = AtMost(tokens + 1, Full)
    /\ credit' = AtMost(credit + 1, CreditLimit)
    /\ UNCHANGED cbVars

\* Attempts or budget exhausted: the failure is raised.
GiveUp(c) ==
    /\ Finish(c, "counted")
    /\ attempt[c] = MaxAttempts \/ 2 * tokens <= Full
    /\ UNCHANGED <<cbVars, tokens, credit>>

Retry(c) ==
    /\ attempt[c] < MaxAttempts /\ 2 * tokens > Full
    /\ Goto(c, "counted", "sleeping")
    /\ credit' = credit - EarnRate
    /\ UNCHANGED <<cbVars, attempt, tokens>>

Wake(c) ==
    /\ Goto(c, "sleeping", "attempt")
    /\ attempt' = [attempt EXCEPT ![c] = @ + 1]
    /\ UNCHANGED <<cbVars, tokens, credit>>

------------------------------------------------------------------------------
\* An operator's reset, a monitor's look, and time.
Environment == (Reset \/ HalfOpen \/ Prune \/ Tick) /\ UNCHANGED retryVars

Next ==
    \/ \E c \in Caller :
          \/ Call(c) \/ Try(c) \/ Succeed(c) \/ Fail(c) \/ Ignore(c) \/ Vanish(c)
          \/ Spend(c) \/ Earn(c) \/ GiveUp(c) \/ Retry(c) \/ Wake(c)
    \/ Environment

\* Callers run and time passes.  The guarded function comes to an end, and not
\* always in an ignored exception.
Fairness ==
    /\ WF_vars(Tick /\ UNCHANGED retryVars)
    /\ \A c \in Caller :
          /\ WF_vars(Call(c)) /\ WF_vars(Wake(c))
          /\ WF_vars(Spend(c)) /\ WF_vars(Earn(c)) /\ WF_vars(GiveUp(c) \/ Retry(c))
          /\ SF_vars(Try(c) /\ Acquire(c))
          /\ SF_vars(Succeed(c) \/ Fail(c))

Spec == Init /\ [][Next]_vars /\ Fairness

------------------------------------------------------------------------------
(* Properties *)

CallsInv ==
    /\ TypeOK
    /\ EpisodesAreApart
    /\ SlotsAreCounted
    /\ FailuresAreCounted
    /\ \A c \in Caller : permits[c] # None <=> pc[c] = "inside"

\* Retries stay a share of the traffic.  As long as no more callers share a budget
\* than half of it has tokens: in any stretch of a history, however the callers'
\* failures and checks interleave, the retries granted are at most half a budget,
\* one per caller, and 1/EarnRate for each success in it.
FewCallers == 2 * Cardinality(Caller) <= MaxTokens
RetriesArePaidFor == FewCallers => credit >= 0

\* The breaker never stays shut: an open one admits calls again, and a half-open
\* one comes to a verdict unless every slot belongs to a call that went away.
BreakerMovesOn ==
    /\ state = "open" ~> state # "open"
    /\ state = "half_open" ~> (state # "half_open" \/ lost = HalfOpenMaxCalls)
=============================================================================
