------------------------------- MODULE Retry -------------------------------
(***************************************************************************)
(* retry.Do: call a function until it succeeds, fails for good or has been *)
(* called MaxAttempts times, with an exponential, capped and jittered wait *)
(* before each further call, cut short when the context is done.  Delays   *)
(* are integers of Width bits, as time.Duration is one of 64.              *)
(***************************************************************************)
EXTENDS Integers

CONSTANTS
    Width,     \* bits of a duration
    Configs,   \* the configurations Do is called with
    Reserve    \* the one of Client.Reserve, in some unit of time

\* A wrapped product is positive only if it is a multiple of a power of two
\* that is greater than the limit: no product of the two limits overflows.
Safe(c) == c.maxDelay > 0 =>
              \A base \in {c.baseDelay, -c.baseDelay} : base * c.maxDelay < 2^(Width - 1)

ASSUME WidthAssumption == Width \in Nat \ {0}
ASSUME ConfigAssumption ==
    /\ Configs \subseteq [maxAttempts : Int, baseDelay : Int, maxDelay : Int]
    /\ Reserve \in Configs
    /\ \A c \in Configs : Safe(c)

VARIABLES
    config,     \* the configuration of this call of Do
    pc,         \* in a call of fn, in the select, or back at the caller
    attempt,    \* the loop variable
    delay,      \* the wait in progress
    result,     \* what Do returns
    cancelled,  \* TRUE iff the context is done
    \* History, read by no guard:
    waited,     \* the sum of the waits completed
    late        \* calls of fn begun after the context was done

vars == <<config, pc, attempt, delay, result, cancelled, waited, late>>

Results == {"none", "success", "final", "exhausted", "cancelled"}

-----------------------------------------------------------------------------
(* backoffDelay *)

Wrap(n) == ((n + 2^(Width - 1)) % 2^Width) - 2^(Width - 1)

\* int64(1) << uint(k)
Shift(k) == IF k < Width THEN Wrap(2^k) ELSE 0

\* Mutant: the wait grows by the same amount every time.
MutProduct(c, k) == Wrap(c.baseDelay * (k + 1))

Product(c, k) == Wrap(c.baseDelay * Shift(k))

\* Mutant: only products above the limit are clamped.
MutCap(c, k) ==
    IF Product(c, k) > c.maxDelay THEN c.maxDelay ELSE Product(c, k)

Cap(c, k) ==
    IF Product(c, k) \in 1..c.maxDelay THEN Product(c, k) ELSE c.maxDelay

\* Mutant: full jitter.
MutDelays(c, k) == IF Cap(c, k) <= 0 THEN {0} ELSE 0..Cap(c, k)

\* Half the cap and a random part of the other half.
Delays(c, k) ==
    IF Cap(c, k) <= 0 THEN {0}
    ELSE LET half == Cap(c, k) \div 2
         IN  {half + r : r \in 0..(Cap(c, k) - half)}

-----------------------------------------------------------------------------
(* Do *)

\* Without attempts Do returns nil and has called nothing.
Init ==
    /\ config \in Configs
    /\ IF config.maxAttempts > 0
       THEN pc = "calling" /\ result = "none"
       ELSE pc = "returned" /\ result = "success"
    /\ attempt = 0 /\ delay = 0 /\ cancelled = FALSE
    /\ waited = 0 /\ late = 0

Return(outcome) == /\ pc' = "returned"
                   /\ result' = outcome
                   /\ delay' = 0

Succeeds ==
    /\ pc = "calling"
    /\ Return("success")
    /\ UNCHANGED <<config, attempt, cancelled, waited, late>>

FailsForGood ==
    /\ pc = "calling"
    /\ Return("final")
    /\ UNCHANGED <<config, attempt, cancelled, waited, late>>

\* Mutant: the last attempt is one too late.
MutLast == attempt = config.maxAttempts

Last == attempt = config.maxAttempts - 1

FailsLast ==
    /\ pc = "calling" /\ Last
    /\ Return("exhausted")
    /\ UNCHANGED <<config, attempt, cancelled, waited, late>>

\* A failure worth a retry.  The select returns at once when the context is
\* done already and the timer has time to run.
Fails ==
    /\ pc = "calling" /\ ~ Last
    /\ \E d \in Delays(config, attempt) :
          IF cancelled /\ d > 0
          THEN Return("cancelled")
          ELSE pc' = "waiting" /\ delay' = d /\ UNCHANGED result
    /\ UNCHANGED <<config, attempt, cancelled, waited, late>>

\* The timer fires, perhaps as the context is done.
Timeout ==
    /\ pc = "waiting"
    /\ pc' = "calling" /\ delay' = 0
    /\ attempt' = attempt + 1
    /\ waited' = waited + delay
    /\ late' = IF cancelled THEN late + 1 ELSE late
    /\ UNCHANGED <<config, result, cancelled>>

CutShort ==
    /\ pc = "waiting" /\ cancelled
    /\ Return("cancelled")
    /\ UNCHANGED <<config, attempt, cancelled, waited, late>>

Cancel ==
    /\ pc # "returned"
    /\ cancelled' = TRUE
    /\ UNCHANGED <<config, pc, attempt, delay, result, waited, late>>

Call == Succeeds \/ FailsForGood \/ FailsLast \/ Fails

Returned == pc = "returned" /\ UNCHANGED vars

Next == Call \/ Timeout \/ CutShort \/ Cancel \/ Returned

Spec == Init /\ [][Next]_vars

-----------------------------------------------------------------------------
(* Properties *)

(***************************************************************************)
(* Every variable ranges over the values the code can give it; fn is never *)
(* called more than MaxAttempts times.                                     *)
(***************************************************************************)
TypeOK ==
    /\ config \in Configs
    /\ pc \in {"calling", "waiting", "returned"}
    /\ attempt \in Nat /\ (attempt = 0 \/ attempt < config.maxAttempts)
    /\ delay \in Nat /\ waited \in Nat /\ late \in Nat
    /\ result \in Results /\ (pc = "returned" <=> result # "none")
    /\ cancelled \in BOOLEAN

\* What the comment of backoffDelay computes, without overflow.
Ideal(c, k) ==
    CASE c.maxDelay <= 0 -> 0
      [] c.maxDelay > 0 /\ c.baseDelay <= 0 -> c.maxDelay
      [] OTHER -> IF c.baseDelay * 2^k < c.maxDelay
                  THEN c.baseDelay * 2^k ELSE c.maxDelay

(***************************************************************************)
(* "Each wait is at least half of the computed cap" and at most the cap,   *)
(* base*2^attempt or MaxDelay, also where the shift, the product or both   *)
(* overflow: a wrapped product never passes for a short wait.              *)
(***************************************************************************)
BackoffBounded ==
    pc = "waiting" =>
        Ideal(config, attempt) \div 2 <= delay /\ delay <= Ideal(config, attempt)

(***************************************************************************)
(* "The wait before the final attempt ranges roughly 3-6s": whoever calls  *)
(* Reserve waits between 3.05 and 6.1 seconds before its sixth attempt,    *)
(* whatever the jitter.  In units of 50 ms.                                *)
(***************************************************************************)
BudgetBridgesRestart ==
    config = Reserve /\ pc = "calling" /\ Last => waited \in 61..122

(***************************************************************************)
(* A request whose client is gone reserves stock at most once more: only a *)
(* timer that fires as the context is done lets another call through, and  *)
(* the wait after that one is never empty.                                 *)
(***************************************************************************)
CancelStops == Ideal(config, 0) >= 2 => late <= 1
=============================================================================
