------------------------------- MODULE Retries -------------------------------
(***************************************************************************)
(* Retried datastore calls and the policy that paces them.                 *)
(*                                                                         *)
(* One call is attempted until it succeeds, fails in a way its wrapper     *)
(* does not retry, runs out of attempts or is cancelled.  An attempt's     *)
(* statement may land although its caller sees an error: a connection that *)
(* dies after the statement shipped leaves the outcome open.  Delays are   *)
(* durations, an int64 of nanoseconds whose largest value is MaxDuration.  *)
(***************************************************************************)
EXTENDS Integers, Sequences, FiniteSets, FiniteSetsExt

CONSTANTS
    Policy,          \* the policies asked for: [retries, base, max, exponent]
    MaxDuration      \* the largest duration an int64 holds

ASSUME DurationsAreBounded == MaxDuration \in Nat \ {0}
ASSUME PoliciesAreIntegers ==
    Policy \subseteq [retries : Int, base : Int, max : Int, exponent : Int]

VARIABLES
    policy,       \* the policy of the call
    idempotent,   \* the wrapper: WrapIdempotent or WrapNonIdempotent
    attempt,      \* attempts made
    waits,        \* the delays slept
    landed,       \* ghost: attempts whose statement landed
    returned      \* what the wrapper returned: "none", "nil", or the class of the last error

retryVars == <<policy, idempotent, attempt, waits, landed, returned>>

(* ------------------------------ the policy ------------------------------ *)

Power(b, n) ==
    LET to[k \in Nat] == IF k = 0 THEN 1 ELSE b * to[k - 1] IN to[n]

CalculateDelay(p, n) ==
    IF p.base * Power(p.exponent, n) >= p.max THEN p.max ELSE p.base * Power(p.exponent, n)

(* the delays before attempt n, added up *)
DelaysBefore(p, n) == MapThenSumSet(LAMBDA k : CalculateDelay(p, k), 0..(n - 1))

(* from this attempt on every delay is the same *)
Constant(p, n) == p.exponent = 1 \/ CalculateDelay(p, n) = p.max

FirstConstant(p) ==
    IF \E n \in 0..(p.retries - 2) : Constant(p, n)
    THEN Min({n \in 0..(p.retries - 2) : Constant(p, n)})
    ELSE p.retries - 1

(* the delays of the constant tail, taken as one product *)
ConstantTail(p) == p.retries - 1 - FirstConstant(p)

CalculateTotalDelay(p) ==
    DelaysBefore(p, FirstConstant(p))
    + IF ConstantTail(p) = 0 THEN 0 ELSE CalculateDelay(p, FirstConstant(p)) * ConstantTail(p)

(* how many delays the attempt stands for, and what earlier ones have left *)
DelaysAt(p, n) == IF Constant(p, n) THEN p.retries - 1 - n ELSE 1
Remaining(p, n) == MaxDuration - DelaysBefore(p, n)

Fits(p) ==
    \A n \in {k \in 0..(p.retries - 2) : k <= FirstConstant(p)} :
       DelaysAt(p, n) <= Remaining(p, n) \div CalculateDelay(p, n)

Validate(p) ==
    /\ p.retries >= 1
    /\ p.base > 0
    /\ p.max >= p.base
    /\ p.exponent >= 1
    /\ Fits(p)

(* ------------------------------- the call ------------------------------- *)

(* How an attempt may end, and whether its statement may have landed:      *)
(*   rolled     deadlock, serialization failure, never sent, cancelled by  *)
(*              another session: provably not landed                       *)
(*   ambiguous  the connection died, or the server went down, after the    *)
(*              statement may have shipped                                 *)
(*   transient  a declared error whose recovery is transient               *)
(*   permanent  any other rejection                                        *)
(*   cancelled  the caller's own context ended during the statement        *)
Endings ==
    {[error |-> "nil", landed |-> TRUE], [error |-> "rolled", landed |-> FALSE],
     [error |-> "ambiguous", landed |-> TRUE], [error |-> "ambiguous", landed |-> FALSE],
     [error |-> "transient", landed |-> FALSE], [error |-> "permanent", landed |-> FALSE],
     [error |-> "cancelled", landed |-> TRUE], [error |-> "cancelled", landed |-> FALSE]}

IsRetryableDatastoreErrorAny(e) == e \in {"rolled", "transient", "ambiguous"}
IsRetryableDatastoreError(e) == e \in {"rolled", "transient"}
IsTransientDatastoreError(e) == IsRetryableDatastoreError(e) \/ e = "ambiguous"

Retryable(e) == IF idempotent THEN IsTransientDatastoreError(e) ELSE IsRetryableDatastoreError(e)

RetriesInit ==
    /\ policy \in {p \in Policy : Validate(p)}
    /\ idempotent \in BOOLEAN
    /\ attempt = 0
    /\ waits = <<>>
    /\ landed = 0
    /\ returned = "none"

TryCall ==
    /\ returned = "none"
    /\ attempt = Len(waits)
    /\ \E ending \in Endings :
          /\ landed' = IF ending.landed THEN landed + 1 ELSE landed
          /\ returned' = IF Retryable(ending.error) /\ attempt + 1 < policy.retries THEN "none" ELSE ending.error
    /\ attempt' = attempt + 1
    /\ UNCHANGED <<policy, idempotent, waits>>

Wait ==
    /\ returned = "none"
    /\ attempt > Len(waits)
    /\ waits' = Append(waits, CalculateDelay(policy, attempt - 1))
    /\ UNCHANGED <<policy, idempotent, attempt, landed, returned>>

CancelCall ==
    /\ returned = "none"
    /\ returned' = "cancelled"
    /\ UNCHANGED <<policy, idempotent, attempt, waits, landed>>

RetriesNext == TryCall \/ Wait \/ CancelCall

RetriesSpec == RetriesInit /\ [][RetriesNext]_retryVars

(***************************************************************************)
(* A call that must not run twice lands at most once, however often it is  *)
(* retried, and one that returns nil landed; only an ambiguous error or a  *)
(* cancellation hides a landing, and for an idempotent call a later error  *)
(* too.                                                                    *)
(***************************************************************************)
LandsAsReported ==
    /\ ~idempotent => landed <= 1
    /\ returned = "nil" => landed >= 1
    /\ returned \in {"rolled", "transient", "permanent"} /\ ~idempotent => landed = 0

(* what the call has slept *)
Slept == MapThenSumSet(LAMBDA i : waits[i], DOMAIN waits)

(***************************************************************************)
(* A call sleeps no longer than the total its policy reports, and exactly  *)
(* that once every attempt failed: the closed form over the constant tail  *)
(* is the sum of the delays really slept, and a policy Validate admits     *)
(* never sleeps longer than a duration holds.                              *)
(***************************************************************************)
SleepsAsAdmitted ==
    /\ Slept <= CalculateTotalDelay(policy)
    /\ CalculateTotalDelay(policy) <= MaxDuration
    /\ attempt = policy.retries => Slept = CalculateTotalDelay(policy)

=============================================================================
