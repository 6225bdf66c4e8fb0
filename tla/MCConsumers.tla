---------------------------- MODULE MCConsumers -----------------------------
(***************************************************************************)
(* Small instances of what a consumer group is made of besides the cursor  *)
(* claim: the fan-out group, the exception window, the group's bindings, the *)
(* claim buffer, the group's config and retries.  They share no state here: *)
(* a behaviour is one component's, the one its first state picks.          *)
(***************************************************************************)
EXTENDS DeliveryGroup, GroupRegistry, ClaimBuffer, GroupConfig, Retries, TLC

CONSTANTS p1, p2, p3, r1, r2, i1, i2, s1, s2,
          RangeToken, ExceptionToken, NoToken,
          Parts   \* the components whose behaviours a run explores

(* The exception window of a cursor group: one range token, and of three    *)
(* ids one is of another payload version and one matches no binding.        *)
VARIABLES groupClaimed, committed, target, rangeLease, held, exc, work,
          settled, stalls

exceptionVars == <<groupClaimed, committed, target, rangeLease, held, exc,
                   work, settled, stalls>>

ASSUME ExceptionTokens == NoToken \notin ExceptionToken

MixedRows == <<"normal", "version", "unbound">>
Exceptions ==
    INSTANCE CursorGroup WITH
        MaxId <- 3, Row <- MixedRows, Limit <- 3, MaxRangeReclaims <- 2,
        MaxRetries <- 2, MaxDelays <- 1, MaxStalls <- 2,
        LeaseToken <- RangeToken, RunToken <- ExceptionToken,
        claimed <- groupClaimed, lease <- rangeLease

(* GroupRegistry: one process declares another binding set.                 *)
DeclaredSet == p1 :> s1 @@ p2 :> s2 @@ p3 :> s2

(* ClaimBuffer: the first range is fresh; the second comes back by reclaim,  *)
(* whatever the room, and holds two messages of one ordered key.            *)
RangeSize == r1 :> 2 @@ r2 :> 2
NextOfKey == r1 :> <<0, 0>> @@ r2 :> <<2, 0>>

(* GroupConfig: defaults; a longer timeout; a ceiling; a floor above the    *)
(* ceiling; and a config that does not validate.                            *)
Options(timeout) == [timeout |-> timeout, retries |-> 0]
Declared(own, lo, hi, backoff) ==
    [message |-> own, messageMin |-> lo, messageMax |-> hi, backoff |-> backoff]
DeclaredConfigs ==
    {Declared(NoOptions, NoOptions, NoOptions, 0),
     Declared(NoOptions, NoOptions, Options(2), 0),
     Declared(NoOptions, Options(3), Options(2), 2),
     Declared(NoOptions, NoOptions, NoOptions, -1)}
RequestedOptions == {Options(3)}

(* Retries: policies that fail validation, overflow and reach the cap too.  *)
Policies == [retries : 0..4, base : 1..3, max : 1..6, exponent : 0..3]


-----------------------------------------------------------------------------
VARIABLE part   \* the component this behaviour is one of

(* The state of the components that do not take part.                      *)
Apart == "apart"

DeliveryGroupApart ==
    /\ nextXid = Apart /\ txn = Apart /\ lastId = Apart /\ owner = Apart
    /\ mark = Apart /\ pendingHead = Apart /\ pendingXid = Apart
    /\ phase = Apart /\ pair = Apart /\ xmin = Apart /\ view = Apart
    /\ status = Apart /\ attempts = Apart

ExceptionsApart ==
    /\ groupClaimed = Apart /\ committed = Apart /\ target = Apart
    /\ rangeLease = Apart /\ held = Apart /\ exc = Apart /\ work = Apart
    /\ settled = Apart /\ stalls = Apart

GroupRegistryApart ==
    /\ group = Apart /\ groupIds = Apart /\ groupLock = Apart
    /\ ledger = Apart /\ declared = Apart /\ bound = Apart
    /\ session = Apart /\ resolved = Apart /\ judging = Apart
    /\ live = Apart /\ destroy = Apart

ClaimBufferApart ==
    /\ leaseOf = Apart /\ settledTo = Apart /\ recordedAs = Apart
    /\ tracked = Apart /\ results = Apart /\ resolvedCount = Apart
    /\ dispatchedCount = Apart /\ snapshotTaken = Apart
    /\ staleMark = Apart /\ buffer = Apart /\ prefetcher = Apart
    /\ dispatcher = Apart /\ handlers = Apart /\ runnerAt = Apart

GroupConfigApart ==
    /\ workerRow = Apart /\ declarations = Apart /\ listed = Apart
    /\ configState = Apart /\ parsed = Apart /\ operation = Apart

RetriesApart ==
    /\ policy = Apart /\ idempotent = Apart /\ attempt = Apart
    /\ waits = Apart /\ landed = Apart /\ returned = Apart

ConsumersInit ==
    /\ part \in Parts
    /\ IF part = "delivery" THEN Init ELSE DeliveryGroupApart
    /\ IF part = "exceptions" THEN Exceptions!Init ELSE ExceptionsApart
    /\ IF part = "groups" THEN GroupRegistryInit ELSE GroupRegistryApart
    /\ IF part = "buffer" THEN ClaimBufferInit ELSE ClaimBufferApart
    /\ IF part = "config" THEN GroupConfigInit ELSE GroupConfigApart
    /\ IF part = "retries" THEN RetriesInit ELSE RetriesApart

ConsumersNext ==
    /\ UNCHANGED part
    /\ IF part = "delivery" THEN Next ELSE UNCHANGED vars
    /\ IF part = "exceptions" THEN Exceptions!Next ELSE UNCHANGED exceptionVars
    /\ IF part = "groups" THEN GroupRegistryNext ELSE UNCHANGED groupRegistryVars
    /\ IF part = "buffer" THEN ClaimBufferNext ELSE UNCHANGED bufferVars
    /\ IF part = "config" THEN GroupConfigNext ELSE UNCHANGED configVars
    /\ IF part = "retries" THEN RetriesNext ELSE UNCHANGED retryVars

consumersVars == <<part, vars, exceptionVars, groupRegistryVars, bufferVars,
                   configVars, retryVars>>

ConsumersSpec == ConsumersInit /\ [][ConsumersNext]_consumersVars

-----------------------------------------------------------------------------
(* With overlapping producers, racing fan-outs and full batches the only    *)
(* message fanOut moves the group's mark past without a delivery row is an  *)
(* overtaken one: a higher id of a lower transaction id committed.  Those   *)
(* it does pass: NoMessagePassed is violated (deliveryconsumer fanout.go).  *)
DeliveriesSound == part = "delivery" => OnlyOvertakenPassed

(* A row of the exception window stays within its retry budget, and one     *)
(* that is not running has a run left, through late outcomes, expired       *)
(* leases, deferrals and delays (exceptionconsumer outcome.go, kill.go).    *)
ExceptionsSound == part = "exceptions" => Exceptions!AttemptsWithinBudget

(* No late or repeated outcome brings a resolved delivery or exception back *)
(* or moves a mark back (fanout.go, outcome.go, committed.go).              *)
OutcomesForward ==
    [][ /\ part = "delivery" => ForwardStep
        /\ part = "exceptions" => Exceptions!ForwardStep ]_consumersVars

(* Two processes that register one group at the same moment do not fail each *)
(* other, the set a claim reads is the one the ledger installed last, and a  *)
(* process that waits for the others' instances to stop is in the listing.   *)
(* That it runs under its own set only is more than the code gives           *)
(* (RunsItsOwnSet; consume/controller group, bindings and binding_log).      *)
GroupRegistrySound ==
    part = "groups" => NoRegistrationConflict /\ ClaimsReadTheLedger /\ WaiterIsListed

(* What a partial commit covers was resolved, one goroutine commits a       *)
(* range, a freshly claimed range fits the queue, a reclaimed one need not  *)
(* (claim_buffer.go, range_state.go), a queued message has its QueueMargin  *)
(* and an instance runs the document it read last (config_state.go).        *)
ClaimsSound ==
    /\ part = "buffer" => CoveredIsResolved /\ OneCommitterPerRange /\ AddedRangeFits
    /\ part = "config" => QueueMarginHolds /\ RunsWhatItRead

(* A retried statement lands no more often than the caller is told, and     *)
(* sleeps as long as the policy's total says (datastore retry wrappers,     *)
(* RetryPolicy).                                                            *)
RetriesSound == part = "retries" => LandsAsReported /\ SleepsAsAdmitted
=============================================================================
