---------------------------- MODULE GroupConfig ----------------------------
(* The config of a consumer group while its instances run.  A declaration   *)
(* resolves its unset fields to the library defaults and is stored on the   *)
(* group's worker row.  An instance resolves the row it was provisioned     *)
(* from again, and then re-reads the row on a ticker, swapping the resolved copy        *)
(* (configState) under a lock.  A claim takes one copy and sizes its lease  *)
(* from it; the messages it claimed resolve their requested options against *)
(* a copy too, and wait in the queue until a worker starts them.  The       *)
(* concurrency policy, resolved beside timeout and retries, is left out.    *)
EXTENDS Integers

CONSTANTS
    Declaration,      \* the sparse configs processes declare the group with
    NoDocument, NoOptions,
    Requested,        \* the options producers put on messages
    GroupInstance,
    RunsExceptions,   \* the instances of the exception consumer's row
    DefaultTimeout, DefaultRetries,
    TimeoutGrace, QueueMargin, RecordMargin,
    MaxDeclared       \* bound: declarations written

\* Message options, and the documents processes declare.
MessageOptions == [timeout : Int, retries : Int]
Option == MessageOptions \cup {NoOptions}
Document == [message : Option, messageMin : Option, messageMax : Option, backoff : Int]

ASSUME GroupConfigBounds ==
    /\ Declaration \subseteq Document /\ Requested \subseteq Option
    /\ NoOptions \notin MessageOptions
    /\ NoDocument \notin Document
    /\ NoDocument \notin [cfg : Document, declared : Document, read : Document]
    /\ DefaultTimeout \in Nat \ {0} /\ DefaultRetries \in Nat
    /\ TimeoutGrace \in Nat /\ QueueMargin \in Nat /\ RecordMargin \in Nat

VARIABLES
    workerRow,     \* the document on the worker row, its metadata
    declarations,  \* number of declarations so far
    listed,        \* per instance, the row its provisioning works from
    configState,   \* per instance, [cfg, declared], NoDocument before it runs;
                   \* read is a ghost, the last valid document it read
    parsed,        \* per instance, the document its refresh has read
    operation      \* per instance, its claim in hand

configVars == <<workerRow, declarations, listed, configState, parsed, operation>>

Idling == [stage |-> "idle", cfg |-> NoDocument, lease |-> 0, waited |-> 0, options |-> NoOptions]

---------------------------------------------------------------------------
(* Message options: nil or a record whose zero fields are unset.            *)

Field(o, f) == IF o = NoOptions THEN 0 ELSE o[f]

(* Fill: unset fields come from the defaults.                               *)
FillField(o, defaults, f) == IF Field(o, f) = 0 THEN Field(defaults, f) ELSE Field(o, f)

Fill(o, defaults) ==
    IF o = NoOptions /\ defaults = NoOptions THEN NoOptions
    ELSE [timeout |-> FillField(o, defaults, "timeout"), retries |-> FillField(o, defaults, "retries")]

(* clampDuration, clampInt: the minimum first and then the maximum, each    *)
(* only when it is set.                                                     *)
ClampField(value, minimum, maximum) ==
    LET raised == IF minimum > 0 /\ value < minimum THEN minimum ELSE value
    IN  IF maximum > 0 /\ raised > maximum THEN maximum ELSE raised

Clamp(o, minimum, maximum) ==
    IF o = NoOptions THEN NoOptions
    ELSE [f \in {"timeout", "retries"} |-> ClampField(o[f], Field(minimum, f), Field(maximum, f))]

(* MessageOptions.WithDefaults.                                             *)
Defaulted(o) == Fill(o, [timeout |-> DefaultTimeout, retries |-> DefaultRetries])

(* Validate: zero means unset.                                              *)
ValidOptions(o) == o # NoOptions => o.timeout >= 0 /\ o.retries >= 0

ValidDocument(d) ==
    /\ ValidOptions(d.message)
    /\ ValidOptions(d.messageMin)
    /\ ValidOptions(d.messageMax)
    /\ d.backoff >= 0

\* A field of the document forgotten.
EqualButCeiling(d, e) ==
    /\ d.message = e.message
    /\ d.messageMin = e.messageMin
    /\ d.backoff = e.backoff

(* Equal compares every stored field.                                       *)
Equal(d, e) ==
    /\ d.message = e.message
    /\ d.messageMin = e.messageMin
    /\ d.messageMax = e.messageMax
    /\ d.backoff = e.backoff

(* WithDefaults, withMetadata: unset fields take the defaults, and a ceiling always       *)
(* exists, the group's own defaults where none was declared.  A declaration *)
(* is stored in this form as well (cfg.WithDefaults, then toMetadata).      *)
withMetadata(d) ==
    [message    |-> Defaulted(d.message),
     messageMin |-> d.messageMin,
     messageMax |-> Fill(d.messageMax, Defaulted(d.message)),
     backoff    |-> IF d.backoff = 0 THEN 1 ELSE d.backoff]

(* WithDefaults writes through the message pointer it is given, so the      *)
(* document the state keeps beside the config is the defaulted one.         *)
KeptDocument(d) ==
    IF d.message = NoOptions THEN d ELSE [d EXCEPT !.message = Defaulted(d.message)]

resolveMessageOptions(cfg, requested) ==
    Clamp(Fill(requested, cfg.message), cfg.messageMin, cfg.messageMax)

(* What a lease must still hold when a run starts.                          *)
RunNeeds(options) == options.timeout + TimeoutGrace + RecordMargin

LeaseDuration(cfg) == cfg.messageMax.timeout + TimeoutGrace + QueueMargin + RecordMargin

---------------------------------------------------------------------------
GroupConfigInit ==
    /\ workerRow \in {withMetadata(d) : d \in {c \in Declaration : ValidDocument(c)}}
    /\ declarations = 1
    /\ listed = [i \in GroupInstance |-> NoDocument]
    /\ configState = [i \in GroupInstance |-> NoDocument]
    /\ parsed = [i \in GroupInstance |-> NoDocument]
    /\ operation = [i \in GroupInstance |-> Idling]

current(i) == configState[i].cfg

Runs(i) == configState[i] # NoDocument

(* The newest declaration wins, whichever process wrote it; a config that   *)
(* does not validate never gets a provisioner.                              *)
Declare(d) ==
    /\ declarations < MaxDeclared
    /\ ValidDocument(d)
    /\ workerRow' = withMetadata(d)
    /\ declarations' = declarations + 1
    /\ UNCHANGED <<listed, configState, parsed, operation>>

(* The manager lists the rows, and provisions from what it listed: a        *)
(* document that does not validate is an error and nothing starts.          *)
ListWorker(i) ==
    /\ ~Runs(i)
    /\ listed' = [listed EXCEPT ![i] = workerRow]
    /\ UNCHANGED <<workerRow, declarations, configState, parsed, operation>>

Provision(i) ==
    /\ ~Runs(i)
    /\ listed[i] # NoDocument
    /\ ValidDocument(listed[i])
    /\ configState' = [configState EXCEPT ![i] =
                        [cfg |-> withMetadata(listed[i]), declared |-> KeptDocument(listed[i]),
                         read |-> listed[i]]]
    /\ UNCHANGED <<workerRow, declarations, listed, parsed, operation>>

(* The instance ends, with whatever it holds; a manager provisions another. *)
EndInstance(i) ==
    /\ Runs(i)
    /\ configState' = [configState EXCEPT ![i] = NoDocument]
    /\ listed' = [listed EXCEPT ![i] = NoDocument]
    /\ parsed' = [parsed EXCEPT ![i] = NoDocument]
    /\ operation' = [operation EXCEPT ![i] = Idling]
    /\ UNCHANGED <<workerRow, declarations>>

(* refreshConfig reads the row; a failed read leaves the old config.        *)
ReadWorker(i) ==
    /\ Runs(i)
    /\ parsed[i] = NoDocument
    /\ parsed' = [parsed EXCEPT ![i] = workerRow]
    /\ UNCHANGED <<workerRow, declarations, listed, configState, operation>>

(* ... and replaces the copy unless the document is the one it runs on;     *)
(* one that does not validate is logged and left.                           *)
Swaps(i) == ValidDocument(parsed[i]) /\ ~Equal(parsed[i], configState[i].declared)

replace(i) ==
    /\ parsed[i] # NoDocument
    /\ parsed' = [parsed EXCEPT ![i] = NoDocument]
    /\ configState' = [configState EXCEPT ![i] =
         [cfg      |-> IF Swaps(i) THEN withMetadata(parsed[i]) ELSE @.cfg,
          declared |-> IF Swaps(i) THEN KeptDocument(parsed[i]) ELSE @.declared,
          read     |-> IF ValidDocument(parsed[i]) THEN parsed[i] ELSE @.read]]
    /\ UNCHANGED <<workerRow, declarations, listed, operation>>

---------------------------------------------------------------------------
(* prefetch: one copy per claim, which sizes the lease; exceptionClaim the  *)
(* same, one copy per tick.                                                 *)
ClaimWith(i) ==
    /\ Runs(i)
    /\ operation[i].stage = "idle"
    /\ operation' = [operation EXCEPT ![i] =
                      [Idling EXCEPT !.stage = "claimed", !.cfg = current(i),
                                     !.lease = LeaseDuration(current(i))]]
    /\ UNCHANGED <<workerRow, declarations, listed, configState, parsed>>

\* The config of the moment instead of the claim's copy.
ItemConfigNow(i) == current(i)

ItemConfig(i) == operation[i].cfg

(* buffer.add: the claimed messages resolve their options against the copy  *)
(* the claim was made with.                                                 *)
Queue(i, requested) ==
    /\ operation[i].stage = "claimed"
    /\ operation' = [operation EXCEPT ![i].stage = "queued",
                                      ![i].options = resolveMessageOptions(ItemConfig(i), requested)]
    /\ UNCHANGED <<workerRow, declarations, listed, configState, parsed>>

(* Time passes for a claim that waits for a worker.                         *)
Elapse(i) ==
    /\ operation[i].stage = "queued"
    /\ operation[i].lease > 0
    /\ operation' = [operation EXCEPT ![i].lease = @ - 1, ![i].waited = @ + 1]
    /\ UNCHANGED <<workerRow, declarations, listed, configState, parsed>>

(* processClaim leaves a message its lease no longer covers to the range's  *)
(* next claim; processException renews the row's lease instead, unless      *)
(* another worker took the row.                                             *)
StartRun(i) ==
    /\ operation[i].stage \in {"queued", "renewed"}
    /\ operation[i].lease >= RunNeeds(operation[i].options)
    /\ operation' = [operation EXCEPT ![i].stage = "running"]
    /\ UNCHANGED <<workerRow, declarations, listed, configState, parsed>>

MarkStale(i) ==
    /\ i \notin RunsExceptions
    /\ operation[i].stage = "queued"
    /\ operation[i].lease < RunNeeds(operation[i].options)
    /\ operation' = [operation EXCEPT ![i].stage = "stale"]
    /\ UNCHANGED <<workerRow, declarations, listed, configState, parsed>>

RenewLease(i) ==
    /\ i \in RunsExceptions
    /\ operation[i].stage = "queued"
    /\ operation[i].lease < RunNeeds(operation[i].options)
    /\ operation' = [operation EXCEPT ![i].stage = "renewed",
                                      ![i].lease = RunNeeds(operation[i].options)]
    /\ UNCHANGED <<workerRow, declarations, listed, configState, parsed>>

(* The outcome is recorded, the stale range rides out its lease, or the     *)
(* renewal found the row taken: the next claim.                             *)
EndOperation(i) ==
    /\ operation[i].stage \in {"running", "stale", "queued"}
    /\ operation[i].stage = "queued" => i \in RunsExceptions /\ operation[i].lease = 0
    /\ operation' = [operation EXCEPT ![i] = Idling]
    /\ UNCHANGED <<workerRow, declarations, listed, configState, parsed>>

GroupConfigNext ==
    \/ \E d \in Declaration : Declare(d)
    \/ \E i \in GroupInstance :
        \/ ListWorker(i)
        \/ Provision(i)
        \/ EndInstance(i)
        \/ ReadWorker(i)
        \/ replace(i)
        \/ ClaimWith(i)
        \/ \E r \in Requested : Queue(i, r)
        \/ Elapse(i)
        \/ StartRun(i)
        \/ MarkStale(i)
        \/ RenewLease(i)
        \/ EndOperation(i)

GroupConfigSpec == GroupConfigInit /\ [][GroupConfigNext]_configVars

---------------------------------------------------------------------------
(* A claimed message has the whole QueueMargin to wait in: whatever options *)
(* its producer asked for and whatever is redeclared or refreshed between   *)
(* the claim and its messages being queued, no range goes stale and no      *)
(* exception's lease needs renewing before the margin is used up (otherwise *)
(* a group could claim, strand and reclaim a range until it is quarantined  *)
(* without ever running it).  consumer_runner.go prefetch, processClaim and *)
(* MessageOptions.Clamp.                                                    *)
QueueMarginHolds ==
    \A i \in GroupInstance :
        operation[i].stage \in {"stale", "renewed"} => operation[i].waited > QueueMargin

(* An instance runs what the last document it read resolves to, be it the   *)
(* one it was provisioned from or one its refresh found: a redeclared field *)
(* never keeps its old value on a running instance, the hazard metadata.go  *)
(* names at Equal.  And a refresh that finds the document it read before    *)
(* swaps nothing (config_state.go replace).                                 *)
RunsWhatItRead ==
    \A i \in GroupInstance : Runs(i) =>
        /\ current(i) = withMetadata(configState[i].read)
        /\ parsed[i] # NoDocument /\ parsed[i] = configState[i].read => ~Swaps(i)
=============================================================================
