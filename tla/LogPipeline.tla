----------------------------- MODULE LogPipeline -----------------------------
(***************************************************************************)
(* The record pipeline under the Logger seam.                              *)
(*                                                                         *)
(* A log call walks capture, enrich, suppress, drain and sink.  Goroutines *)
(* of one operation share its ring of held records, pipelines derived from *)
(* one another share the suppression windows; each has its own mutex, and  *)
(* between two stages the other callers run.                               *)
(***************************************************************************)
EXTENDS Integers, Sequences, FiniteSets, FiniteSetsExt

CONSTANTS
    LogCaller,            \* goroutines that log
    Operation,            \* contexts opened by WithLogBuffer
    OperationOf,          \* caller -> its operation
    LogBufferMaxRecords,
    SuppressionWindow,
    MaxPipelines,         \* bound: pipelines composed
    MaxLogCalls,          \* bound: log calls
    LastMoment            \* bound on the clock

ASSUME PipelineBoundsAreValid ==
    /\ LogBufferMaxRecords \in Nat \ {0}
    /\ SuppressionWindow \in Nat \ {0}
    /\ MaxPipelines \in Nat /\ IsFiniteSet(LogCaller)
    /\ \A c \in LogCaller : OperationOf[c] \in Operation

VARIABLES
    moment,      \* the clock
    pipelines,   \* the pipelines: [buffer, stage], stage 0 without suppression
    ring,        \* operation -> its ring of held records
    seen,        \* suppress stage, level -> its window
    logCall,     \* caller -> the record it walks down the chain
    calls,       \* log calls begun
    lines,       \* the lines the sink got: [level, stage, suppressed]
    suppressed,  \* ghost: suppress stage, level -> records dropped
    narrated     \* ghost: operation -> records captured since the last drain

pipelineVars == <<moment, pipelines, ring, seen, logCall, calls, lines, suppressed, narrated>>

Stage == 1..MaxPipelines
Level == {"info", "warn", "error"}
Empty == [records |-> <<>>, start |-> 0, dropped |-> 0]
Unseen == [start |-> -1, count |-> 0]
NoCall == [pc |-> "idle"]

Config == [buffer : BOOLEAN, suppress : BOOLEAN]

(* NewPipelineLogger: a stage an existing pipeline has is carried over,    *)
(* so that its window is shared; an option once on stays on.               *)
Merged(existing, cfg, fresh) ==
    [buffer |-> existing.buffer \/ cfg.buffer,
     stage |-> IF existing.stage # 0 THEN existing.stage ELSE IF cfg.suppress THEN fresh ELSE 0]

LogPipelineInit ==
    /\ moment = 0
    /\ pipelines = <<>>
    /\ ring = [o \in Operation |-> Empty]
    /\ seen = [s \in Stage |-> [l \in Level |-> Unseen]]
    /\ logCall = [c \in LogCaller |-> NoCall]
    /\ calls = 0
    /\ lines = <<>>
    /\ suppressed = [s \in Stage |-> [l \in Level |-> 0]]
    /\ narrated = [o \in Operation |-> <<>>]

Plain == [buffer |-> FALSE, stage |-> 0]

Compose ==
    /\ Len(pipelines) < MaxPipelines
    /\ \E cfg \in Config, existing \in {Plain} \union {pipelines[i] : i \in DOMAIN pipelines} :
          pipelines' = Append(pipelines, Merged(existing, cfg, Len(pipelines) + 1))
    /\ UNCHANGED <<moment, ring, seen, logCall, calls, lines, suppressed, narrated>>

PassMoment ==
    /\ moment < LastMoment
    /\ moment' = moment + 1
    /\ UNCHANGED <<pipelines, ring, seen, logCall, calls, lines, suppressed, narrated>>

AppendedAtFront(b, record) ==
    IF Len(b.records) < LogBufferMaxRecords
    THEN [b EXCEPT !.records = Append(@, record)]
    ELSE [b EXCEPT !.records[b.start + 1] = record, !.dropped = @ + 1]

(* the slice grows to its limit, then wraps over its oldest record *)
Appended(b, record) ==
    IF Len(b.records) < LogBufferMaxRecords
    THEN [b EXCEPT !.records = Append(@, record)]
    ELSE [b EXCEPT !.records[b.start + 1] = record,
                   !.start = (@ + 1) % LogBufferMaxRecords,
                   !.dropped = @ + 1]

(* what drain renders: the held records from the oldest on *)
Rendered(b) == [i \in DOMAIN b.records |-> b.records[((b.start + i - 1) % Len(b.records)) + 1]]

(* a log call, walked through capture and enrich *)
Log(c) ==
    /\ logCall[c] = NoCall
    /\ calls < MaxLogCalls
    /\ \E i \in DOMAIN pipelines, level \in Level :
          LET held == pipelines[i].buffer /\ level # "error"
              o == OperationOf[c]
          IN /\ logCall' = [logCall EXCEPT ![c] = [pc |-> "suppress", pipeline |-> pipelines[i], level |-> level, carried |-> 0]]
             /\ ring' = IF held THEN [ring EXCEPT ![o] = Appended(@, calls + 1)] ELSE ring
             /\ narrated' = IF held THEN [narrated EXCEPT ![o] = Append(@, calls + 1)] ELSE narrated
    /\ calls' = calls + 1
    /\ UNCHANGED <<moment, pipelines, seen, lines, suppressed>>

WindowOpen(state) == moment - state.start < SuppressionWindow

(* admit: emit clean, drop and count, or emit with the count of the window *)
Suppress(c) ==
    LET r == logCall[c]
        s == r.pipeline.stage
    IN /\ r.pc = "suppress"
       /\ IF s = 0 \/ r.level = "info"
          THEN logCall' = [logCall EXCEPT ![c].pc = "drain"] /\ UNCHANGED <<seen, suppressed>>
          ELSE IF seen[s][r.level] = Unseen
          THEN /\ seen' = [seen EXCEPT ![s][r.level] = [start |-> moment, count |-> 0]]
               /\ logCall' = [logCall EXCEPT ![c].pc = "drain"]
               /\ UNCHANGED suppressed
          ELSE IF WindowOpen(seen[s][r.level])
          THEN /\ seen' = [seen EXCEPT ![s][r.level].count = @ + 1]
               /\ suppressed' = [suppressed EXCEPT ![s][r.level] = @ + 1]
               /\ logCall' = [logCall EXCEPT ![c] = NoCall]
          ELSE /\ seen' = [seen EXCEPT ![s][r.level] = [start |-> moment, count |-> 0]]
               /\ logCall' = [logCall EXCEPT ![c].pc = "drain", ![c].carried = seen[s][r.level].count]
               /\ UNCHANGED suppressed
       /\ UNCHANGED <<moment, pipelines, ring, calls, lines, narrated>>

(* the operation's held records leave with its error *)
Drain(c) ==
    LET r == logCall[c] IN
    /\ r.pc = "drain"
    /\ IF r.pipeline.buffer /\ r.level = "error"
       THEN /\ ring' = [ring EXCEPT ![OperationOf[c]] = Empty]
            /\ narrated' = [narrated EXCEPT ![OperationOf[c]] = <<>>]
       ELSE UNCHANGED <<ring, narrated>>
    /\ logCall' = [logCall EXCEPT ![c].pc = "sink"]
    /\ UNCHANGED <<moment, pipelines, seen, calls, lines, suppressed>>

Sink(c) ==
    /\ logCall[c].pc = "sink"
    /\ lines' = Append(lines, [level |-> logCall[c].level, stage |-> logCall[c].pipeline.stage, suppressed |-> logCall[c].carried])
    /\ logCall' = [logCall EXCEPT ![c] = NoCall]
    /\ UNCHANGED <<moment, pipelines, ring, seen, calls, suppressed, narrated>>

LogPipelineNext ==
    \/ Compose \/ PassMoment
    \/ \E c \in LogCaller : Log(c) \/ Suppress(c) \/ Drain(c) \/ Sink(c)

LogPipelineSpec == LogPipelineInit /\ [][LogPipelineNext]_pipelineVars

Emitted(s, l) ==
    MapThenSumSet(LAMBDA i : lines[i].suppressed,
                  {i \in DOMAIN lines : lines[i].stage = s /\ lines[i].level = l})
Carried(s, l) ==
    MapThenSumSet(LAMBDA c : logCall[c].carried,
                  {c \in LogCaller : logCall[c] # NoCall /\ logCall[c].pipeline.stage = s /\ logCall[c].level = l})

Newest(said) ==
    LET from == IF Len(said) > LogBufferMaxRecords THEN Len(said) - LogBufferMaxRecords ELSE 0
    IN SubSeq(said, from + 1, Len(said))

(***************************************************************************)
(* Nothing said is lost without a trace: every dropped repeat is in the    *)
(* suppressed_count of exactly one line, of one on its way to the sink, or *)
(* in the open window, whichever pipeline and goroutine dropped it; and    *)
(* what an error's preceding attribute shows is the newest records of its  *)
(* operation since the error before, in order, with the number of those    *)
(* overwritten.                                                            *)
(***************************************************************************)
NothingLostUnsaid ==
    /\ \A s \in Stage, l \in Level :
          suppressed[s][l] = Emitted(s, l) + Carried(s, l) + seen[s][l].count
    /\ \A o \in Operation :
          /\ Rendered(ring[o]) = Newest(narrated[o])
          /\ ring[o].dropped = Len(narrated[o]) - Len(ring[o].records)

=============================================================================
