------------------------------ MODULE Telemetry ------------------------------
(* Telemetry from the SDK to the tables: the client's bounded buffer and its
   background thread, the ingestion jobs with their sampling, the quality
   signals of a trace and the retention sweep.

   An event is a trace event (item "trace") or a span of a trace. A user may run
   several scopes under one trace id, so an id can arrive in several batches. *)
EXTENDS Integers, Sequences, FiniteSets

CONSTANTS TraceIds, Spans, Stray, \* Stray: the random id of a span outside every trace
          Failing, Blocked,       \* traces with status ERROR; contents the policy blocks
          QueueMax, BatchMax,     \* 1000 and 100 in the client
          Ingesters, Writers, Signals,
          MaxScopes, MaxDeliveries, MaxSweeps

None == "none"   \* the current trace outside every scope

(* Item "trace" is no span, and trace ids are never Python's None. *)
ASSUME TelemetryAssumption ==
    /\ "trace" \notin Spans /\ None \notin TraceIds \union {Stray}
    /\ MaxDeliveries \in Nat

VARIABLES ctx, home, scopes, queue, batch, thread, dropped, lost, flush,
          jobs, ingest, traces, rows, shared,
          sweep, sweeps, swept, quality, rated, writer, recorded, raced

clientVars == <<ctx, home, scopes, queue, batch, thread, dropped, lost, flush>>
serverVars == <<ingest, traces, rows, shared, sweep, sweeps, swept, quality, rated, writer, recorded, raced>>
teleVars == <<clientVars, jobs, serverVars>>

Event(t, item) == [trace |-> t, item |-> item]
Events == [trace : TraceIds \union {Stray}, item : Spans \union {"trace"}]
NoIngest == [at |-> "idle", job |-> 0, new |-> {}, spans |-> {}, fresh |-> {}]
NoSweep == [at |-> "idle", old |-> {}, doomed |-> {}]
NoFlush == [idle |-> TRUE, left |-> {}]
NoWriter == [at |-> "idle", trace |-> None, signal |-> None, seen |-> {}]

ServerInit ==
    /\ ingest = [w \in Ingesters |-> NoIngest]
    /\ traces = {} /\ rows = [s \in Spans |-> 0] /\ shared = {}
    /\ sweep = NoSweep /\ sweeps = 0 /\ swept = {}
    /\ quality = [t \in TraceIds |-> {}] /\ rated = [t \in TraceIds |-> {}]
    /\ writer = [w \in Writers |-> NoWriter]
    /\ recorded = [t \in TraceIds |-> {}] /\ raced = {}

TelemetryInit ==
    /\ ctx = None /\ home = [s \in Spans |-> None] /\ scopes = 0
    /\ queue = <<>> /\ batch = <<>> /\ thread = "run"
    /\ dropped = {} /\ lost = {} /\ flush = NoFlush
    /\ jobs = <<>> /\ ServerInit

-----------------------------------------------------------------------------
(* The client *)

(* put_nowait on a bounded queue: a full queue drops the event and counts it. *)
Enqueue(e) ==
    IF Len(queue) < QueueMax
    THEN queue' = Append(queue, e) /\ UNCHANGED dropped
    ELSE dropped' = dropped \union {e} /\ UNCHANGED queue

EnterTrace(t) ==
    /\ ctx = None /\ scopes < MaxScopes
    /\ ctx' = t /\ scopes' = scopes + 1
    /\ UNCHANGED <<home, queue, batch, thread, dropped, lost, flush>>

(* A span takes the trace that is current when it ends. *)
EndSpan(s) ==
    /\ home[s] = None
    /\ LET t == IF ctx = None THEN Stray ELSE ctx
       IN home' = [home EXCEPT ![s] = t] /\ Enqueue(Event(t, s))
    /\ UNCHANGED <<ctx, scopes, batch, thread, lost, flush>>

(* The trace event is sent when the scope ends, after its spans. *)
ExitTrace ==
    /\ ctx # None
    /\ Enqueue(Event(ctx, "trace")) /\ ctx' = None
    /\ UNCHANGED <<home, scopes, batch, thread, lost, flush>>

(* The background thread empties the queue into a batch; an event that timed
   the read out ends the batch early. *)
Pull ==
    /\ thread # "end" /\ queue # <<>> /\ Len(batch) < BatchMax
    /\ batch' = Append(batch, Head(queue)) /\ queue' = Tail(queue)
    /\ UNCHANGED <<ctx, home, scopes, thread, dropped, lost, flush>>

InSeq(q) == {q[i] : i \in DOMAIN q}

(* One POST and no retry: an error of the transport or of the server loses the batch. *)
Post(accepted) ==
    /\ batch # <<>> /\ thread # "end"
    /\ accepted => thread # "closed"
    /\ batch' = <<>>
    /\ IF accepted
       THEN jobs' = Append(jobs, [events |-> InSeq(batch), left |-> MaxDeliveries])
            /\ UNCHANGED lost
       ELSE lost' = lost \union InSeq(batch) /\ UNCHANGED jobs
    /\ UNCHANGED <<ctx, home, scopes, queue, thread, dropped, flush>>

(* flush polls the queue until it sees it empty or its time is up, whatever the
   batch holds. *)
Flush ==
    /\ thread = "run"
    /\ flush' = [idle |-> queue = <<>>, left |-> InSeq(queue) \union InSeq(batch)]
    /\ UNCHANGED <<ctx, home, scopes, queue, batch, thread, dropped, lost>>

(* shutdown signals the thread, joins it for a second and closes the HTTP client;
   a thread that is late finds it closed. *)
Shutdown ==
    /\ thread = "run" /\ thread' = "stop"
    /\ UNCHANGED <<ctx, home, scopes, queue, batch, dropped, lost, flush>>

CloseClient ==
    /\ thread = "stop" /\ thread' = "closed"
    /\ UNCHANGED <<ctx, home, scopes, queue, batch, dropped, lost, flush>>

ThreadEndAtOnce ==
    /\ thread \in {"stop", "closed"} /\ thread' = "end"
    /\ UNCHANGED <<ctx, home, scopes, queue, batch, dropped, lost, flush>>

ThreadEnd ==
    /\ thread \in {"stop", "closed"} /\ batch = <<>> /\ thread' = "end"
    /\ UNCHANGED <<ctx, home, scopes, queue, batch, dropped, lost, flush>>

ClientNext ==
    /\ \/ \E t \in TraceIds : EnterTrace(t)
       \/ \E s \in Spans : EndSpan(s)
       \/ ExitTrace \/ Pull \/ Flush \/ Shutdown \/ CloseClient \/ ThreadEnd
    /\ UNCHANGED <<jobs, serverVars>>

-----------------------------------------------------------------------------
(* Ingestion *)

TracesOf(events) == {e.trace : e \in {x \in events : x.item = "trace"}}

(* A span is kept only if its trace is in the same batch and was sampled. *)
Kept(events, sampled) ==
    {e.item : e \in {x \in events : x.item # "trace" /\ x.trace \in sampled}} \ Blocked

TakeBatchOfKnown(w, j) ==
    /\ ingest[w].at = "idle" /\ jobs[j].left > 0
    /\ jobs' = [jobs EXCEPT ![j].left = @ - 1]
    /\ \E drawn \in SUBSET (TracesOf(jobs[j].events) \ Failing) :
         LET sampled == (drawn \union (TracesOf(jobs[j].events) \intersect Failing)) \ Blocked
         IN ingest' = [ingest EXCEPT ![w] = [at |-> "spans", job |-> j, new |-> sampled \ traces,
                                             spans |-> Kept(jobs[j].events, sampled \union traces), fresh |-> {}]]
    /\ UNCHANGED <<clientVars, traces, rows, shared, sweep, sweeps, swept, quality, rated, writer, recorded, raced>>

(* A delivery samples every trace anew; traces with errors bypass the sampling. *)
TakeBatch(w, j) ==
    /\ ingest[w].at = "idle" /\ jobs[j].left > 0
    /\ jobs' = [jobs EXCEPT ![j].left = @ - 1]
    /\ \E drawn \in SUBSET (TracesOf(jobs[j].events) \ Failing) :
         LET sampled == (drawn \union (TracesOf(jobs[j].events) \intersect Failing)) \ Blocked
         IN ingest' = [ingest EXCEPT ![w] = [at |-> "spans", job |-> j, new |-> sampled \ traces,
                                             spans |-> Kept(jobs[j].events, sampled), fresh |-> {}]]
    /\ UNCHANGED <<clientVars, traces, rows, shared, sweep, sweeps, swept, quality, rated, writer, recorded, raced>>

(* The read of the span keys; shared holds the spans two deliveries both found absent. *)
ReadSpans(w) ==
    /\ ingest[w].at = "spans"
    /\ LET fresh == {s \in ingest[w].spans : rows[s] = 0}
       IN /\ ingest' = [ingest EXCEPT ![w].at = "write", ![w].fresh = fresh]
          /\ shared' = shared \union (fresh \intersect UNION {ingest[v].fresh : v \in Ingesters \ {w}})
    /\ UNCHANGED <<clientVars, jobs, traces, rows, sweep, sweeps, swept, quality, rated, writer, recorded, raced>>

(* trace_id is unique: the second of two inserts fails and takes its spans with it. *)
CommitBatch(w) ==
    /\ ingest[w].at = "write"
    /\ ingest' = [ingest EXCEPT ![w] = NoIngest]
    /\ IF ingest[w].new \intersect traces = {}
       THEN /\ traces' = traces \union ingest[w].new
            /\ rows' = [s \in Spans |-> rows[s] + IF s \in ingest[w].fresh THEN 1 ELSE 0]
            /\ swept' = swept \union {s \in ingest[w].fresh : home[s] \in sweep.old}
       ELSE UNCHANGED <<traces, rows, swept>>
    /\ UNCHANGED <<clientVars, jobs, shared, sweep, sweeps, quality, rated, writer, recorded, raced>>

(* A worker that crashes or fails rolls back; the job may be delivered again. *)
CrashIngest(w) ==
    /\ ingest[w].at # "idle"
    /\ ingest' = [ingest EXCEPT ![w] = NoIngest]
    /\ UNCHANGED <<clientVars, jobs, traces, rows, shared, sweep, sweeps, swept, quality, rated, writer, recorded, raced>>

IngestNext == \E w \in Ingesters :
    \/ \E j \in DOMAIN jobs : TakeBatch(w, j)
    \/ ReadSpans(w) \/ CommitBatch(w) \/ CrashIngest(w)

-----------------------------------------------------------------------------
(* Retention and quality signals *)

(* The expired ids are read, then their spans and then their traces deleted. *)
SweepRead ==
    /\ sweep.at = "idle" /\ sweeps < MaxSweeps
    /\ \E old \in SUBSET traces \ {{}} :
         sweep' = [at |-> "delete", old |-> old, doomed |-> {s \in Spans : rows[s] > 0 /\ home[s] \in old}]
    /\ UNCHANGED <<clientVars, jobs, ingest, traces, rows, shared, sweeps, swept, quality, rated, writer, recorded, raced>>

InFlight == UNION {ingest[w].spans : w \in Ingesters}

SweepCommit ==
    /\ sweep.at = "delete" /\ sweep' = NoSweep /\ sweeps' = sweeps + 1
    /\ traces' = traces \ sweep.old
    /\ rows' = [s \in Spans |-> IF s \in sweep.doomed THEN 0 ELSE rows[s]]
    /\ swept' = swept \union {s \in InFlight : home[s] \in sweep.old}
    /\ quality' = [t \in TraceIds |-> IF t \in sweep.old THEN {} ELSE quality[t]]
    /\ rated' = [t \in TraceIds |-> IF t \in sweep.old THEN {} ELSE rated[t]]
    /\ recorded' = [t \in TraceIds |-> IF t \in sweep.old THEN {} ELSE recorded[t]]
    /\ writer' = [w \in Writers |-> IF writer[w].trace \in sweep.old THEN NoWriter ELSE writer[w]]
    /\ UNCHANGED <<clientVars, jobs, ingest, shared, raced>>

(* record_quality_signals reads the metadata and the signals in it. *)
ReadQuality(w, t, g) ==
    /\ writer[w].at = "idle" /\ t \in traces
    /\ writer' = [writer EXCEPT ![w] = [at |-> "write", trace |-> t, signal |-> g, seen |-> quality[t]]]
    /\ raced' = raced \union {x \in {t} : \E v \in Writers \ {w} : writer[v].trace = t}
    /\ UNCHANGED <<clientVars, jobs, ingest, traces, rows, shared, sweep, sweeps, swept, quality, rated, recorded>>

(* The copy it changes is shallow: signals it read change in place, the column
   compares equal to what was loaded, and its UPDATE is omitted.  The score is of all
   the signals (rated holds them); an average equal to the loaded one is omitted as well. *)
WriteQuality(w) ==
    /\ writer[w].at = "write"
    /\ LET t == writer[w].trace  g == writer[w].signal  seen == writer[w].seen
       IN /\ quality' = IF seen = {} THEN [quality EXCEPT ![t] = {g}] ELSE quality
          /\ \/ rated' = [rated EXCEPT ![t] = seen \union {g}]
             \/ seen # {} /\ UNCHANGED rated
          /\ recorded' = [recorded EXCEPT ![t] = @ \union {g}]
    /\ writer' = [writer EXCEPT ![w] = NoWriter]
    /\ UNCHANGED <<clientVars, jobs, ingest, traces, rows, shared, sweep, sweeps, swept, raced>>

SweepNext == SweepRead \/ SweepCommit

QualityNext ==
    \E w \in Writers : WriteQuality(w) \/ \E t \in TraceIds, g \in Signals : ReadQuality(w, t, g)

Posts == \E accepted \in BOOLEAN : Post(accepted) /\ UNCHANGED serverVars

TelemetryNext ==
    \/ ClientNext \/ Posts
    \/ IngestNext \/ SweepNext \/ QualityNext

TelemetrySpec == TelemetryInit /\ [][TelemetryNext]_teleVars
-----------------------------------------------------------------------------
TelemetryTypeOK ==
    /\ ctx \in TraceIds \union {None}
    /\ home \in [Spans -> TraceIds \union {Stray, None}] /\ scopes \in 0..MaxScopes
    /\ InSeq(queue) \union InSeq(batch) \union dropped \union lost \subseteq Events
    /\ Len(queue) <= QueueMax /\ Len(batch) <= BatchMax
    /\ thread \in {"run", "stop", "closed", "end"}
    /\ traces \subseteq TraceIds /\ rows \in [Spans -> Nat]

(* Where an event of the client may be. *)
Posted == UNION {jobs[j].events : j \in DOMAIN jobs}
Ended == {Event(home[s], s) : s \in {x \in Spans : home[x] # None}}

(* An event the client took is buffered, in the batch of the thread, posted,
   dropped at a full queue or lost with its request. What was left when flush
   returned is posted or lost once it is no longer buffered, and at most in the batch
   where flush saw an empty queue; after shutdown nothing is posted any more. Client
   of packages/airex-python, enqueue_event to shutdown. *)
ClientAccounts ==
    /\ Ended \subseteq InSeq(queue) \union InSeq(batch) \union Posted \union dropped \union lost
    /\ flush.left \subseteq InSeq(queue) \union InSeq(batch) \union Posted \union lost
    /\ flush.idle => flush.left \subseteq InSeq(batch) \union Posted \union lost
    /\ thread = "end" => batch = <<>>

(* A stored span came in one batch with its trace event, has one row unless two
   deliveries read it absent at once, and has its trace unless a retention sweep
   ran while it was ingested. ingest_batch against the worker's redelivery and
   clean_observability_retention_for_session. *)
SpansFollowTheirTrace ==
    \A s \in Spans : rows[s] > 0 =>
        /\ \E j \in DOMAIN jobs : {Event(home[s], s), Event(home[s], "trace")} \subseteq jobs[j].events
        /\ rows[s] > 1 => s \in shared
        /\ home[s] \notin traces => s \in swept

(* "store quality signals in metadata" (services/observability.py:506): what was
   acknowledged is there.  The code violates it with the second signal. *)
SignalsKept == \A t \in TraceIds : recorded[t] \subseteq quality[t]

(* Signals and score hold what was acknowledged and no more, and signals are never
   lost altogether; unless two signals for the trace overlapped, the score is of the
   stored signals and at most one later.  record_quality_signals. *)
ScoresFollowSignals ==
    \A t \in TraceIds :
        /\ quality[t] \union rated[t] \subseteq recorded[t]
        /\ quality[t] = {} => recorded[t] = {}
        /\ t \notin raced => quality[t] \subseteq rated[t] /\ \A g, h \in rated[t] \ quality[t] : g = h

(* What the server stores is what was posted: spans with their traces, signals with
   their score, under redelivery, overlap and sweeps
   (services/observability.py:44-160, 505-554). *)
StoredAsPosted == SpansFollowTheirTrace /\ ScoresFollowSignals
=============================================================================
