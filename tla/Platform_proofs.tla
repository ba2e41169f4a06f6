---------------------------- MODULE Platform_proofs ----------------------------
(***************************************************************************)
(* Proofs about the rest of the platform, for any number of rows, calls and *)
(* processes: telemetry from the client to the tables, the versions of      *)
(* rubrics, judged cases, recorded calls, releases with the evidence they   *)
(* are decided on and what is reported of them, agents, comparisons,        *)
(* grading, loops in trajectories, and the figures of the dashboards.       *)
(***************************************************************************)
EXTENDS Telemetry, TraceStatistics, DecisionReports, Rubrics, ModelCalls, Judging, AgentRun, Comparison, Grading, FiniteSetTheorems,
        NaturalsInduction, TLAPS

-----------------------------------------------------------------------------
(* Telemetry: sequences as buffers. *)
LEMMA Appended ==
    ASSUME NEW q \in Seq(Events), NEW e \in Events
    PROVE  Append(q, e) \in Seq(Events) /\ InSeq(Append(q, e)) = InSeq(q) \cup {e}
<1>1. /\ Append(q, e) \in Seq(Events) /\ Len(Append(q, e)) = Len(q) + 1 /\ Len(q) \in Nat
      /\ \A i \in 1 .. Len(q) : Append(q, e)[i] = q[i]
      /\ Append(q, e)[Len(q) + 1] = e /\ DOMAIN q = 1 .. Len(q)
      /\ DOMAIN Append(q, e) = 1 .. Len(q) + 1
    OBVIOUS
<1>2. \A i \in DOMAIN q : i \in DOMAIN Append(q, e) /\ Append(q, e)[i] = q[i]
    BY <1>1
<1>3. \A i \in DOMAIN Append(q, e) : i \in DOMAIN q \/ i = Len(q) + 1
    BY <1>1
<1>4. Len(q) + 1 \in DOMAIN Append(q, e)
    BY <1>1
<1> DEFINE r == Append(q, e)
<1> HIDE DEF r
<1>5. InSeq(r) = InSeq(q) \cup {e}
    BY <1>1, <1>2, <1>3, <1>4 DEF InSeq, r
<1> QED
    BY <1>1, <1>5 DEF r

LEMMA Pulled ==
    ASSUME NEW q \in Seq(Events), q # <<>>
    PROVE  /\ Head(q) \in Events /\ Tail(q) \in Seq(Events)
           /\ InSeq(q) = InSeq(Tail(q)) \cup {Head(q)}
<1>1. /\ Head(q) \in Events /\ Tail(q) \in Seq(Events) /\ Head(q) = q[1] /\ Len(q) \in Nat \ {0}
      /\ Len(Tail(q)) = Len(q) - 1 /\ \A i \in 1 .. Len(q) - 1 : Tail(q)[i] = q[i + 1]
      /\ DOMAIN q = 1 .. Len(q) /\ DOMAIN Tail(q) = 1 .. Len(q) - 1
    OBVIOUS
<1> DEFINE r == Tail(q)
<1> HIDE DEF r
<1>2. \A i \in DOMAIN r : i + 1 \in DOMAIN q /\ r[i] = q[i + 1]
    BY <1>1 DEF r
<1>3. \A i \in DOMAIN q : i = 1 \/ (i - 1 \in DOMAIN r /\ r[i - 1] = q[i])
    BY <1>1 DEF r
<1>4. 1 \in DOMAIN q
    BY <1>1
<1>5. InSeq(q) = InSeq(r) \cup {q[1]}
    BY <1>2, <1>3, <1>4 DEF InSeq
<1> QED
    BY <1>1, <1>5 DEF r

LEMMA NoneBuffered == InSeq(<<>>) = {}
BY DEF InSeq

(* The client and what it posted.  Spans name the trace they ended in. *)
JobRow == [events : SUBSET Events, left : Nat]
Homed(e) == e.item # "trace" => e.item \in Spans /\ home[e.item] = e.trace

Buffers ==
    /\ ctx \in TraceIds \cup {None} /\ home \in [Spans -> TraceIds \cup {Stray, None}]
    /\ queue \in Seq(Events) /\ batch \in Seq(Events) /\ jobs \in Seq(JobRow)
    /\ \A e \in InSeq(queue) \cup InSeq(batch) \cup Posted : Homed(e)

AccountsInv == Buffers /\ ClientAccounts

(* Jobs keep their events, and spans their trace. *)
PostsStand ==
    /\ \A j \in DOMAIN jobs : j \in DOMAIN jobs' /\ jobs'[j].events = jobs[j].events
    /\ \A s \in Spans : home[s] # None => home'[s] = home[s]

LEMMA JobPosted ==
    ASSUME jobs \in Seq(JobRow), NEW row \in JobRow, jobs' = Append(jobs, row)
    PROVE  /\ jobs' \in Seq(JobRow) /\ Posted' = Posted \cup row.events
           /\ \A j \in DOMAIN jobs : j \in DOMAIN jobs' /\ jobs'[j].events = jobs[j].events
<1>1. /\ jobs' \in Seq(JobRow) /\ DOMAIN jobs' = 1 .. Len(jobs) + 1 /\ DOMAIN jobs = 1 .. Len(jobs) /\ Len(jobs) \in Nat
      /\ jobs'[Len(jobs) + 1] = row /\ \A j \in 1 .. Len(jobs) : jobs'[j] = jobs[j]
    OBVIOUS
<1>2. \A j \in DOMAIN jobs : j \in DOMAIN jobs' /\ jobs'[j] = jobs[j]
    BY <1>1
<1>3. (Len(jobs) + 1) \in DOMAIN jobs' /\ \A j \in DOMAIN jobs' : j \in DOMAIN jobs \/ j = Len(jobs) + 1
    BY <1>1
<1>4. Posted' = UNION {jobs'[j].events : j \in DOMAIN jobs'}
    BY DEF Posted
<1>5. \A e : e \in Posted' <=> e \in Posted \/ e \in row.events
    BY <1>1, <1>2, <1>3, <1>4 DEF Posted
<1> QED
    BY <1>1, <1>2, <1>5

LEMMA EventsBuffered == \A q \in Seq(Events) : InSeq(q) \subseteq Events
BY DEF InSeq

LEMMA EventsPosted == jobs \in Seq(JobRow) => Posted \subseteq Events
<1>1. ASSUME jobs \in Seq(JobRow), NEW j \in DOMAIN jobs
      PROVE  jobs[j].events \subseteq Events
    <2>1. jobs[j] \in JobRow
        BY <1>1
    <2> QED
        BY <2>1 DEF JobRow
<1> QED
    BY <1>1 DEF Posted

LEMMA JobTaken ==
    ASSUME jobs \in Seq(JobRow), NEW j \in DOMAIN jobs, jobs[j].left > 0, jobs' = [jobs EXCEPT ![j].left = @ - 1]
    PROVE  /\ jobs' \in Seq(JobRow) /\ Posted' = Posted /\ DOMAIN jobs' = DOMAIN jobs
           /\ \A i \in DOMAIN jobs : jobs'[i].events = jobs[i].events
<1>1. ASSUME NEW old \in JobRow, NEW n \in Nat
      PROVE  LET new == [old EXCEPT !.left = n] IN new \in JobRow /\ new.events = old.events
    BY DEF JobRow
<1> DEFINE left == jobs[j].left - 1
           row == [jobs[j] EXCEPT !.left = left]
<1>2. jobs[j] \in JobRow /\ jobs' = [jobs EXCEPT ![j] = row]
    OBVIOUS
<1>8. left \in Nat
    <2>1. jobs[j].left \in Nat /\ jobs[j].left > 0
        BY <1>2 DEF JobRow
    <2> QED
        BY <2>1
<1> HIDE DEF left
<1>3. row \in JobRow /\ row.events = jobs[j].events
    BY <1>1, <1>2, <1>8, Zenon
<1> HIDE DEF row
<1>4. jobs' \in Seq(JobRow) /\ DOMAIN jobs' = DOMAIN jobs /\ jobs'[j] = row
      /\ \A i \in DOMAIN jobs \ {j} : jobs'[i] = jobs[i]
    BY <1>2, <1>3
<1>5. \A i \in DOMAIN jobs : jobs'[i].events = jobs[i].events
    BY <1>3, <1>4
<1>6. Posted' = UNION {jobs'[i].events : i \in DOMAIN jobs'}
    BY DEF Posted
<1>7. \A e : e \in Posted' <=> e \in Posted
    BY <1>4, <1>5, <1>6 DEF Posted
<1> QED
    BY <1>4, <1>5, <1>7

(* What the last flush left behind is still accounted for. *)
FlushTold ==
    /\ flush.left \subseteq InSeq(queue) \cup InSeq(batch) \cup Posted \cup lost
    /\ flush.idle => flush.left \subseteq InSeq(batch) \cup Posted \cup lost

(* No span ends: events move on, and trace events come. *)
LEMMA EventsMove ==
    ASSUME AccountsInv, ctx' \in TraceIds \cup {None}, home' = home,
           queue' \in Seq(Events), batch' \in Seq(Events), jobs' \in Seq(JobRow),
           \A e \in (InSeq(queue) \cup InSeq(batch) \cup Posted)' :
               e \in InSeq(queue) \cup InSeq(batch) \cup Posted \/ e.item = "trace",
           InSeq(queue) \cup InSeq(batch) \cup Posted \cup dropped \cup lost
               \subseteq (InSeq(queue) \cup InSeq(batch) \cup Posted \cup dropped \cup lost)',
           FlushTold', (thread = "end" => batch = <<>>)'
    PROVE  AccountsInv'
<1>1. Buffers'
    <2>1. \A e \in (InSeq(queue) \cup InSeq(batch) \cup Posted)' : Homed(e)'
        BY DEF AccountsInv, Buffers, Homed
    <2> QED
        BY <2>1 DEF AccountsInv, Buffers
<1>2. Ended' = Ended
    BY DEF Ended
<1>3. Ended' \subseteq (InSeq(queue) \cup InSeq(batch) \cup Posted \cup dropped \cup lost)'
    BY <1>2 DEF AccountsInv, ClientAccounts
<1> QED
    BY <1>1, <1>3 DEF AccountsInv, ClientAccounts, FlushTold

(* Enqueuing keeps the event in the queue or among the dropped. *)
LEMMA Enqueued ==
    ASSUME queue \in Seq(Events), NEW e \in Events, Enqueue(e)
    PROVE  /\ queue' \in Seq(Events)
           /\ InSeq(queue)' \subseteq InSeq(queue) \cup {e} /\ InSeq(queue) \subseteq InSeq(queue)'
           /\ dropped \subseteq dropped' /\ e \in InSeq(queue)' \cup dropped'
<1>1. CASE Len(queue) < QueueMax
    <2>1. queue' = Append(queue, e) /\ dropped' = dropped
        BY <1>1 DEF Enqueue
    <2>2. InSeq(queue)' = InSeq(queue) \cup {e} /\ queue' \in Seq(Events)
        BY <2>1, Appended DEF InSeq
    <2> QED
        BY <2>1, <2>2
<1>2. CASE ~(Len(queue) < QueueMax)
    <2>1. dropped' = dropped \cup {e} /\ queue' = queue
        BY <1>2 DEF Enqueue
    <2> QED
        BY <2>1 DEF InSeq
<1> QED
    BY <1>1, <1>2

LEMMA ClientPreserves ==
    ASSUME AccountsInv, ClientNext \/ Posts
    PROVE  AccountsInv' /\ PostsStand
<1>1. /\ ctx \in TraceIds \cup {None} /\ home \in [Spans -> TraceIds \cup {Stray, None}]
      /\ queue \in Seq(Events) /\ batch \in Seq(Events) /\ jobs \in Seq(JobRow)
      /\ \A e \in InSeq(queue) \cup InSeq(batch) \cup Posted : Homed(e)
      /\ Ended \subseteq InSeq(queue) \cup InSeq(batch) \cup Posted \cup dropped \cup lost
      /\ FlushTold /\ (thread = "end" => batch = <<>>)
    BY DEF AccountsInv, Buffers, ClientAccounts, FlushTold
<1>2. jobs' = jobs => Posted' = Posted
    BY DEF Posted
<1>3. UNCHANGED queue => InSeq(queue)' = InSeq(queue)
    BY DEF InSeq
<1>4. UNCHANGED batch => InSeq(batch)' = InSeq(batch)
    BY DEF InSeq
<1>5. CASE \E t \in TraceIds : EnterTrace(t) /\ UNCHANGED jobs
    BY <1>1, <1>2, <1>3, <1>4, <1>5, EventsMove DEF EnterTrace, PostsStand, FlushTold
<1>6. ASSUME NEW s \in Spans, EndSpan(s), UNCHANGED jobs
      PROVE  AccountsInv' /\ PostsStand
    <2> DEFINE t == IF ctx = None THEN Stray ELSE ctx
               e == Event(t, s)
    <2>1. /\ home[s] = None /\ home' = [home EXCEPT ![s] = t] /\ Enqueue(e)
          /\ UNCHANGED <<ctx, scopes, batch, thread, lost, flush>>
        BY <1>6 DEF EndSpan
    <2>2. t \in TraceIds \cup {Stray} /\ t # None
        BY <1>1, TelemetryAssumption
    <2>3. e \in Events /\ e.item = s /\ e.trace = t
        BY <2>2 DEF Event, Events
    <2> HIDE DEF t
    <2>4. home' \in [Spans -> TraceIds \cup {Stray, None}] /\ home'[s] = t /\ \A x \in Spans \ {s} : home'[x] = home[x]
        BY <1>1, <2>1, <2>2
    <2>5. /\ queue' \in Seq(Events)
          /\ InSeq(queue)' \subseteq InSeq(queue) \cup {e} /\ InSeq(queue) \subseteq InSeq(queue)'
          /\ dropped \subseteq dropped' /\ e \in InSeq(queue)' \cup dropped'
        BY <1>1, <2>1, <2>3, Enqueued, Zenon
    <2>6. PostsStand
        BY <1>6, <2>1, <2>4 DEF PostsStand
    <2>7. ASSUME NEW x \in (InSeq(queue) \cup InSeq(batch) \cup Posted)'
          PROVE  Homed(x)'
        <3>1. x \in InSeq(queue) \cup InSeq(batch) \cup Posted \/ x = e
            BY <1>2, <1>4, <1>6, <2>1, <2>5
        <3>2. CASE x = e
            BY <2>3, <2>4, <3>2 DEF Homed
        <3>3. CASE x \in InSeq(queue) \cup InSeq(batch) \cup Posted
            <4>1. Homed(x) /\ x \in Events
                BY <1>1, <3>3, EventsBuffered, EventsPosted
            <4>2. x.item # "trace" => x.trace # None /\ x.item # s
                BY <4>1, <2>1, TelemetryAssumption DEF Homed, Events
            <4> QED
                BY <4>1, <4>2, <2>4 DEF Homed
        <3> QED
            BY <3>1, <3>2, <3>3
    <2>8. ASSUME NEW x \in Ended'
          PROVE  x \in (InSeq(queue) \cup InSeq(batch) \cup Posted \cup dropped \cup lost)'
        <3>1. PICK y \in Spans : home'[y] # None /\ x = Event(home'[y], y)
            BY <2>8 DEF Ended
        <3>2. CASE y = s
            BY <2>4, <2>5, <3>1, <3>2
        <3>3. CASE y # s
            <4>1. x \in Ended
                BY <2>4, <3>1, <3>3 DEF Ended
            <4> QED
                BY <1>1, <1>2, <1>4, <1>6, <2>1, <2>5, <4>1
        <3> QED
            BY <3>2, <3>3
    <2>9. Buffers'
        BY <1>1, <1>6, <2>1, <2>4, <2>5, <2>7 DEF Buffers
    <2>10. ClientAccounts'
        <3>1. FlushTold'
            BY <1>1, <1>2, <1>4, <1>6, <2>1, <2>5 DEF FlushTold
        <3>2. Ended' \subseteq (InSeq(queue) \cup InSeq(batch) \cup Posted \cup dropped \cup lost)'
            BY <2>8
        <3>3. (thread = "end" => batch = <<>>)'
            BY <1>1, <2>1
        <3> QED
            BY <3>1, <3>2, <3>3 DEF ClientAccounts, FlushTold
    <2> QED
        BY <2>6, <2>9, <2>10 DEF AccountsInv
<1>7. CASE ExitTrace /\ UNCHANGED jobs
    <2> DEFINE e == Event(ctx, "trace")
    <2>1. ctx # None /\ Enqueue(e) /\ ctx' = None /\ UNCHANGED <<home, scopes, batch, thread, lost, flush>>
        BY <1>7 DEF ExitTrace
    <2>2. e \in Events /\ e.item = "trace"
        BY <1>1, <2>1 DEF Event, Events
    <2> HIDE DEF e
    <2>3. /\ queue' \in Seq(Events)
          /\ InSeq(queue)' \subseteq InSeq(queue) \cup {e} /\ InSeq(queue) \subseteq InSeq(queue)'
          /\ dropped \subseteq dropped' /\ e \in InSeq(queue)' \cup dropped'
        BY <1>1, <2>1, <2>2, Enqueued, Zenon
    <2>4. PostsStand
        BY <1>7, <2>1 DEF PostsStand
    <2>5. FlushTold'
        BY <1>1, <1>2, <1>4, <1>7, <2>1, <2>3 DEF FlushTold
    <2> QED
        BY <1>1, <1>2, <1>4, <1>7, <2>1, <2>2, <2>3, <2>4, <2>5, EventsMove
<1>8. CASE Pull /\ UNCHANGED jobs
    <2>1. /\ thread # "end" /\ queue # <<>> /\ batch' = Append(batch, Head(queue)) /\ queue' = Tail(queue)
          /\ UNCHANGED <<ctx, home, scopes, thread, dropped, lost, flush>>
        BY <1>8 DEF Pull
    <2>2. Head(queue) \in Events /\ queue' \in Seq(Events) /\ InSeq(queue) = InSeq(queue)' \cup {Head(queue)}
        BY <1>1, <2>1, Pulled, ZenonT(30) DEF InSeq
    <2>3. batch' \in Seq(Events) /\ InSeq(batch)' = InSeq(batch) \cup {Head(queue)}
        <3> DEFINE e == Head(queue)
        <3>1. e \in Events /\ batch' = Append(batch, e)
            BY <2>1, <2>2
        <3> HIDE DEF e
        <3>2. Append(batch, e) \in Seq(Events) /\ InSeq(Append(batch, e)) = InSeq(batch) \cup {e}
            BY <1>1, <3>1, Appended
        <3>3. InSeq(batch)' = InSeq(Append(batch, e))
            BY <3>1 DEF InSeq
        <3> QED
            BY <3>1, <3>2, <3>3 DEF e
    <2>4. PostsStand
        BY <1>8, <2>1 DEF PostsStand
    <2>5. FlushTold'
        BY <1>1, <1>2, <1>8, <2>1, <2>2, <2>3 DEF FlushTold
    <2> QED
        BY <1>1, <1>2, <1>8, <2>1, <2>2, <2>3, <2>4, <2>5, EventsMove
<1>9. CASE (Flush \/ Shutdown \/ CloseClient \/ ThreadEnd) /\ UNCHANGED jobs
    <2>1. UNCHANGED <<ctx, home, queue, batch, dropped, lost, jobs>>
        BY <1>9 DEF Flush, Shutdown, CloseClient, ThreadEnd
    <2>4. FlushTold'
        <3>1. CASE Flush
            <4>1. /\ flush'.idle = (queue = <<>>) /\ flush'.left = InSeq(queue) \cup InSeq(batch)
                  /\ queue = <<>> => InSeq(queue) = {}
                BY <3>1, NoneBuffered DEF Flush, InSeq
            <4> QED
                BY <1>2, <1>3, <1>4, <2>1, <4>1 DEF FlushTold
        <3>2. CASE UNCHANGED flush
            BY <1>1, <1>2, <1>3, <1>4, <2>1, <3>2 DEF FlushTold
        <3> QED
            BY <1>9, <3>1, <3>2 DEF Shutdown, CloseClient, ThreadEnd
    <2>2. FlushTold' /\ (thread = "end" => batch = <<>>)'
        BY <1>1, <1>9, <2>1, <2>4 DEF Flush, Shutdown, CloseClient, ThreadEnd
    <2>3. PostsStand
        BY <2>1 DEF PostsStand
    <2> QED
        BY <1>1, <1>2, <1>3, <1>4, <2>1, <2>2, <2>3, EventsMove
<1>10. ASSUME NEW accepted \in BOOLEAN, Post(accepted)
       PROVE  AccountsInv' /\ PostsStand
    <2>1. batch' = <<>> /\ UNCHANGED <<ctx, home, scopes, queue, thread, dropped, flush>>
        BY <1>10 DEF Post
    <2>2. batch' \in Seq(Events) /\ InSeq(batch)' = {}
        BY <2>1, NoneBuffered DEF InSeq
    <2>3. InSeq(batch) \subseteq Events
        BY <1>1 DEF InSeq
    <2>4. CASE accepted
        <3> DEFINE row == [events |-> InSeq(batch), left |-> MaxDeliveries]
        <3>1. jobs' = Append(jobs, row) /\ lost' = lost
            BY <1>10, <2>4 DEF Post
        <3>2. row \in JobRow /\ row.events = InSeq(batch)
            BY <2>3, TelemetryAssumption DEF JobRow
        <3> HIDE DEF row
        <3>3. /\ jobs' \in Seq(JobRow) /\ Posted' = Posted \cup row.events
              /\ \A j \in DOMAIN jobs : j \in DOMAIN jobs' /\ jobs'[j].events = jobs[j].events
            BY <1>1, <3>1, <3>2, JobPosted, Zenon
        <3>4. PostsStand
            BY <2>1, <3>3 DEF PostsStand
        <3>5. FlushTold'
            BY <1>1, <1>3, <2>1, <2>2, <3>1, <3>2, <3>3 DEF FlushTold
        <3> QED
            BY <1>1, <1>3, <2>1, <2>2, <3>1, <3>2, <3>3, <3>4, <3>5, EventsMove
    <2>5. CASE ~accepted
        <3>1. jobs' = jobs /\ lost' = lost \cup InSeq(batch)
            BY <1>10, <2>5 DEF Post
        <3>2. PostsStand
            BY <2>1, <3>1 DEF PostsStand
        <3>3. FlushTold'
            BY <1>1, <1>2, <1>3, <2>1, <2>2, <3>1 DEF FlushTold
        <3> QED
            BY <1>1, <1>2, <1>3, <2>1, <2>2, <3>1, <3>2, <3>3, EventsMove
    <2> QED
        BY <2>4, <2>5
<1> QED
    BY <1>5, <1>6, <1>7, <1>8, <1>9, <1>10 DEF ClientNext, Posts

(* The server: what an ingestion holds is of its job, its spans have their trace or
   lose it to a sweep, and a span that no two ingestions shared has one writer. *)
IngestRow == [at : {"idle", "spans", "write"}, job : Nat, new : SUBSET (TraceIds \cup {Stray}),
              spans : SUBSET Spans, fresh : SUBSET Spans]

Together(s, events) == home[s] # None /\ {Event(home[s], s), Event(home[s], "trace")} \subseteq events

IngestionsAgree ==
    \A w \in Ingesters :
        /\ ingest[w].at = "idle" => ingest[w].spans = {}
        /\ ingest[w].at # "write" => ingest[w].fresh = {}
        /\ ingest[w].fresh \subseteq ingest[w].spans
        /\ \A s \in ingest[w].spans : /\ ingest[w].job \in DOMAIN jobs /\ Together(s, jobs[ingest[w].job].events)
                                      /\ home[s] \in ingest[w].new \cup traces \/ s \in swept

Unshared ==
    \A s \in Spans \ shared :
        /\ rows[s] \in {0, 1}
        /\ \A w \in Ingesters : s \in ingest[w].fresh =>
              rows[s] = 0 /\ \A v \in Ingesters \ {w} : s \notin ingest[v].fresh

Stored ==
    \A s \in Spans : rows[s] > 0 =>
        /\ \E j \in DOMAIN jobs : Together(s, jobs[j].events)
        /\ home[s] \in traces \/ s \in swept
        /\ home[s] \in sweep.old => s \in sweep.doomed \cup swept

ServerInv ==
    /\ ingest \in [Ingesters -> IngestRow] /\ rows \in [Spans -> Nat]
    /\ IngestionsAgree /\ Unshared /\ Stored

LEMMA StoredFollow == ServerInv => SpansFollowTheirTrace
<1> SUFFICES ASSUME ServerInv, NEW s \in Spans, rows[s] > 0
             PROVE  /\ \E j \in DOMAIN jobs : {Event(home[s], s), Event(home[s], "trace")} \subseteq jobs[j].events
                    /\ rows[s] > 1 => s \in shared
                    /\ home[s] \notin traces => s \in swept
    BY DEF SpansFollowTheirTrace
<1>1. (\E j \in DOMAIN jobs : Together(s, jobs[j].events)) /\ (home[s] \in traces \/ s \in swept)
    BY DEF ServerInv, Stored
<1>2. rows[s] > 1 => s \in shared
    BY DEF ServerInv, Unshared
<1> QED
    BY <1>1, <1>2 DEF Together

LEMMA TogetherStays ==
    ASSUME PostsStand, NEW s \in Spans, NEW j \in DOMAIN jobs, Together(s, jobs[j].events)
    PROVE  j \in DOMAIN jobs' /\ Together(s, jobs[j].events)' /\ home'[s] = home[s]
BY DEF PostsStand, Together

(* The server's rows stay while events are posted and signals recorded. *)
LEMMA ServerStays ==
    ASSUME ServerInv, PostsStand, UNCHANGED <<ingest, traces, rows, shared, sweep, swept>>
    PROVE  ServerInv'
<1>1. ingest \in [Ingesters -> IngestRow] /\ rows \in [Spans -> Nat] /\ IngestionsAgree /\ Unshared /\ Stored
    BY DEF ServerInv
<1>2. ASSUME NEW s \in Spans, NEW j \in DOMAIN jobs, Together(s, jobs[j].events)
      PROVE  j \in DOMAIN jobs' /\ (Together(s, jobs[j].events))' /\ home'[s] = home[s]
    BY <1>2, TogetherStays
<1>3. IngestionsAgree'
    <2> SUFFICES ASSUME NEW w \in Ingesters, NEW s \in ingest[w].spans
                 PROVE  /\ ingest[w].job \in DOMAIN jobs' /\ (Together(s, jobs[ingest[w].job].events))'
                        /\ home'[s] \in ingest[w].new \cup traces \/ s \in swept
        BY <1>1 DEF IngestionsAgree
    <2>1. s \in Spans
        BY <1>1 DEF IngestRow
    <2>2. /\ ingest[w].job \in DOMAIN jobs /\ Together(s, jobs[ingest[w].job].events)
          /\ home[s] \in ingest[w].new \cup traces \/ s \in swept
        BY <1>1 DEF IngestionsAgree
    <2> QED
        BY <1>2, <2>1, <2>2
<1>4. Unshared'
    BY <1>1 DEF Unshared
<1>5. Stored'
    BY <1>1, <1>2 DEF Stored
<1> QED
    BY <1>1, <1>3, <1>4, <1>5 DEF ServerInv

(* A sampled span came with its trace event. *)
LEMMA KeptTogether ==
    ASSUME Buffers, NEW j \in DOMAIN jobs, NEW sampled \in SUBSET TracesOf(jobs[j].events),
           NEW s \in Kept(jobs[j].events, sampled)
    PROVE  s \in Spans /\ Together(s, jobs[j].events) /\ home[s] \in sampled
<1> DEFINE events == jobs[j].events
<1>1. events \subseteq Posted /\ Posted \subseteq Events /\ \A e \in Posted : Homed(e)
    BY EventsPosted DEF Buffers, Posted
<1>2. PICK e \in events : e.item = s /\ e.item # "trace" /\ e.trace \in sampled
    BY DEF Kept
<1>3. PICK x \in events : x.item = "trace" /\ x.trace = e.trace
    BY <1>2 DEF TracesOf
<1>4. s \in Spans /\ home[s] = e.trace
    BY <1>1, <1>2 DEF Homed
<1>5. e \in Events /\ x \in Events
    BY <1>1, <1>2, <1>3
<1> HIDE DEF events
<1>6. e = Event(home[s], s) /\ x = Event(home[s], "trace")
    BY <1>2, <1>3, <1>4, <1>5 DEF Event, Events
<1>7. home[s] # None
    BY <1>4, <1>5, TelemetryAssumption DEF Events
<1> QED
    BY <1>2, <1>3, <1>4, <1>6, <1>7 DEF Together, events

(* One ingestion gets another row, with nothing to write yet. *)
LEMMA IngestionMoves ==
    ASSUME ServerInv, PostsStand, NEW w \in Ingesters, NEW row \in IngestRow,
           ingest' = [ingest EXCEPT ![w] = row], row.fresh = {}, row.at = "idle" => row.spans = {},
           \A s \in row.spans : /\ row.job \in DOMAIN jobs' /\ (Together(s, jobs[row.job].events))'
                                /\ home'[s] \in row.new \cup traces \/ s \in swept,
           UNCHANGED <<traces, rows, shared, sweep, swept>>
    PROVE  ServerInv'
<1>1. ingest \in [Ingesters -> IngestRow] /\ rows \in [Spans -> Nat] /\ IngestionsAgree /\ Unshared /\ Stored
    BY DEF ServerInv
<1>2. ASSUME NEW s \in Spans, NEW j \in DOMAIN jobs, Together(s, jobs[j].events)
      PROVE  j \in DOMAIN jobs' /\ (Together(s, jobs[j].events))' /\ home'[s] = home[s]
    BY <1>2, TogetherStays
<1>3. ingest' \in [Ingesters -> IngestRow] /\ ingest'[w] = row /\ \A v \in Ingesters \ {w} : ingest'[v] = ingest[v]
    BY <1>1
<1>4. ASSUME NEW v \in Ingesters
      PROVE  /\ ingest'[v].at = "idle" => ingest'[v].spans = {}
             /\ ingest'[v].at # "write" => ingest'[v].fresh = {}
             /\ ingest'[v].fresh \subseteq ingest'[v].spans
             /\ \A s \in ingest'[v].spans : /\ ingest'[v].job \in DOMAIN jobs' /\ (Together(s, jobs[ingest[v].job].events))'
                                            /\ home'[s] \in ingest'[v].new \cup traces \/ s \in swept
    <2>1. CASE v = w
        BY <1>3, <2>1
    <2>2. CASE v # w
        <3>1. ASSUME NEW s \in ingest[v].spans
              PROVE  /\ ingest[v].job \in DOMAIN jobs' /\ (Together(s, jobs[ingest[v].job].events))'
                     /\ home'[s] \in ingest[v].new \cup traces \/ s \in swept
            <4>1. s \in Spans
                BY <1>1 DEF IngestRow
            <4>2. /\ ingest[v].job \in DOMAIN jobs /\ Together(s, jobs[ingest[v].job].events)
                  /\ home[s] \in ingest[v].new \cup traces \/ s \in swept
                BY <1>1 DEF IngestionsAgree
            <4>3. ingest'[v].job = ingest[v].job
                BY <1>3, <2>2
            <4> QED
                BY <1>2, <4>1, <4>2, <4>3
        <3> QED
            BY <1>1, <1>3, <2>2, <3>1 DEF IngestionsAgree
    <2> QED
        BY <2>1, <2>2
<1>5. IngestionsAgree'
    BY <1>4 DEF IngestionsAgree
<1>6. Unshared'
    BY <1>1, <1>3 DEF Unshared
<1>7. Stored'
    BY <1>1, <1>2 DEF Stored
<1> QED
    BY <1>1, <1>3, <1>5, <1>6, <1>7 DEF ServerInv

LEMMA TakePreserves ==
    ASSUME Buffers, ServerInv, NEW w \in Ingesters, NEW j \in DOMAIN jobs, TakeBatch(w, j)
    PROVE  ServerInv' /\ PostsStand
<1>1. /\ ingest[w].at = "idle" /\ jobs[j].left > 0 /\ jobs' = [jobs EXCEPT ![j].left = @ - 1]
      /\ UNCHANGED <<home, traces, rows, shared, sweep, swept>>
    BY DEF TakeBatch, clientVars
<1> DEFINE events == jobs[j].events
           Sampled(drawn) == (drawn \cup (TracesOf(events) \intersect Failing)) \ Blocked
<1>2. PICK drawn \in SUBSET (TracesOf(events) \ Failing) :
          ingest' = [ingest EXCEPT ![w] = [at |-> "spans", job |-> j, new |-> Sampled(drawn) \ traces,
                                           spans |-> Kept(events, Sampled(drawn)), fresh |-> {}]]
    BY Zenon DEF TakeBatch
<1> DEFINE sampled == Sampled(drawn)
           row == [at |-> "spans", job |-> j, new |-> sampled \ traces, spans |-> Kept(events, sampled), fresh |-> {}]
<1>3. sampled \subseteq TracesOf(events)
    OBVIOUS
<1>4. jobs \in Seq(JobRow) /\ DOMAIN jobs = 1 .. Len(jobs) /\ Len(jobs) \in Nat
    BY DEF Buffers
<1>5. DOMAIN jobs' = DOMAIN jobs /\ \A i \in DOMAIN jobs : jobs'[i].events = jobs[i].events
    BY <1>1, <1>4, JobTaken
<1>6. PostsStand
    BY <1>1, <1>5 DEF PostsStand
<1>7. TracesOf(events) \subseteq TraceIds \cup {Stray}
    <2>1. events \subseteq Events
        BY <1>4, EventsPosted DEF Posted
    <2> QED
        BY <2>1 DEF TracesOf, Events
<1>8. \A s \in Kept(events, sampled) : s \in Spans /\ Together(s, jobs[j].events) /\ home[s] \in sampled
    <2> HIDE DEF sampled
    <2> QED
        BY <1>3, KeptTogether
<1> HIDE DEF sampled
<1>9. row \in IngestRow /\ row.fresh = {} /\ row.at = "spans" /\ row.job = j /\ row.new = sampled \ traces
      /\ row.spans = Kept(events, sampled)
    <2> DEFINE spans == Kept(events, sampled)
               new == sampled \ traces
    <2>1. new \in SUBSET (TraceIds \cup {Stray}) /\ spans \in SUBSET Spans /\ j \in Nat
        BY <1>3, <1>4, <1>7, <1>8
    <2>2. row = [at |-> "spans", job |-> j, new |-> new, spans |-> spans, fresh |-> {}]
        OBVIOUS
    <2> HIDE DEF spans, new, row
    <2>3. row \in IngestRow /\ row.fresh = {} /\ row.at = "spans" /\ row.job = j /\ row.new = new /\ row.spans = spans
        BY <2>1, <2>2 DEF IngestRow
    <2> QED
        BY <2>3 DEF spans, new
<1>10. ingest' = [ingest EXCEPT ![w] = row]
    BY <1>2 DEF sampled
<1> HIDE DEF row, events
<1>11. PICK r \in IngestRow : r = row
    BY <1>9
<1>12. ASSUME NEW s \in r.spans
       PROVE  /\ r.job \in DOMAIN jobs' /\ (Together(s, jobs[r.job].events))'
              /\ home'[s] \in r.new \cup traces \/ s \in swept
    <2>1. s \in Spans /\ Together(s, jobs[j].events) /\ home[s] \in sampled
        BY <1>8, <1>9, <1>11
    <2>2. j \in DOMAIN jobs' /\ (Together(s, jobs[j].events))' /\ home'[s] = home[s]
        BY <1>6, <2>1, TogetherStays
    <2>3. r.job = j /\ r.new = sampled \ traces
        BY <1>9, <1>11
    <2> QED
        BY <2>1, <2>2, <2>3
<1>13. r.fresh = {} /\ r.at # "idle" /\ ingest' = [ingest EXCEPT ![w] = r]
    BY <1>9, <1>10, <1>11
<1> QED
    BY <1>1, <1>6, <1>12, <1>13, IngestionMoves

LEMMA CrashPreserves ==
    ASSUME ServerInv, NEW w \in Ingesters, CrashIngest(w)
    PROVE  ServerInv' /\ PostsStand
<1>1. ingest' = [ingest EXCEPT ![w] = NoIngest] /\ UNCHANGED <<home, jobs, traces, rows, shared, sweep, swept>>
    BY DEF CrashIngest, clientVars
<1>2. NoIngest \in IngestRow /\ NoIngest.fresh = {} /\ NoIngest.spans = {}
    BY DEF NoIngest, IngestRow
<1>3. PostsStand
    BY <1>1 DEF PostsStand
<1> QED
    BY <1>1, <1>2, <1>3, IngestionMoves

LEMMA ReadPreserves ==
    ASSUME ServerInv, NEW w \in Ingesters, ReadSpans(w)
    PROVE  ServerInv' /\ PostsStand
<1> DEFINE fresh == {s \in ingest[w].spans : rows[s] = 0}
           others == UNION {ingest[v].fresh : v \in Ingesters \ {w}}
           row == [ingest[w] EXCEPT !.at = "write", !.fresh = fresh]
<1>1. /\ ingest[w].at = "spans" /\ ingest' = [ingest EXCEPT ![w] = row]
      /\ shared' = shared \cup (fresh \intersect others)
      /\ UNCHANGED <<home, jobs, traces, rows, sweep, swept>>
    BY DEF ReadSpans, clientVars
<1>2. ingest \in [Ingesters -> IngestRow] /\ rows \in [Spans -> Nat] /\ IngestionsAgree /\ Unshared /\ Stored
    BY DEF ServerInv
<1>3. ingest[w] \in IngestRow /\ fresh \in SUBSET Spans
    BY <1>2 DEF IngestRow
<1> HIDE DEF fresh
<1>4. row \in IngestRow /\ row.fresh = fresh /\ row.at = "write" /\ row.job = ingest[w].job /\ row.new = ingest[w].new
      /\ row.spans = ingest[w].spans
    BY <1>3 DEF IngestRow
<1> HIDE DEF row, others
<1>5. ingest' \in [Ingesters -> IngestRow] /\ ingest'[w] = row /\ \A v \in Ingesters \ {w} : ingest'[v] = ingest[v]
    BY <1>1, <1>2, <1>4
<1>6. IngestionsAgree'
    <2> SUFFICES ASSUME NEW v \in Ingesters
                 PROVE  /\ ingest'[v].at = "idle" => ingest'[v].spans = {}
                        /\ ingest'[v].at # "write" => ingest'[v].fresh = {}
                        /\ ingest'[v].fresh \subseteq ingest'[v].spans
                        /\ \A s \in ingest'[v].spans :
                              /\ ingest'[v].job \in DOMAIN jobs' /\ (Together(s, jobs[ingest[v].job].events))'
                              /\ home'[s] \in ingest'[v].new \cup traces' \/ s \in swept'
        BY DEF IngestionsAgree
    <2>1. \A s, events : (Together(s, events))' <=> Together(s, events)
        BY <1>1 DEF Together
    <2>2. CASE v = w
        <3>1. fresh \subseteq ingest[w].spans
            BY DEF fresh
        <3>2. \A s \in ingest[w].spans : /\ ingest[w].job \in DOMAIN jobs /\ Together(s, jobs[ingest[w].job].events)
                                         /\ home[s] \in ingest[w].new \cup traces \/ s \in swept
            BY <1>2 DEF IngestionsAgree
        <3>3. ingest'[w].job = ingest[w].job /\ ingest'[w].spans = ingest[w].spans /\ ingest'[w].new = ingest[w].new
            BY <1>4, <1>5
        <3>4. \A s \in ingest'[w].spans : (Together(s, jobs[ingest[w].job].events))'
            BY <1>1, <3>2, <3>3 DEF Together
        <3> QED
            BY <1>1, <1>4, <1>5, <2>2, <3>1, <3>2, <3>3, <3>4
    <2>3. CASE v # w
        BY <1>1, <1>2, <1>5, <2>3 DEF IngestionsAgree, Together
    <2> QED
        BY <2>2, <2>3
<1>7. Unshared'
    <2> SUFFICES ASSUME NEW s \in Spans \ shared'
                 PROVE  /\ rows'[s] \in {0, 1}
                        /\ \A v \in Ingesters : s \in ingest'[v].fresh =>
                              rows'[s] = 0 /\ \A x \in Ingesters \ {v} : s \notin ingest'[x].fresh
        BY DEF Unshared
    <2>1. s \notin shared /\ (s \in fresh => s \notin others)
        BY <1>1
    <2>2. /\ rows[s] \in {0, 1}
          /\ \A v \in Ingesters : s \in ingest[v].fresh => rows[s] = 0 /\ \A x \in Ingesters \ {v} : s \notin ingest[x].fresh
        BY <1>2, <2>1 DEF Unshared
    <2>3. s \in fresh => rows[s] = 0 /\ \A x \in Ingesters \ {w} : s \notin ingest[x].fresh
        BY <2>1 DEF fresh, others
    <2> QED
        BY <1>1, <1>4, <1>5, <2>2, <2>3
<1>8. Stored'
    BY <1>1, <1>2 DEF Stored, Together
<1>9. PostsStand
    BY <1>1 DEF PostsStand
<1> QED
    BY <1>1, <1>2, <1>5, <1>6, <1>7, <1>8, <1>9 DEF ServerInv

LEMMA CommitPreserves ==
    ASSUME ServerInv, NEW w \in Ingesters, CommitBatch(w)
    PROVE  ServerInv' /\ PostsStand
<1>1. /\ ingest[w].at = "write" /\ ingest' = [ingest EXCEPT ![w] = NoIngest]
      /\ UNCHANGED <<home, jobs, shared, sweep>>
    BY DEF CommitBatch, clientVars
<1>2. NoIngest \in IngestRow /\ NoIngest.at = "idle" /\ NoIngest.fresh = {} /\ NoIngest.spans = {}
    BY DEF NoIngest, IngestRow
<1>3. PostsStand
    BY <1>1 DEF PostsStand
<1>4. CASE ingest[w].new \intersect traces # {}
    <2>1. UNCHANGED <<traces, rows, swept>>
        BY <1>4, Zenon DEF CommitBatch
    <2> QED
        BY <1>1, <1>2, <1>3, <2>1, IngestionMoves
<1>5. CASE ingest[w].new \intersect traces = {}
    <2> DEFINE fresh == ingest[w].fresh
               new == ingest[w].new
    <2>1. /\ traces' = traces \cup new
          /\ rows' = [s \in Spans |-> rows[s] + IF s \in fresh THEN 1 ELSE 0]
          /\ swept' = swept \cup {s \in fresh : home[s] \in sweep.old}
        BY <1>5 DEF CommitBatch
    <2>2. ingest \in [Ingesters -> IngestRow] /\ rows \in [Spans -> Nat] /\ IngestionsAgree /\ Unshared /\ Stored
        BY DEF ServerInv
    <2>3. ingest' \in [Ingesters -> IngestRow] /\ ingest'[w] = NoIngest /\ \A v \in Ingesters \ {w} : ingest'[v] = ingest[v]
        BY <1>1, <1>2, <2>2
    <2>4. rows' \in [Spans -> Nat] /\ \A s \in Spans : rows'[s] = IF s \in fresh THEN rows[s] + 1 ELSE rows[s]
        BY <2>1, <2>2
    <2>5. \A s \in fresh : s \in Spans /\ s \in ingest[w].spans /\ ingest[w].job \in DOMAIN jobs
                           /\ Together(s, jobs[ingest[w].job].events) /\ (home[s] \in new \cup traces \/ s \in swept)
        BY <2>2 DEF IngestionsAgree, IngestRow
    <2> HIDE DEF fresh, new
    <2>6. \A s, events : (Together(s, events))' <=> Together(s, events)
        BY <1>1 DEF Together
    <2>7. IngestionsAgree'
        <3> SUFFICES ASSUME NEW v \in Ingesters
                     PROVE  /\ ingest'[v].at = "idle" => ingest'[v].spans = {}
                            /\ ingest'[v].at # "write" => ingest'[v].fresh = {}
                            /\ ingest'[v].fresh \subseteq ingest'[v].spans
                            /\ \A s \in ingest'[v].spans :
                                  /\ ingest'[v].job \in DOMAIN jobs' /\ (Together(s, jobs[ingest[v].job].events))'
                                  /\ home'[s] \in ingest'[v].new \cup traces' \/ s \in swept'
            BY DEF IngestionsAgree
        <3>1. CASE v = w
            BY <1>2, <2>3, <3>1
        <3>2. CASE v # w
            BY <1>1, <2>1, <2>2, <2>3, <3>2 DEF IngestionsAgree, Together
        <3> QED
            BY <3>1, <3>2
    <2>8. Unshared'
        <3> SUFFICES ASSUME NEW s \in Spans \ shared
                     PROVE  /\ rows'[s] \in {0, 1}
                            /\ \A v \in Ingesters : s \in ingest'[v].fresh =>
                                  rows'[s] = 0 /\ \A x \in Ingesters \ {v} : s \notin ingest'[x].fresh
            BY <1>1 DEF Unshared
        <3>1. /\ rows[s] \in {0, 1}
              /\ \A v \in Ingesters : s \in ingest[v].fresh =>
                    rows[s] = 0 /\ \A x \in Ingesters \ {v} : s \notin ingest[x].fresh
            BY <2>2 DEF Unshared
        <3>2. s \in fresh => rows[s] = 0 /\ \A v \in Ingesters \ {w} : s \notin ingest[v].fresh
            BY <3>1 DEF fresh
        <3> QED
            BY <1>2, <2>3, <2>4, <3>1, <3>2
    <2>9. Stored'
        <3> SUFFICES ASSUME NEW s \in Spans, rows'[s] > 0
                     PROVE  /\ \E j \in DOMAIN jobs' : (Together(s, jobs[j].events))'
                            /\ home'[s] \in traces' \/ s \in swept'
                            /\ home'[s] \in sweep'.old => s \in sweep'.doomed \cup swept'
            BY DEF Stored
        <3>1. CASE s \in fresh
            <4>1. ingest[w].job \in DOMAIN jobs /\ Together(s, jobs[ingest[w].job].events)
                BY <2>5, <3>1
            <4>2. \E j \in DOMAIN jobs : Together(s, jobs[j].events)
                BY <4>1
            <4>3. \E j \in DOMAIN jobs' : (Together(s, jobs[j].events))'
                BY <1>1, <4>2 DEF Together
            <4> QED
                BY <1>1, <2>1, <2>5, <3>1, <4>3
        <3>2. CASE s \notin fresh
            <4>1. rows[s] > 0
                BY <2>4, <3>2
            <4>2. /\ \E j \in DOMAIN jobs : Together(s, jobs[j].events)
                  /\ home[s] \in traces \/ s \in swept
                  /\ home[s] \in sweep.old => s \in sweep.doomed \cup swept
                BY <2>2, <4>1 DEF Stored
            <4>3. \E j \in DOMAIN jobs' : (Together(s, jobs[j].events))'
                BY <1>1, <4>2 DEF Together
            <4> QED
                BY <1>1, <2>1, <4>2, <4>3
        <3> QED
            BY <3>1, <3>2
    <2> QED
        BY <1>3, <2>3, <2>4, <2>7, <2>8, <2>9 DEF ServerInv
<1> QED
    BY <1>4, <1>5

LEMMA SweepPreserves ==
    ASSUME ServerInv, SweepNext
    PROVE  ServerInv' /\ PostsStand
<1>1. UNCHANGED <<home, jobs, ingest, shared>>
    BY DEF SweepNext, SweepRead, SweepCommit, clientVars
<1>2. PostsStand
    BY <1>1 DEF PostsStand
<1>3. ingest \in [Ingesters -> IngestRow] /\ rows \in [Spans -> Nat] /\ IngestionsAgree /\ Unshared /\ Stored
    BY DEF ServerInv
<1>4. \A s, events : (Together(s, events))' <=> Together(s, events)
    BY <1>1 DEF Together
<1>5. CASE SweepRead
    <2>1. UNCHANGED <<traces, rows, swept>>
        BY <1>5 DEF SweepRead
    <2>2. PICK old \in SUBSET traces : sweep' = [at |-> "delete", old |-> old, doomed |-> {s \in Spans : rows[s] > 0 /\ home[s] \in old}]
        BY <1>5 DEF SweepRead
    <2>3. \A s \in Spans : rows[s] > 0 /\ home[s] \in sweep'.old => s \in sweep'.doomed
        BY <2>2
    <2>4. IngestionsAgree' /\ Unshared'
        BY <1>1, <1>3, <2>1 DEF IngestionsAgree, Unshared, Together
    <2>5. Stored'
        BY <1>1, <1>3, <2>1, <2>3 DEF Stored, Together
    <2> QED
        BY <1>1, <1>2, <1>3, <2>1, <2>4, <2>5 DEF ServerInv
<1>6. CASE SweepCommit
    <2> DEFINE doomed == sweep.doomed
               old == sweep.old
    <2>1. /\ sweep' = NoSweep /\ traces' = traces \ old
          /\ rows' = [s \in Spans |-> IF s \in doomed THEN 0 ELSE rows[s]]
          /\ swept' = swept \cup {s \in InFlight : home[s] \in old}
        BY <1>6 DEF SweepCommit
    <2>2. rows' \in [Spans -> Nat] /\ \A s \in Spans : rows'[s] = IF s \in doomed THEN 0 ELSE rows[s]
        BY <1>3, <2>1
    <2>3. sweep'.old = {}
        BY <2>1 DEF NoSweep
    <2>4. \A w \in Ingesters : \A s \in ingest[w].spans : home[s] \in old => s \in swept'
        BY <2>1 DEF InFlight
    <2>9. swept \subseteq swept'
        BY <2>1
    <2> HIDE DEF doomed
    <2>5. IngestionsAgree'
        <3> SUFFICES ASSUME NEW v \in Ingesters, NEW s \in ingest[v].spans
                     PROVE  /\ ingest[v].job \in DOMAIN jobs /\ (Together(s, jobs[ingest[v].job].events))'
                            /\ home'[s] \in ingest[v].new \cup traces' \/ s \in swept'
            BY <1>1, <1>3 DEF IngestionsAgree
        <3>1. /\ ingest[v].job \in DOMAIN jobs /\ Together(s, jobs[ingest[v].job].events)
              /\ home[s] \in ingest[v].new \cup traces \/ s \in swept
            BY <1>3 DEF IngestionsAgree
        <3>2. (Together(s, jobs[ingest[v].job].events))'
            BY <1>1, <3>1 DEF Together
        <3> QED
            BY <1>1, <2>1, <2>4, <2>9, <3>1, <3>2
    <2>6. Unshared'
        BY <1>1, <1>3, <2>2 DEF Unshared
    <2>7. Stored'
        <3> SUFFICES ASSUME NEW s \in Spans, rows'[s] > 0
                     PROVE  (\E j \in DOMAIN jobs : (Together(s, jobs[j].events))') /\ (home'[s] \in traces' \/ s \in swept')
            BY <1>1, <2>3 DEF Stored
        <3>1. rows[s] > 0 /\ s \notin doomed
            BY <2>2
        <3>2. /\ \E j \in DOMAIN jobs : Together(s, jobs[j].events)
              /\ home[s] \in traces \/ s \in swept
              /\ home[s] \in old => s \in swept
            BY <1>3, <3>1 DEF Stored, doomed
        <3>3. \E j \in DOMAIN jobs : (Together(s, jobs[j].events))'
            BY <1>1, <3>2 DEF Together
        <3> QED
            BY <1>1, <2>1, <2>9, <3>2, <3>3
    <2> QED
        BY <1>1, <1>2, <1>3, <2>2, <2>5, <2>6, <2>7 DEF ServerInv
<1> QED
    BY <1>5, <1>6 DEF SweepNext

(* Jobs that a worker takes keep what was posted; nothing else of the server's
   touches the client. *)
LEMMA ServerKeepsAccounts ==
    ASSUME AccountsInv, IngestNext \/ SweepNext \/ QualityNext
    PROVE  AccountsInv'
<1>1. UNCHANGED clientVars
    BY DEF IngestNext, SweepNext, QualityNext, TakeBatch, ReadSpans, CommitBatch, CrashIngest,
           SweepRead, SweepCommit, ReadQuality, WriteQuality
<1>2. jobs \in Seq(JobRow)
    BY DEF AccountsInv, Buffers
<1>3. jobs' \in Seq(JobRow) /\ Posted' = Posted
    <2>1. CASE UNCHANGED jobs
        BY <1>2, <2>1 DEF Posted
    <2>2. ASSUME NEW w \in Ingesters, NEW j \in DOMAIN jobs, TakeBatch(w, j)
          PROVE  jobs' \in Seq(JobRow) /\ Posted' = Posted
        <3>1. jobs[j].left > 0 /\ jobs' = [jobs EXCEPT ![j].left = @ - 1]
            BY <2>2 DEF TakeBatch
        <3> QED
            BY <1>2, <3>1, JobTaken
    <2> QED
        BY <2>1, <2>2 DEF IngestNext, SweepNext, QualityNext, ReadSpans, CommitBatch, CrashIngest,
                          SweepRead, SweepCommit, ReadQuality, WriteQuality
<1>4. UNCHANGED <<ctx, home, scopes, queue, batch, thread, dropped, lost, flush>>
    BY <1>1 DEF clientVars
<1>5. InSeq(queue)' = InSeq(queue) /\ InSeq(batch)' = InSeq(batch)
    BY <1>4 DEF InSeq
<1> QED
    BY <1>2, <1>3, <1>4, <1>5, EventsMove DEF AccountsInv, Buffers, ClientAccounts, FlushTold

(* Quality signals: a writer has seen signals that were acknowledged; on a trace that
   never had two writers at once it has seen all that are stored, and is the only one. *)
WriterRow == [at : {"idle", "write"}, trace : TraceIds \cup {None}, signal : Signals \cup {None}, seen : SUBSET Signals]

Acknowledged(t) ==
    /\ quality[t] \cup rated[t] \subseteq recorded[t]
    /\ quality[t] = {} => recorded[t] = {}
    /\ \A w \in Writers : writer[w].trace = t => writer[w].seen \subseteq recorded[t]

Alone(t) ==
    /\ quality[t] \subseteq rated[t]
    /\ \A g, h \in rated[t] \ quality[t] : g = h
    /\ \A w \in Writers : writer[w].trace = t =>
          writer[w].seen = quality[t] /\ \A v \in Writers \ {w} : writer[v].trace # t

QualityInv ==
    /\ writer \in [Writers -> WriterRow]
    /\ quality \in [TraceIds -> SUBSET Signals] /\ rated \in [TraceIds -> SUBSET Signals]
    /\ recorded \in [TraceIds -> SUBSET Signals]
    /\ \A w \in Writers : (writer[w].at = "idle" => writer[w].trace = None)
                          /\ (writer[w].at = "write" => writer[w].trace \in TraceIds /\ writer[w].signal \in Signals)
    /\ \A t \in TraceIds : Acknowledged(t)
    /\ \A t \in TraceIds \ raced : Alone(t)

LEMMA QualityPreserves ==
    ASSUME QualityInv, QualityNext \/ SweepNext
    PROVE  QualityInv'
<1>1. /\ writer \in [Writers -> WriterRow]
      /\ quality \in [TraceIds -> SUBSET Signals] /\ rated \in [TraceIds -> SUBSET Signals]
      /\ recorded \in [TraceIds -> SUBSET Signals]
      /\ \A w \in Writers : (writer[w].at = "idle" => writer[w].trace = None)
                            /\ (writer[w].at = "write" => writer[w].trace \in TraceIds /\ writer[w].signal \in Signals)
      /\ \A t \in TraceIds : Acknowledged(t)
      /\ \A t \in TraceIds \ raced : Alone(t)
    BY DEF QualityInv
<1>2. NoWriter \in WriterRow /\ NoWriter.at = "idle" /\ NoWriter.trace = None
    BY DEF NoWriter, WriterRow
<1>3. None \notin TraceIds
    BY TelemetryAssumption
<1>4. ASSUME NEW w \in Writers, NEW t \in TraceIds, NEW g \in Signals, ReadQuality(w, t, g)
      PROVE  QualityInv'
    <2> DEFINE row == [at |-> "write", trace |-> t, signal |-> g, seen |-> quality[t]]
    <2>1. /\ writer[w].at = "idle" /\ writer' = [writer EXCEPT ![w] = row] /\ UNCHANGED <<quality, rated, recorded>>
          /\ raced' = raced \cup {x \in {t} : \E v \in Writers \ {w} : writer[v].trace = t}
        BY <1>4 DEF ReadQuality
    <2>2. row \in WriterRow /\ row.at = "write" /\ row.trace = t /\ row.signal = g /\ row.seen = quality[t]
        <3>1. quality[t] \in SUBSET Signals
            BY <1>1
        <3> QED
            BY <3>1 DEF WriterRow
    <2> HIDE DEF row
    <2>3. writer' \in [Writers -> WriterRow] /\ writer'[w] = row /\ \A v \in Writers \ {w} : writer'[v] = writer[v]
        BY <1>1, <2>1, <2>2
    <2>4. ASSUME NEW x \in TraceIds \ raced'
          PROVE  Alone(x)'
        <3>1. Alone(x) /\ writer[w].trace # x /\ (x = t => \A v \in Writers \ {w} : writer[v].trace # t)
            BY <1>1, <1>3, <2>1
        <3> QED
            BY <2>1, <2>2, <2>3, <3>1 DEF Alone
    <2>5. \A v \in Writers : (writer'[v].at = "idle" => writer'[v].trace = None)
                             /\ (writer'[v].at = "write" => writer'[v].trace \in TraceIds /\ writer'[v].signal \in Signals)
        BY <1>1, <2>2, <2>3
    <2>6. ASSUME NEW x \in TraceIds
          PROVE  Acknowledged(x)'
        BY <1>1, <2>1, <2>2, <2>3 DEF Acknowledged
    <2> QED
        BY <1>1, <2>1, <2>3, <2>4, <2>5, <2>6 DEF QualityInv
<1>5. ASSUME NEW w \in Writers, WriteQuality(w)
      PROVE  QualityInv'
    <2> DEFINE t == writer[w].trace
               g == writer[w].signal
               seen == writer[w].seen
    <2>1. /\ writer[w].at = "write" /\ quality' = IF seen = {} THEN [quality EXCEPT ![t] = {g}] ELSE quality
          /\ rated' = [rated EXCEPT ![t] = seen \cup {g}] \/ (seen # {} /\ UNCHANGED rated)
          /\ recorded' = [recorded EXCEPT ![t] = @ \cup {g}] /\ writer' = [writer EXCEPT ![w] = NoWriter] /\ UNCHANGED raced
        BY <1>5 DEF WriteQuality
    <2>2. t \in TraceIds /\ g \in Signals /\ seen \in SUBSET Signals
        <3>1. writer[w] \in WriterRow
            BY <1>1
        <3> QED
            BY <1>1, <2>1, <3>1 DEF WriterRow
    <2>3. /\ quality[t] \cup rated[t] \subseteq recorded[t] /\ (quality[t] = {} => recorded[t] = {})
          /\ \A v \in Writers : writer[v].trace = t => writer[v].seen \subseteq recorded[t]
          /\ seen \subseteq recorded[t]
        BY <1>1, <2>2 DEF Acknowledged
    <2>9. t \notin raced => seen = quality[t] /\ quality[t] \subseteq rated[t]
                            /\ (\A a, b \in rated[t] \ quality[t] : a = b)
                            /\ \A v \in Writers \ {w} : writer[v].trace # t
        BY <1>1, <2>2 DEF Alone
    <2> HIDE DEF t, g, seen
    <2>4. writer' \in [Writers -> WriterRow] /\ writer'[w] = NoWriter /\ \A v \in Writers \ {w} : writer'[v] = writer[v]
        BY <1>1, <1>2, <2>1
    <2>5. /\ quality' \in [TraceIds -> SUBSET Signals] /\ recorded' \in [TraceIds -> SUBSET Signals]
          /\ rated' \in [TraceIds -> SUBSET Signals]
          /\ (seen = {} => quality'[t] = {g}) /\ (seen # {} => quality'[t] = quality[t])
          /\ rated'[t] = seen \cup {g} \/ (seen # {} /\ rated'[t] = rated[t])
          /\ recorded'[t] = recorded[t] \cup {g}
          /\ \A x \in TraceIds \ {t} : quality'[x] = quality[x] /\ rated'[x] = rated[x] /\ recorded'[x] = recorded[x]
        BY <1>1, <2>1, <2>2
    <2>6. ASSUME NEW x \in TraceIds \ raced'
          PROVE  Alone(x)'
        <3>2. CASE x = t
            <4>1. /\ quality'[t] \subseteq rated'[t] /\ \A a, b \in rated'[t] \ quality'[t] : a = b
                BY <2>1, <2>5, <2>9, <3>2
            <4>2. \A v \in Writers : writer'[v].trace # t
                BY <1>2, <1>3, <2>1, <2>2, <2>4, <2>9, <3>2
            <4> QED
                BY <3>2, <4>1, <4>2 DEF Alone
        <3>3. CASE x # t
            <4>1. Alone(x)
                BY <1>1, <2>1
            <4>2. quality'[x] = quality[x] /\ rated'[x] = rated[x]
                BY <2>5, <3>3
            <4>3. ASSUME NEW v \in Writers, writer'[v].trace = x
                  PROVE  writer'[v].seen = quality'[x] /\ \A u \in Writers \ {v} : writer'[u].trace # x
                <5>1. v # w /\ writer'[v] = writer[v]
                    BY <1>2, <1>3, <2>4, <4>3
                <5>2. writer[v].seen = quality[x] /\ \A u \in Writers \ {v} : writer[u].trace # x
                    BY <4>1, <4>3, <5>1 DEF Alone
                <5> QED
                    BY <1>2, <1>3, <2>4, <4>2, <5>1, <5>2
            <4> QED
                BY <4>1, <4>2, <4>3 DEF Alone
        <3> QED
            BY <3>2, <3>3
    <2>7. \A v \in Writers : (writer'[v].at = "idle" => writer'[v].trace = None)
                             /\ (writer'[v].at = "write" => writer'[v].trace \in TraceIds /\ writer'[v].signal \in Signals)
        BY <1>1, <1>2, <2>4
    <2>8. ASSUME NEW x \in TraceIds
          PROVE  Acknowledged(x)'
        <3>1. CASE x = t
            <4>1. quality'[t] \cup rated'[t] \subseteq recorded'[t] /\ (quality'[t] = {} => recorded'[t] = {})
                <5>1. CASE seen = {}
                    BY <2>3, <2>5, <5>1
                <5>2. CASE seen # {}
                    <6>1. recorded[t] # {}
                        BY <2>3, <5>2
                    <6> QED
                        BY <2>3, <2>5, <5>2, <6>1
                <5> QED
                    BY <5>1, <5>2
            <4>2. ASSUME NEW v \in Writers, writer'[v].trace = t
                  PROVE  writer'[v].seen \subseteq recorded'[t]
                BY <1>2, <1>3, <2>2, <2>3, <2>4, <2>5, <4>2
            <4> QED
                BY <3>1, <4>1, <4>2 DEF Acknowledged
        <3>2. CASE x # t
            BY <1>1, <1>2, <1>3, <2>4, <2>5, <3>2 DEF Acknowledged
        <3> QED
            BY <3>1, <3>2
    <2> QED
        BY <2>4, <2>5, <2>6, <2>7, <2>8 DEF QualityInv
<1>6. CASE SweepRead
    BY <1>1, <1>6 DEF SweepRead, QualityInv, Alone, Acknowledged
<1>7. CASE SweepCommit
    <2> DEFINE old == sweep.old
    <2>1. /\ quality' = [t \in TraceIds |-> IF t \in old THEN {} ELSE quality[t]]
          /\ rated' = [t \in TraceIds |-> IF t \in old THEN {} ELSE rated[t]]
          /\ recorded' = [t \in TraceIds |-> IF t \in old THEN {} ELSE recorded[t]]
          /\ writer' = [w \in Writers |-> IF writer[w].trace \in old THEN NoWriter ELSE writer[w]] /\ UNCHANGED raced
        BY <1>7 DEF SweepCommit
    <2> HIDE DEF old
    <2>2. /\ writer' \in [Writers -> WriterRow]
          /\ \A w \in Writers : writer'[w] = IF writer[w].trace \in old THEN NoWriter ELSE writer[w]
        BY <1>1, <1>2, <2>1
    <2>3. /\ quality' \in [TraceIds -> SUBSET Signals] /\ recorded' \in [TraceIds -> SUBSET Signals]
          /\ rated' \in [TraceIds -> SUBSET Signals]
        BY <1>1, <2>1
    <2>4. ASSUME NEW x \in TraceIds
          PROVE  /\ x \in old => recorded'[x] = {} /\ quality'[x] = {} /\ rated'[x] = {}
                                 /\ \A w \in Writers : writer'[w].trace # x
                 /\ x \notin old =>
                        /\ recorded'[x] = recorded[x] /\ quality'[x] = quality[x] /\ rated'[x] = rated[x]
                        /\ \A w \in Writers : writer'[w].trace = x <=> writer[w].trace = x
                        /\ \A w \in Writers : writer'[w].trace = x => writer'[w] = writer[w]
        BY <1>2, <1>3, <2>1, <2>2
    <2>5. \A v \in Writers : (writer'[v].at = "idle" => writer'[v].trace = None)
                             /\ (writer'[v].at = "write" => writer'[v].trace \in TraceIds /\ writer'[v].signal \in Signals)
        BY <1>1, <1>2, <2>2
    <2>6. ASSUME NEW x \in TraceIds \ raced'
          PROVE  Alone(x)'
        <3>1. Alone(x)
            BY <1>1, <2>1
        <3> QED
            BY <2>4, <3>1 DEF Alone
    <2>7. ASSUME NEW x \in TraceIds
          PROVE  Acknowledged(x)'
        BY <1>1, <2>4 DEF Acknowledged
    <2> QED
        BY <2>2, <2>3, <2>5, <2>6, <2>7 DEF QualityInv
<1> QED
    BY <1>4, <1>5, <1>6, <1>7 DEF QualityNext, SweepNext

TelemetryInv == AccountsInv /\ ServerInv /\ QualityInv

LEMMA TelemetryStarts == TelemetryInit => TelemetryInv
<1> SUFFICES ASSUME TelemetryInit
             PROVE  TelemetryInv
    OBVIOUS
<1>1. /\ ctx = None /\ home = [s \in Spans |-> None]
      /\ queue = <<>> /\ batch = <<>> /\ thread = "run"
      /\ dropped = {} /\ lost = {} /\ flush = NoFlush /\ jobs = <<>>
      /\ ingest = [w \in Ingesters |-> NoIngest]
      /\ traces = {} /\ rows = [s \in Spans |-> 0] /\ shared = {}
      /\ quality = [t \in TraceIds |-> {}] /\ rated = [t \in TraceIds |-> {}] /\ writer = [w \in Writers |-> NoWriter]
      /\ recorded = [t \in TraceIds |-> {}] /\ raced = {}
    BY DEF TelemetryInit, ServerInit
<1>2. InSeq(queue) = {} /\ InSeq(batch) = {} /\ Posted = {} /\ Ended = {}
    BY <1>1 DEF InSeq, Posted, Ended
<1>3. queue \in Seq(Events) /\ batch \in Seq(Events) /\ jobs \in Seq(JobRow)
    BY <1>1
<1>4. AccountsInv
    BY <1>1, <1>2, <1>3 DEF AccountsInv, Buffers, ClientAccounts, NoFlush
<1>5. NoIngest \in IngestRow /\ NoIngest.at = "idle" /\ NoIngest.fresh = {} /\ NoIngest.spans = {}
    BY DEF NoIngest, IngestRow
<1>6. ServerInv
    BY <1>1, <1>5 DEF ServerInv, IngestionsAgree, Unshared, Stored
<1>7. NoWriter \in WriterRow /\ NoWriter.at = "idle" /\ NoWriter.trace = None
    BY DEF NoWriter, WriterRow
<1>8. QualityInv
    BY <1>1, <1>7, TelemetryAssumption DEF QualityInv, Alone, Acknowledged
<1> QED
    BY <1>4, <1>6, <1>8 DEF TelemetryInv

LEMMA TelemetryPreserves == TelemetryInv /\ [TelemetryNext]_teleVars => TelemetryInv'
<1> SUFFICES ASSUME AccountsInv, ServerInv, QualityInv, [TelemetryNext]_teleVars
             PROVE  AccountsInv' /\ ServerInv' /\ QualityInv'
    BY DEF TelemetryInv
<1>1. UNCHANGED <<quality, rated, writer, recorded, raced>> => QualityInv'
    BY DEF QualityInv, Alone, Acknowledged
<1>2. CASE ClientNext \/ Posts
    <2>1. UNCHANGED serverVars
        BY <1>2 DEF ClientNext, Posts
    <2>2. AccountsInv' /\ PostsStand
        BY <1>2, ClientPreserves
    <2> QED
        BY <1>1, <2>1, <2>2, ServerStays DEF serverVars
<1>3. CASE IngestNext
    <2>1. ServerInv'
        BY <1>3, TakePreserves, ReadPreserves, CommitPreserves, CrashPreserves DEF IngestNext, AccountsInv
    <2>2. UNCHANGED <<quality, rated, writer, recorded, raced>>
        BY <1>3 DEF IngestNext, TakeBatch, ReadSpans, CommitBatch, CrashIngest
    <2> QED
        BY <1>1, <1>3, <2>1, <2>2, ServerKeepsAccounts
<1>4. CASE SweepNext
    BY <1>4, SweepPreserves, QualityPreserves, ServerKeepsAccounts
<1>5. CASE QualityNext
    <2>1. UNCHANGED <<home, jobs, ingest, traces, rows, shared, sweep, swept>>
        BY <1>5 DEF QualityNext, ReadQuality, WriteQuality, clientVars
    <2>2. PostsStand
        BY <2>1 DEF PostsStand
    <2> QED
        BY <1>5, <2>1, <2>2, ServerStays, QualityPreserves, ServerKeepsAccounts
<1>6. CASE UNCHANGED teleVars
    <2>1. UNCHANGED clientVars /\ UNCHANGED jobs /\ UNCHANGED serverVars
        BY <1>6 DEF teleVars
    <2>2. UNCHANGED <<ctx, home, scopes, queue, batch, thread, dropped, lost, flush>>
        BY <2>1 DEF clientVars
    <2>3. UNCHANGED <<ingest, traces, rows, shared, sweep, swept>> /\ UNCHANGED <<quality, rated, writer, recorded, raced>>
        BY <2>1 DEF serverVars
    <2>4. PostsStand
        BY <2>1, <2>2 DEF PostsStand
    <2>5. AccountsInv'
        BY <2>1, <2>2 DEF AccountsInv, Buffers, ClientAccounts, Homed, Ended, Posted, InSeq
    <2> QED
        BY <1>1, <2>3, <2>4, <2>5, ServerStays
<1> QED
    BY <1>2, <1>3, <1>4, <1>5, <1>6 DEF TelemetryNext

LEMMA TelemetryHolds == TelemetrySpec => []TelemetryInv
BY TelemetryStarts, TelemetryPreserves, PTL DEF TelemetrySpec

(* The client loses no event silently: whatever it took is buffered, posted, dropped
   at a full queue or lost with its request (enqueue_event to shutdown). *)
THEOREM EventsAccountedFor == TelemetrySpec => []ClientAccounts
<1>1. TelemetryInv => ClientAccounts
    BY DEF TelemetryInv, AccountsInv
<1> QED
    BY <1>1, TelemetryHolds, PTL

(* Under redelivery, overlapping ingestions and retention sweeps, a stored span has
   its trace and one row, and signals and score are of what was acknowledged, but for
   the races the model names (ingest_batch, clean_observability_retention_for_session). *)
THEOREM IngestionStoresWhatWasPosted == TelemetrySpec => []StoredAsPosted
<1>1. TelemetryInv => SpansFollowTheirTrace
    BY StoredFollow DEF TelemetryInv
<1>2. TelemetryInv => ScoresFollowSignals
    BY DEF TelemetryInv, QualityInv, Alone, Acknowledged, ScoresFollowSignals
<1>3. TelemetryInv => StoredAsPosted
    BY <1>1, <1>2 DEF StoredAsPosted
<1> QED
    BY <1>3, TelemetryHolds, PTL

-----------------------------------------------------------------------------
(* Rubrics.  Version numbers play no part: V is whatever set they come from. *)
RubricRow(V) == [name : RubricNames, version : V, criteria : CriteriaLists, status : {"ACTIVE", "ARCHIVED"}]

LEMMA NameWritten ==
    ASSUME NEW V, NEW q \in Seq(RubricRow(V)), NEW k \in DOMAIN q, NEW n \in RubricNames,
           NEW p, p = [q EXCEPT ![k].name = n]
    PROVE  /\ p \in Seq(RubricRow(V)) /\ DOMAIN p = DOMAIN q /\ \A i \in DOMAIN q \ {k} : p[i] = q[i]
           /\ p[k].name = n /\ p[k].criteria = q[k].criteria /\ p[k].status = q[k].status
<1>1. ASSUME NEW row \in RubricRow(V)
      PROVE  LET new == [row EXCEPT !.name = n]
             IN new \in RubricRow(V) /\ new.name = n /\ new.criteria = row.criteria /\ new.status = row.status
    BY DEF RubricRow
<1> DEFINE row == [q[k] EXCEPT !.name = n]
<1>2. q[k] \in RubricRow(V) /\ p = [q EXCEPT ![k] = row]
    OBVIOUS
<1>3. row \in RubricRow(V) /\ row.name = n /\ row.criteria = q[k].criteria /\ row.status = q[k].status
    BY <1>1, <1>2, Zenon
<1> HIDE DEF row
<1> QED
    BY <1>2, <1>3

LEMMA CriteriaWritten ==
    ASSUME NEW V, NEW q \in Seq(RubricRow(V)), NEW k \in DOMAIN q, NEW c \in CriteriaLists,
           NEW p, p = [q EXCEPT ![k].criteria = c]
    PROVE  /\ p \in Seq(RubricRow(V)) /\ DOMAIN p = DOMAIN q /\ \A i \in DOMAIN q \ {k} : p[i] = q[i]
           /\ p[k].name = q[k].name /\ p[k].criteria = c /\ p[k].status = q[k].status
<1>1. ASSUME NEW row \in RubricRow(V)
      PROVE  LET new == [row EXCEPT !.criteria = c]
             IN new \in RubricRow(V) /\ new.name = row.name /\ new.criteria = c /\ new.status = row.status
    BY DEF RubricRow
<1> DEFINE row == [q[k] EXCEPT !.criteria = c]
<1>2. q[k] \in RubricRow(V) /\ p = [q EXCEPT ![k] = row]
    OBVIOUS
<1>3. row \in RubricRow(V) /\ row.name = q[k].name /\ row.criteria = c /\ row.status = q[k].status
    BY <1>1, <1>2, Zenon
<1> HIDE DEF row
<1> QED
    BY <1>2, <1>3

LEMMA Archived ==
    ASSUME NEW V, NEW row \in RubricRow(V)
    PROVE  LET new == [row EXCEPT !.status = "ARCHIVED"]
           IN new \in RubricRow(V) /\ new.name = row.name /\ new.criteria = row.criteria /\ new.status = "ARCHIVED"
BY DEF RubricRow

(* What a request read still holds: the active rows of the family it read are among
   those it archives, an update saw its rubric unused, and a copy is what its row says. *)
RequestAgrees(r) ==
    /\ r.act \in {"create", "archive"} => r.name \in RubricNames /\ r.criteria \in CriteriaLists
    /\ r.act = "archive" => \A i \in r.family : i \in Ids /\ (rubrics[i].status = "ACTIVE" => i \in r.older)
    /\ r.act = "update" =>
          /\ r.rubric \in Ids /\ r.used = FALSE
          /\ r.name \in RubricNames \cup {Untouched} /\ r.criteria \in CriteriaLists \cup {Untouched}
    /\ r.act = "judge" => r.rubric \in Ids /\ (r.rubric \notin rewritten =>
                              rubrics[r.rubric].name = r.name /\ rubrics[r.rubric].criteria = r.criteria)

OneActive(n) == \A i, j \in ActiveRubrics(n) : i = j

RubricsInv ==
    /\ \E V : rubrics \in Seq(RubricRow(V))
    /\ DOMAIN requests = Requesters /\ \A u \in Requesters : RequestAgrees(requests[u])
    /\ \A n \in RubricNames \ disorder : OneActive(n)
    /\ \A e \in judgedRuns : e.rubric \in Ids /\ (e.rubric \notin rewritten =>
                                rubrics[e.rubric].name = e.name /\ rubrics[e.rubric].criteria = e.criteria)

LEMMA RubricsVersioned == RubricsInv => RubricsAreVersioned
<1> SUFFICES ASSUME RubricsInv, NEW n \in RubricNames \ disorder
             PROVE  Cardinality(ActiveRubrics(n)) <= 1
    BY DEF RubricsInv, RubricsAreVersioned
<1>1. OneActive(n)
    BY DEF RubricsInv
<1>2. CASE ActiveRubrics(n) = {}
    BY <1>2, FS_EmptySet
<1>3. CASE ActiveRubrics(n) # {}
    <2>1. PICK i : ActiveRubrics(n) = {i}
        BY <1>1, <1>3 DEF OneActive
    <2> QED
        BY <2>1, FS_Singleton
<1> QED
    BY <1>2, <1>3

(* Rows that keep their name and criteria, and become archived at most. *)
RowsKeep ==
    /\ Ids \subseteq Ids'
    /\ \A i \in Ids : /\ rubrics'[i].name = rubrics[i].name /\ rubrics'[i].criteria = rubrics[i].criteria
                      /\ rubrics'[i].status = "ACTIVE" => rubrics[i].status = "ACTIVE"

LEMMA RequestStays ==
    ASSUME RowsKeep, UNCHANGED rewritten, NEW r, RequestAgrees(r)
    PROVE  (RequestAgrees(r))'
<1>1. \A i \in Ids : i \in Ids' /\ rubrics'[i].name = rubrics[i].name /\ rubrics'[i].criteria = rubrics[i].criteria
                     /\ (rubrics'[i].status = "ACTIVE" => rubrics[i].status = "ACTIVE")
    BY DEF RowsKeep
<1> QED
    BY <1>1 DEF RequestAgrees

(* Only a new row can be active that was not. *)
LEMMA ActiveStays ==
    ASSUME RowsKeep, NEW n, OneActive(n), \A i \in Ids' \ Ids : rubrics'[i].name # n
    PROVE  OneActive(n)'
<1>1. ActiveRubrics(n)' \subseteq ActiveRubrics(n)
    <2> SUFFICES ASSUME NEW i \in Ids', rubrics'[i].name = n, rubrics'[i].status = "ACTIVE"
                 PROVE  i \in Ids /\ rubrics[i].name = n /\ rubrics[i].status = "ACTIVE"
        BY DEF ActiveRubrics, Family, Ids
    <2> QED
        BY DEF RowsKeep
<1> QED
    BY <1>1 DEF OneActive

LEMMA RunsStay ==
    ASSUME RubricsInv, RowsKeep, UNCHANGED <<judgedRuns, rewritten>>
    PROVE  (\A e \in judgedRuns : e.rubric \in Ids /\ (e.rubric \notin rewritten =>
                                rubrics[e.rubric].name = e.name /\ rubrics[e.rubric].criteria = e.criteria))'
BY DEF RubricsInv, RowsKeep

(* One request is replaced while the rows keep what they say. *)
LEMMA RequestTurns ==
    ASSUME RubricsInv, NEW u \in Requesters, NEW row, requests' = [requests EXCEPT ![u] = row],
           RequestAgrees(row), UNCHANGED <<rubrics, judgedRuns, disorder, rewritten>>
    PROVE  RubricsInv'
<1>1. DOMAIN requests' = Requesters /\ requests'[u] = row /\ \A v \in Requesters \ {u} : requests'[v] = requests[v]
    BY DEF RubricsInv
<1>2. \A r : (RequestAgrees(r))' <=> RequestAgrees(r)
    BY DEF RequestAgrees, Ids
<1>3. \A v \in Requesters : (RequestAgrees(requests[v]))'
    BY <1>1, <1>2 DEF RubricsInv
<1>4. \A n : OneActive(n)' <=> OneActive(n)
    BY DEF OneActive, ActiveRubrics, Family, Ids
<1> QED
    BY <1>1, <1>3, <1>4 DEF RubricsInv, Ids

LEMMA RequestsRead ==
    ASSUME RubricsInv, NEW u \in Requesters, ReadFamily(u) \/ ListOlder(u) \/ ReadForUpdate(u) \/ CopyRubric(u)
    PROVE  RubricsInv'
<1>1. PICK V : rubrics \in Seq(RubricRow(V))
    BY DEF RubricsInv
<1>2. CASE ReadFamily(u)
    <2>1. PICK n \in RubricNames, c \in CriteriaLists :
              requests' = [requests EXCEPT ![u] =
                  [act |-> "create", rubric |-> 0, name |-> n, criteria |-> c,
                   version |-> MaxVersion(n) + 1, older |-> {}, family |-> Family(n), used |-> FALSE]]
        BY <1>2, Zenon DEF ReadFamily
    <2> DEFINE row == [act |-> "create", rubric |-> 0, name |-> n, criteria |-> c,
                       version |-> MaxVersion(n) + 1, older |-> {}, family |-> Family(n), used |-> FALSE]
    <2>2. RequestAgrees(row)
        BY DEF RequestAgrees, ActiveRubrics, Family
    <2>3. UNCHANGED <<rubrics, judgedRuns, disorder, rewritten>>
        BY <1>2 DEF ReadFamily
    <2> HIDE DEF row
    <2>4. requests' = [requests EXCEPT ![u] = row]
        BY <2>1 DEF row
    <2> QED
        BY <2>2, <2>3, <2>4, RequestTurns
<1>3. CASE ListOlder(u)
    <2> DEFINE r == requests[u]
               others == {i \in Family(r.name) : rubrics[i].version # r.version}
               row == [act |-> "archive", rubric |-> 0, name |-> r.name, criteria |-> r.criteria, version |-> r.version,
                       older |-> others \cap ActiveRubrics(r.name), family |-> r.family \cap others, used |-> FALSE]
    <2>1. r.act = "create" /\ requests' = [requests EXCEPT ![u] = row] /\ UNCHANGED <<rubrics, judgedRuns, disorder, rewritten>>
        BY <1>3 DEF ListOlder
    <2>2. r.name \in RubricNames /\ r.criteria \in CriteriaLists
        BY <2>1 DEF RubricsInv, RequestAgrees
    <2>3. \A i \in row.family : i \in Ids /\ (rubrics[i].status = "ACTIVE" => i \in row.older)
        BY DEF ActiveRubrics, Family
    <2>4. row.act = "archive" /\ row.name = r.name /\ row.criteria = r.criteria
        OBVIOUS
    <2> HIDE DEF row, r
    <2>5. RequestAgrees(row)
        BY <2>2, <2>3, <2>4 DEF RequestAgrees
    <2> QED
        BY <2>1, <2>5, RequestTurns
<1>4. CASE ReadForUpdate(u)
    <2>1. PICK i \in Ids : ~IsUsed(i) /\ \E r \in Edit(i) : requests' = [requests EXCEPT ![u] = r]
        BY <1>4 DEF ReadForUpdate
    <2>2. PICK r \in Edit(i) : requests' = [requests EXCEPT ![u] = r]
        BY <2>1
    <2>3. /\ r.name \in RubricNames \cup {Untouched} /\ r.criteria \in CriteriaLists \cup {Untouched}
          /\ r.act = "update" /\ r.rubric = i /\ r.used = IsUsed(i)
        BY <2>2 DEF Edit
    <2>4. IsUsed(i) = FALSE
        BY <2>1, Zenon DEF IsUsed
    <2>5. RequestAgrees(r)
        BY <2>3, <2>4 DEF RequestAgrees
    <2>6. UNCHANGED <<rubrics, judgedRuns, disorder, rewritten>>
        BY <1>4 DEF ReadForUpdate
    <2> QED
        BY <2>2, <2>5, <2>6, RequestTurns
<1>5. CASE CopyRubric(u)
    <2>1. PICK i \in Ids : requests' = [requests EXCEPT ![u] = [Idle EXCEPT !.act = "judge", !.rubric = i,
                                            !.name = rubrics[i].name, !.criteria = rubrics[i].criteria]]
        BY <1>5 DEF CopyRubric
    <2> DEFINE row == [Idle EXCEPT !.act = "judge", !.rubric = i, !.name = rubrics[i].name, !.criteria = rubrics[i].criteria]
    <2>2. RequestAgrees(row)
        BY DEF RequestAgrees, Idle
    <2>3. UNCHANGED <<rubrics, judgedRuns, disorder, rewritten>>
        BY <1>5 DEF CopyRubric
    <2> HIDE DEF row
    <2>4. requests' = [requests EXCEPT ![u] = row]
        BY <2>1 DEF row
    <2> QED
        BY <2>2, <2>3, <2>4, RequestTurns
<1> QED
    BY <1>2, <1>4, <1>5, <1>3

LEMMA RunStored ==
    ASSUME RubricsInv, NEW u \in Requesters, StoreRun(u)
    PROVE  RubricsInv'
<1> DEFINE r == requests[u]
           run == [rubric |-> r.rubric, name |-> r.name, criteria |-> r.criteria]
           done == [Idle EXCEPT !.act = "done"]
<1>1. /\ r.act = "judge" /\ judgedRuns' = judgedRuns \cup {run} /\ requests' = [requests EXCEPT ![u] = done]
      /\ UNCHANGED <<rubrics, disorder, rewritten>>
    BY DEF StoreRun
<1>2. run.rubric \in Ids /\ (run.rubric \notin rewritten =>
          rubrics[run.rubric].name = run.name /\ rubrics[run.rubric].criteria = run.criteria)
    <2>1. RequestAgrees(r)
        BY DEF RubricsInv
    <2> QED
        BY <1>1, <2>1 DEF RequestAgrees
<1> HIDE DEF run
<1>3. \A x : (RequestAgrees(x))' <=> RequestAgrees(x)
    BY <1>1 DEF RequestAgrees, Ids
<1>4. RequestAgrees(done)
    BY DEF RequestAgrees, Idle
<1> HIDE DEF done
<1>5. DOMAIN requests' = Requesters /\ requests'[u] = done /\ \A v \in Requesters \ {u} : requests'[v] = requests[v]
    BY <1>1 DEF RubricsInv
<1>6. \A v \in Requesters : (RequestAgrees(requests[v]))'
    BY <1>3, <1>4, <1>5 DEF RubricsInv
<1>7. \A n : OneActive(n)' <=> OneActive(n)
    BY <1>1 DEF OneActive, ActiveRubrics, Family, Ids
<1> QED
    BY <1>1, <1>2, <1>5, <1>6, <1>7 DEF RubricsInv, Ids

LEMMA RubricArchived ==
    ASSUME RubricsInv, NEW k \in Ids, ArchiveRubric(k)
    PROVE  RubricsInv'
<1>1. rubrics' = [rubrics EXCEPT ![k].status = "ARCHIVED"] /\ UNCHANGED <<requests, judgedRuns, disorder, rewritten>>
    BY DEF ArchiveRubric
<1>2. PICK V : rubrics \in Seq(RubricRow(V))
    BY DEF RubricsInv
<1> DEFINE row == [rubrics[k] EXCEPT !.status = "ARCHIVED"]
<1>3. row \in RubricRow(V) /\ row.name = rubrics[k].name /\ row.criteria = rubrics[k].criteria /\ row.status = "ARCHIVED"
    <2>1. rubrics[k] \in RubricRow(V)
        BY <1>2 DEF Ids
    <2> QED
        BY <2>1, Archived, Zenon
<1>4. rubrics' = [rubrics EXCEPT ![k] = row]
    BY <1>1
<1> HIDE DEF row
<1>5. rubrics' \in Seq(RubricRow(V)) /\ DOMAIN rubrics' = DOMAIN rubrics /\ rubrics'[k] = row
      /\ \A i \in DOMAIN rubrics \ {k} : rubrics'[i] = rubrics[i]
    BY <1>2, <1>3, <1>4 DEF Ids
<1>6. RowsKeep /\ Ids' = Ids
    BY <1>3, <1>5 DEF RowsKeep, Ids
<1>7. \A n \in RubricNames \ disorder : OneActive(n)'
    BY <1>6, ActiveStays DEF RubricsInv
<1>8. \A u \in Requesters : (RequestAgrees(requests[u]))'
    <2> SUFFICES ASSUME NEW u \in Requesters
                 PROVE  (RequestAgrees(requests[u]))'
        OBVIOUS
    <2>1. PICK r : r = requests[u]
        OBVIOUS
    <2>2. RequestAgrees(r)
        BY <2>1 DEF RubricsInv
    <2>3. (RequestAgrees(r))' /\ r = requests'[u]
        BY <1>1, <1>6, <2>1, <2>2, RequestStays
    <2> QED
        BY <2>3
<1>9. (\A e \in judgedRuns : e.rubric \in Ids /\ (e.rubric \notin rewritten =>
          rubrics[e.rubric].name = e.name /\ rubrics[e.rubric].criteria = e.criteria))'
    BY <1>1, <1>6, RunsStay
<1> QED
    BY <1>1, <1>5, <1>7, <1>8, <1>9 DEF RubricsInv

LEMMA RubricInserted ==
    ASSUME RubricsInv, NEW u \in Requesters, InsertRubric(u)
    PROVE  RubricsInv'
<1> DEFINE r == requests[u]
           kept == [i \in Ids |-> IF i \in r.older THEN [rubrics[i] EXCEPT !.status = "ARCHIVED"] ELSE rubrics[i]]
           new == [name |-> r.name, version |-> r.version, criteria |-> r.criteria, status |-> "ACTIVE"]
           done == [Idle EXCEPT !.act = "done"]
           k == Len(rubrics) + 1
<1>1. /\ r.act = "archive" /\ rubrics' = Append(kept, new) /\ requests' = [requests EXCEPT ![u] = done]
      /\ disorder' = IF Family(r.name) \subseteq r.family THEN disorder \ {r.name} ELSE disorder \cup {r.name}
      /\ UNCHANGED <<judgedRuns, rewritten>>
    BY DEF InsertRubric
<1>2. PICK V : rubrics \in Seq(RubricRow(V))
    BY DEF RubricsInv
<1>3. RequestAgrees(r)
    BY DEF RubricsInv
<1>4. /\ r.name \in RubricNames /\ r.criteria \in CriteriaLists
      /\ \A i \in r.family : i \in Ids /\ (rubrics[i].status = "ACTIVE" => i \in r.older)
    BY <1>1, <1>3 DEF RequestAgrees
<1> DEFINE W == V \cup {r.version}
<1>5. new \in RubricRow(W) /\ new.name = r.name
    BY <1>4 DEF RubricRow
<1>6. /\ Ids = 1 .. Len(rubrics) /\ Len(rubrics) \in Nat /\ k \notin Ids
      /\ \A i \in Ids : rubrics[i] \in RubricRow(V)
    BY <1>2 DEF Ids
<1>7. \A i \in Ids : /\ kept[i] \in RubricRow(W) /\ kept[i].name = rubrics[i].name /\ kept[i].criteria = rubrics[i].criteria
                     /\ kept[i].status = "ACTIVE" => rubrics[i].status = "ACTIVE" /\ i \notin r.older
    <2> SUFFICES ASSUME NEW i \in Ids
                 PROVE  /\ kept[i] \in RubricRow(W) /\ kept[i].name = rubrics[i].name /\ kept[i].criteria = rubrics[i].criteria
                        /\ kept[i].status = "ACTIVE" => rubrics[i].status = "ACTIVE" /\ i \notin r.older
        OBVIOUS
    <2>1. CASE i \in r.older
        <3> DEFINE row == [rubrics[i] EXCEPT !.status = "ARCHIVED"]
        <3>1. kept[i] = row
            BY <2>1
        <3>2. rubrics[i] \in RubricRow(V)
            BY <1>6
        <3>3. row \in RubricRow(V) /\ row.name = rubrics[i].name /\ row.criteria = rubrics[i].criteria /\ row.status = "ARCHIVED"
            BY <3>2, Archived, Zenon
        <3> HIDE DEF row
        <3>4. row \in RubricRow(W)
            BY <3>3 DEF RubricRow
        <3> HIDE DEF kept
        <3> QED
            BY <3>1, <3>3, <3>4
    <2>2. CASE i \notin r.older
        <3>1. kept[i] = rubrics[i]
            BY <2>2
        <3>2. rubrics[i] \in RubricRow(W)
            BY <1>6 DEF RubricRow
        <3> HIDE DEF kept
        <3> QED
            BY <2>2, <3>1, <3>2
    <2> QED
        BY <2>1, <2>2
<1>8. kept \in [1 .. Len(rubrics) -> RubricRow(W)]
    <2> HIDE DEF W, new
    <2>1. \A i \in Ids : kept[i] \in RubricRow(W)
        BY <1>7
    <2>2. kept = [i \in Ids |-> kept[i]]
        OBVIOUS
    <2> HIDE DEF kept
    <2> QED
        BY <1>6, <2>1, <2>2
<1> HIDE DEF kept, new, done, W
<1>9. kept \in Seq(RubricRow(W)) /\ Len(kept) = Len(rubrics)
    BY <1>6, <1>8
<1>10. /\ rubrics' \in Seq(RubricRow(W)) /\ Ids' = Ids \cup {k} /\ rubrics'[k] = new
       /\ \A i \in Ids : rubrics'[i] = kept[i]
    BY <1>1, <1>5, <1>6, <1>9 DEF Ids
<1> HIDE DEF k
<1>11. RowsKeep
    BY <1>7, <1>10 DEF RowsKeep
<1>12. DOMAIN requests' = Requesters /\ requests'[u] = done /\ \A v \in Requesters \ {u} : requests'[v] = requests[v]
    BY <1>1 DEF RubricsInv
<1>13. \A v \in Requesters : (RequestAgrees(requests[v]))'
    <2> SUFFICES ASSUME NEW v \in Requesters
                 PROVE  (RequestAgrees(requests[v]))'
        OBVIOUS
    <2>1. PICK x : x = requests'[v]
        OBVIOUS
    <2>2. RequestAgrees(done)
        BY DEF RequestAgrees, Idle, done
    <2>3. RequestAgrees(x)
        BY <1>12, <2>1, <2>2 DEF RubricsInv
    <2>4. (RequestAgrees(x))'
        BY <1>1, <1>11, <2>3, RequestStays
    <2> QED
        BY <2>1, <2>4
<1>14. ASSUME NEW n \in RubricNames \ disorder'
       PROVE  OneActive(n)'
    <2>1. CASE n = r.name
        <3>1. Family(r.name) \subseteq r.family
            BY <1>1, <1>14, <2>1
        <3>2. \A i \in Ids : rubrics[i].name = n /\ rubrics[i].status = "ACTIVE" => i \in r.older
            BY <1>4, <2>1, <3>1 DEF Family
        <3>3. \A i \in Ids : ~(rubrics'[i].name = n /\ rubrics'[i].status = "ACTIVE")
            BY <1>7, <1>10, <3>2
        <3>4. ActiveRubrics(n)' \subseteq {k}
            BY <1>10, <3>3 DEF ActiveRubrics, Family
        <3> QED
            BY <3>4 DEF OneActive
    <2>2. CASE n # r.name
        <3>1. n \notin disorder
            BY <1>1, <1>14, <2>2
        <3>2. OneActive(n)
            BY <3>1 DEF RubricsInv
        <3>3. \A i \in Ids' \ Ids : rubrics'[i].name # n
            BY <1>5, <1>10, <2>2
        <3> QED
            BY <1>11, <3>2, <3>3, ActiveStays
    <2> QED
        BY <2>1, <2>2
<1>15. (\A e \in judgedRuns : e.rubric \in Ids /\ (e.rubric \notin rewritten =>
          rubrics[e.rubric].name = e.name /\ rubrics[e.rubric].criteria = e.criteria))'
    BY <1>1, <1>11, RunsStay
<1> QED
    BY <1>10, <1>12, <1>13, <1>14, <1>15 DEF RubricsInv

LEMMA RubricUpdated ==
    ASSUME RubricsInv, NEW u \in Requesters, UpdateRubric(u)
    PROVE  RubricsInv'
<1> DEFINE r == requests[u]
           k == r.rubric
           copied == \E w \in Requesters : requests[w].act = "judge" /\ requests[w].rubric = k
           name == IF r.name = Untouched THEN rubrics[k].name ELSE r.name
           criteria == IF r.criteria = Untouched THEN rubrics[k].criteria ELSE r.criteria
           mid == [rubrics EXCEPT ![k].name = name]
           done == [Idle EXCEPT !.act = "done"]
<1>1. /\ r.act = "update" /\ requests' = [requests EXCEPT ![u] = done] /\ UNCHANGED judgedRuns
      /\ disorder' = IF r.name = Untouched THEN disorder ELSE disorder \cup {r.name}
      /\ rewritten' = IF ~r.used /\ (IsUsed(k) \/ copied) THEN rewritten \cup {k} ELSE rewritten
    BY DEF UpdateRubric
<1>2. PICK V : rubrics \in Seq(RubricRow(V))
    BY DEF RubricsInv
<1>3. /\ k \in Ids /\ r.used = FALSE
      /\ r.name \in RubricNames \cup {Untouched} /\ r.criteria \in CriteriaLists \cup {Untouched}
    <2>1. RequestAgrees(r)
        BY DEF RubricsInv
    <2> QED
        BY <1>1, <2>1 DEF RequestAgrees
<1>4. name \in RubricNames /\ criteria \in CriteriaLists
    <2>1. rubrics[k] \in RubricRow(V)
        BY <1>2, <1>3 DEF Ids
    <2> QED
        BY <1>3, <2>1 DEF RubricRow
<1>5. /\ mid \in Seq(RubricRow(V)) /\ DOMAIN mid = Ids /\ \A i \in Ids \ {k} : mid[i] = rubrics[i]
      /\ mid[k].name = name /\ mid[k].criteria = rubrics[k].criteria /\ mid[k].status = rubrics[k].status
    <2>1. k \in DOMAIN rubrics /\ mid = [rubrics EXCEPT ![k].name = name]
        BY <1>3 DEF Ids
    <2> HIDE DEF mid, name, k
    <2>2. /\ mid \in Seq(RubricRow(V)) /\ DOMAIN mid = DOMAIN rubrics /\ \A i \in DOMAIN rubrics \ {k} : mid[i] = rubrics[i]
          /\ mid[k].name = name /\ mid[k].criteria = rubrics[k].criteria /\ mid[k].status = rubrics[k].status
        BY <1>2, <1>4, <2>1, NameWritten
    <2> QED
        BY <2>2 DEF Ids
<1>6. rubrics' = [mid EXCEPT ![k].criteria = criteria]
    <2>1. rubrics' = [rubrics EXCEPT ![k].name = IF r.name = Untouched THEN @ ELSE r.name,
                                     ![k].criteria = IF r.criteria = Untouched THEN @ ELSE r.criteria]
        BY DEF UpdateRubric
    <2>2. rubrics' = [mid EXCEPT ![k].criteria = IF r.criteria = Untouched THEN mid[k].criteria ELSE r.criteria]
        BY <2>1
    <2> QED
        BY <1>5, <2>2
<1> HIDE DEF mid, name, criteria, done
<1>7. /\ rubrics' \in Seq(RubricRow(V)) /\ Ids' = Ids /\ \A i \in Ids \ {k} : rubrics'[i] = rubrics[i]
      /\ rubrics'[k].name = name /\ rubrics'[k].status = rubrics[k].status
    <2> DEFINE p == rubrics'
    <2>1. k \in DOMAIN mid /\ p = [mid EXCEPT ![k].criteria = criteria]
        BY <1>3, <1>5, <1>6
    <2> HIDE DEF p, k
    <2>2. /\ p \in Seq(RubricRow(V)) /\ DOMAIN p = DOMAIN mid /\ \A i \in DOMAIN mid \ {k} : p[i] = mid[i]
          /\ p[k].name = mid[k].name /\ p[k].criteria = criteria /\ p[k].status = mid[k].status
        BY <1>4, <1>5, <2>1, CriteriaWritten
    <2> QED
        BY <1>5, <2>2 DEF p, Ids
<1>8. DOMAIN requests' = Requesters /\ requests'[u] = done /\ \A v \in Requesters \ {u} : requests'[v] = requests[v]
    BY <1>1 DEF RubricsInv
<1>9. k \notin rewritten' => ~IsUsed(k) /\ ~copied
    <2> HIDE DEF copied
    <2> QED
        BY <1>1, <1>3
<1>10. rewritten \subseteq rewritten'
    <2> HIDE DEF copied
    <2> QED
        BY <1>1
<1>11. ASSUME NEW v \in Requesters
       PROVE  (RequestAgrees(requests[v]))'
    <2>1. CASE v = u
        BY <1>8, <2>1 DEF RequestAgrees, Idle, done
    <2>2. CASE v # u
        <3>1. RequestAgrees(requests[v]) /\ requests'[v] = requests[v]
            BY <1>8, <2>2 DEF RubricsInv
        <3>2. requests[v].act = "judge" /\ requests[v].rubric \notin rewritten' =>
                  requests[v].rubric # k /\ requests[v].rubric \notin rewritten
            BY <1>9, <1>10
        <3>3. \A i \in Ids : rubrics'[i].status = rubrics[i].status
            BY <1>7
        <3> QED
            BY <1>7, <3>1, <3>2, <3>3 DEF RequestAgrees
    <2> QED
        BY <2>1, <2>2
<1>12. ASSUME NEW n \in RubricNames \ disorder'
       PROVE  OneActive(n)'
    <2>1. n \notin disorder /\ (r.name # Untouched => r.name # n)
        BY <1>1, <1>12
    <2>2. rubrics'[k].name = n => rubrics[k].name = n
        BY <1>7, <2>1 DEF name
    <2>3. ActiveRubrics(n)' \subseteq ActiveRubrics(n)
        <3> SUFFICES ASSUME NEW i \in Ids, rubrics'[i].name = n, rubrics'[i].status = "ACTIVE"
                     PROVE  rubrics[i].name = n /\ rubrics[i].status = "ACTIVE"
            BY <1>7 DEF ActiveRubrics, Family
        <3> QED
            BY <1>7, <2>2
    <2> QED
        BY <2>1, <2>3 DEF RubricsInv, OneActive
<1>13. ASSUME NEW e \in judgedRuns
       PROVE  e.rubric \in Ids' /\ (e.rubric \notin rewritten' =>
                  rubrics'[e.rubric].name = e.name /\ rubrics'[e.rubric].criteria = e.criteria)
    <2>1. e.rubric \in Ids /\ (e.rubric \notin rewritten =>
              rubrics[e.rubric].name = e.name /\ rubrics[e.rubric].criteria = e.criteria)
        BY DEF RubricsInv
    <2>2. e.rubric \notin rewritten' => e.rubric # k /\ e.rubric \notin rewritten
        BY <1>9, <1>10 DEF IsUsed
    <2> QED
        BY <1>7, <2>1, <2>2
<1> QED
    BY <1>1, <1>7, <1>8, <1>11, <1>12, <1>13 DEF RubricsInv

LEMMA RubricsStart == RubricsInit => RubricsInv
<1> SUFFICES ASSUME RubricsInit
             PROVE  RubricsInv
    OBVIOUS
<1>1. rubrics = <<>> /\ judgedRuns = {} /\ requests = [u \in Requesters |-> Idle]
    BY DEF RubricsInit
<1>2. rubrics \in Seq(RubricRow({})) /\ Ids = {}
    BY <1>1 DEF Ids
<1>3. RequestAgrees(Idle)
    BY DEF RequestAgrees, Idle
<1>4. \A n : ActiveRubrics(n) = {}
    BY <1>2 DEF ActiveRubrics, Family
<1> QED
    BY <1>1, <1>2, <1>3, <1>4 DEF RubricsInv, OneActive

LEMMA RubricsPreserve == RubricsInv /\ [RubricsNext]_rubricVars => RubricsInv'
<1> SUFFICES ASSUME RubricsInv, [RubricsNext]_rubricVars
             PROVE  RubricsInv'
    OBVIOUS
<1>1. CASE RubricsNext
    BY <1>1, RequestsRead, RubricInserted, RubricUpdated, RunStored, RubricArchived DEF RubricsNext
<1>2. CASE UNCHANGED rubricVars
    <2>1. UNCHANGED <<rubrics, requests, judgedRuns, disorder, rewritten>>
        BY <1>2 DEF rubricVars
    <2> QED
        BY <2>1 DEF RubricsInv, RequestAgrees, OneActive, ActiveRubrics, Family, Ids
<1> QED
    BY <1>1, <1>2

(* However creations, edits, archivings and evaluations interleave, a family whose last
   creation saw all of it has at most one active version, and a rubric still says what
   the runs graded with it froze (RubricService.create, update and archive). *)
THEOREM RubricsStayVersioned == RubricsSpec => []RubricsAreVersioned
BY RubricsStart, RubricsPreserve, RubricsVersioned, PTL DEF RubricsSpec

-----------------------------------------------------------------------------
(* Judging.  A verdict is of an answer the judge gave. *)
VerdictOf(answer) == [score |-> answer.overall, passed |-> answer.overall >= Threshold]
Stages == {"queued", "model", "resolving", "judge", "ended", "dead", "abandoned"}
GradedRow ==
    [stage : Stages, outcome : {"", "judged", "provider_error", "evaluator_error", "timeout"},
     answer : JudgeAnswers \cup {""}, verdict : {NoVerdict} \cup {VerdictOf(a) : a \in JudgeAnswers},
     before : SUBSET Judged]

GradedFor(d, p, answer) ==
    /\ graded[d].stage = "ended" /\ graded[d].outcome = "judged"
    /\ PromptOf[d] = p /\ graded[d].verdict = VerdictOf(answer)

(* An answer in the cache was accepted and given to a case that shows it; a prompt
   that was judged is in the cache, so a case waits for the judge only if nobody
   had its prompt judged; what was judged stays as it is. *)
JudgingInv ==
    /\ graded \in [Judged -> GradedRow]
    /\ \A p \in DOMAIN judgeCache : /\ judgeCache[p] \in JudgeAnswers /\ Acceptable(judgeCache[p])
                                    /\ \E d \in Judged : GradedFor(d, p, judgeCache[p])
    /\ \A c \in Judged :
          /\ graded[c].stage = "ended" /\ graded[c].outcome = "judged" =>
                /\ Acceptable(graded[c].answer) /\ PromptOf[c] \in DOMAIN judgeCache
                /\ graded[c].before # {} => \E d \in graded[c].before :
                      /\ graded[d].stage = "ended" /\ graded[d].outcome = "judged"
                      /\ graded[d].verdict = graded[c].verdict
          /\ graded[c].stage \in {"resolving", "judge"} => graded[c].before = {}
    /\ stopOnError /\ (\E c \in EndedCases : graded[c].outcome # "judged")
          => \A c \in Judged : graded[c].stage # "queued"

LEMMA JudgedSo == JudgingInv => JudgedConsistently
BY DEF JudgingInv, JudgedConsistently, GradedRow

(* A case that was not judged moves on without a verdict, and perhaps others leave
   the queue: the cache and what was judged stay as they are. *)
LEMMA CasesMove ==
    ASSUME JudgingInv, graded' \in [Judged -> GradedRow], UNCHANGED <<stopOnError, judgeCache>>,
           \A c \in Judged : graded[c].stage = "ended" => graded'[c] = graded[c],
           \A c \in Judged : graded'[c].stage = "ended" /\ graded[c].stage # "ended" => graded'[c].outcome # "judged",
           \A c \in Judged : graded'[c].stage \in {"resolving", "judge"} => graded'[c].before = {},
           \A c \in Judged : graded'[c].stage = "queued" => graded[c].stage = "queued",
           (stopOnError /\ \E c \in Judged : graded'[c].stage = "ended" /\ graded[c].stage # "ended")
               => \A c \in Judged : graded'[c].stage # "queued"
    PROVE  JudgingInv'
<1>1. \A c \in Judged : graded'[c].stage = "ended" /\ graded'[c].outcome = "judged" =>
          graded[c].stage = "ended" /\ graded'[c] = graded[c]
    OBVIOUS
<1>2. \A p \in DOMAIN judgeCache : /\ judgeCache[p] \in JudgeAnswers /\ Acceptable(judgeCache[p])
                                   /\ \E d \in Judged : (GradedFor(d, p, judgeCache[p]))'
    <2> SUFFICES ASSUME NEW p \in DOMAIN judgeCache
                 PROVE  /\ judgeCache[p] \in JudgeAnswers /\ Acceptable(judgeCache[p])
                        /\ \E d \in Judged : (GradedFor(d, p, judgeCache[p]))'
        OBVIOUS
    <2>1. judgeCache[p] \in JudgeAnswers /\ Acceptable(judgeCache[p])
        BY DEF JudgingInv
    <2>2. PICK d \in Judged : GradedFor(d, p, judgeCache[p])
        BY DEF JudgingInv
    <2>3. (GradedFor(d, p, judgeCache[p]))'
        BY <2>2 DEF GradedFor
    <2> QED
        BY <2>1, <2>3
<1>3. ASSUME NEW c \in Judged, graded'[c].stage = "ended", graded'[c].outcome = "judged"
      PROVE  /\ Acceptable(graded'[c].answer) /\ PromptOf[c] \in DOMAIN judgeCache
             /\ graded'[c].before # {} => \E d \in graded'[c].before :
                   /\ graded'[d].stage = "ended" /\ graded'[d].outcome = "judged"
                   /\ graded'[d].verdict = graded'[c].verdict
    <2>1. graded'[c] = graded[c] /\ graded[c].stage = "ended" /\ graded[c].outcome = "judged"
        BY <1>1, <1>3
    <2>2. /\ Acceptable(graded[c].answer) /\ PromptOf[c] \in DOMAIN judgeCache
          /\ graded[c].before # {} => \E d \in graded[c].before :
                /\ graded[d].stage = "ended" /\ graded[d].outcome = "judged"
                /\ graded[d].verdict = graded[c].verdict
        BY <2>1 DEF JudgingInv
    <2>3. graded[c].before \subseteq Judged
        BY DEF JudgingInv, GradedRow
    <2> QED
        BY <2>1, <2>2, <2>3
<1>4. (stopOnError /\ (\E c \in EndedCases : graded[c].outcome # "judged"))'
          => \A c \in Judged : graded'[c].stage # "queued"
    <2>1. ASSUME stopOnError, NEW c \in Judged, graded'[c].stage = "ended", graded'[c].outcome # "judged"
          PROVE  \A d \in Judged : graded'[d].stage # "queued"
        <3>1. CASE graded[c].stage = "ended"
            BY <2>1, <3>1 DEF JudgingInv, EndedCases
        <3>2. CASE graded[c].stage # "ended"
            BY <2>1, <3>2
        <3> QED
            BY <3>1, <3>2
    <2> QED
        BY <2>1 DEF EndedCases
<1>5. \A x : (Acceptable(x))' <=> Acceptable(x)
    BY DEF Acceptable
<1> QED
    BY <1>2, <1>3, <1>4, <1>5 DEF JudgingInv

LEMMA StageWritten ==
    ASSUME graded \in [Judged -> GradedRow], NEW c \in Judged, NEW stage \in Stages, Set(c, stage)
    PROVE  /\ graded' \in [Judged -> GradedRow] /\ \A d \in Judged \ {c} : graded'[d] = graded[d]
           /\ graded'[c].stage = stage /\ graded'[c].outcome = graded[c].outcome /\ graded'[c].before = graded[c].before
<1>1. ASSUME NEW row \in GradedRow
      PROVE  LET new == [row EXCEPT !.stage = stage]
             IN new \in GradedRow /\ new.stage = stage /\ new.outcome = row.outcome /\ new.before = row.before
    BY DEF GradedRow
<1> DEFINE row == [graded[c] EXCEPT !.stage = stage]
<1>2. graded[c] \in GradedRow /\ graded' = [graded EXCEPT ![c] = row]
    BY DEF Set
<1>3. row \in GradedRow /\ row.stage = stage /\ row.outcome = graded[c].outcome /\ row.before = graded[c].before
    BY <1>1, <1>2, Zenon
<1> HIDE DEF row
<1> QED
    BY <1>2, <1>3

LEMMA StageMoves ==
    ASSUME JudgingInv, NEW c \in Judged, NEW stage \in {"model", "dead", "judge"}, Set(c, stage),
           graded[c].stage \notin {"ended"}, stage = "judge" => graded[c].before = {},
           UNCHANGED <<stopOnError, judgeCache>>
    PROVE  JudgingInv'
<1>1. graded \in [Judged -> GradedRow] /\ stage \in Stages
    BY DEF JudgingInv, Stages
<1>2. /\ graded' \in [Judged -> GradedRow] /\ \A d \in Judged \ {c} : graded'[d] = graded[d]
      /\ graded'[c].stage = stage /\ graded'[c].outcome = graded[c].outcome /\ graded'[c].before = graded[c].before
    BY <1>1, StageWritten
<1>3. \A d \in Judged : graded[d].stage \in {"resolving", "judge"} => graded[d].before = {}
    BY DEF JudgingInv
<1> QED
    BY <1>2, <1>3, CasesMove

LEMMA CaseEnds ==
    ASSUME JudgingInv, NEW c \in Judged, NEW outcome \in {"provider_error", "evaluator_error", "timeout"},
           EndCase(c, outcome), graded[c].stage \in {"model", "resolving", "judge"},
           UNCHANGED <<stopOnError, judgeCache>>
    PROVE  JudgingInv'
<1>1. /\ graded \in [Judged -> GradedRow]
      /\ \A d \in Judged : graded[d].stage \in {"resolving", "judge"} => graded[d].before = {}
    BY DEF JudgingInv
<1>2. ASSUME NEW row \in GradedRow
      PROVE  /\ LET new == [row EXCEPT !.stage = "ended", !.outcome = outcome]
                IN new \in GradedRow /\ new.stage = "ended" /\ new.outcome = outcome
             /\ LET new == [row EXCEPT !.stage = "abandoned"]
                IN new \in GradedRow /\ new.stage = "abandoned"
    <2>1. LET new == [row EXCEPT !.stage = "ended", !.outcome = outcome]
          IN new \in GradedRow /\ new.stage = "ended" /\ new.outcome = outcome
        BY DEF GradedRow, Stages
    <2>2. LET new == [row EXCEPT !.stage = "abandoned"]
          IN new \in GradedRow /\ new.stage = "abandoned"
        BY DEF GradedRow, Stages
    <2> QED
        BY <2>1, <2>2
<1> DEFINE ended == [graded[c] EXCEPT !.stage = "ended", !.outcome = outcome]
           left(d) == [graded[d] EXCEPT !.stage = "abandoned"]
<1>3. graded' = [d \in Judged |-> CASE d = c -> ended
                    [] stopOnError /\ outcome # "judged" /\ graded[d].stage = "queued" -> left(d)
                    [] OTHER -> graded[d]]
    BY DEF EndCase
<1>4. ended \in GradedRow /\ ended.stage = "ended" /\ ended.outcome = outcome
      /\ \A d \in Judged : left(d) \in GradedRow /\ left(d).stage = "abandoned"
    BY <1>1, <1>2, Zenon
<1> HIDE DEF ended, left
<1>5. DOMAIN graded' = Judged
    BY <1>3
<1>6. graded'[c] = ended
    BY <1>3, Zenon
<1>7. ASSUME NEW d \in Judged \ {c}
      PROVE  IF stopOnError /\ graded[d].stage = "queued" THEN graded'[d] = left(d) ELSE graded'[d] = graded[d]
    <2>1. d \in Judged /\ d # c /\ outcome # "judged"
        OBVIOUS
    <2>2. graded'[d] = CASE d = c -> ended
                    [] stopOnError /\ outcome # "judged" /\ graded[d].stage = "queued" -> left(d)
                    [] OTHER -> graded[d]
        BY <1>3, <2>1, Zenon
    <2>3. CASE stopOnError /\ graded[d].stage = "queued"
        BY <2>1, <2>2, <2>3, Zenon
    <2>4. CASE ~(stopOnError /\ graded[d].stage = "queued")
        <3>1. ~(stopOnError /\ outcome # "judged" /\ graded[d].stage = "queued")
            BY <2>4
        <3> QED
            BY <2>1, <2>2, <2>4, <3>1
    <2> QED
        BY <2>3, <2>4
<1>8. graded' \in [Judged -> GradedRow]
    <2>1. \A d \in Judged : graded'[d] \in GradedRow
        BY <1>1, <1>4, <1>6, <1>7
    <2>2. graded' = [d \in Judged |-> graded'[d]]
        BY <1>3, Zenon
    <2> QED
        BY <2>1, <2>2
<1>9. \A d \in Judged : graded[d].stage = "ended" => graded'[d] = graded[d]
    BY <1>6, <1>7
<1>10. \A d \in Judged : graded'[d].stage = "ended" /\ graded[d].stage # "ended" => graded'[d].outcome # "judged"
    BY <1>4, <1>6, <1>7
<1>11. \A d \in Judged : graded'[d].stage \in {"resolving", "judge"} => graded'[d].before = {}
    BY <1>1, <1>4, <1>6, <1>7
<1>12. \A d \in Judged : graded'[d].stage = "queued" => graded[d].stage = "queued" /\ ~stopOnError
    BY <1>4, <1>6, <1>7
<1> QED
    BY <1>8, <1>9, <1>10, <1>11, <1>12, CasesMove

(* A case gets a verdict of an answer that is in the cache by then. *)
LEMMA CaseGraded ==
    ASSUME JudgingInv, NEW c \in Judged, NEW answer \in JudgeAnswers, NEW before \in SUBSET Judged,
           Acceptable(answer), Grade(c, answer, before), graded[c].stage # "ended",
           PromptOf[c] \in DOMAIN judgeCache', judgeCache'[PromptOf[c]] = answer,
           DOMAIN judgeCache \subseteq DOMAIN judgeCache',
           \A p \in DOMAIN judgeCache' : p # PromptOf[c] => p \in DOMAIN judgeCache /\ judgeCache'[p] = judgeCache[p],
           before # {} => \E d \in before : /\ graded[d].stage = "ended" /\ graded[d].outcome = "judged"
                                            /\ graded[d].verdict = VerdictOf(answer),
           UNCHANGED stopOnError
    PROVE  JudgingInv'
<1> DEFINE row == [stage |-> "ended", outcome |-> "judged", answer |-> answer, before |-> before,
                   verdict |-> [score |-> answer.overall, passed |-> answer.overall >= Threshold]]
<1>1. graded' = [graded EXCEPT ![c] = row]
    BY DEF Grade
<1>2. graded \in [Judged -> GradedRow]
    BY DEF JudgingInv
<1>3. row \in GradedRow /\ row.stage = "ended" /\ row.outcome = "judged" /\ row.answer = answer
      /\ row.before = before /\ row.verdict = VerdictOf(answer)
    <2> DEFINE verdict == VerdictOf(answer)
    <2>1. row = [stage |-> "ended", outcome |-> "judged", answer |-> answer, before |-> before, verdict |-> verdict]
        BY DEF VerdictOf
    <2>2. verdict \in {VerdictOf(a) : a \in JudgeAnswers}
        OBVIOUS
    <2> HIDE DEF verdict, row
    <2> QED
        BY <2>1, <2>2 DEF GradedRow, Stages, verdict
<1> HIDE DEF row
<1>4. graded' \in [Judged -> GradedRow] /\ graded'[c] = row /\ \A d \in Judged \ {c} : graded'[d] = graded[d]
    BY <1>1, <1>2, <1>3
<1>5. \A x : (Acceptable(x))' <=> Acceptable(x)
    BY DEF Acceptable
<1>6. ASSUME NEW p \in DOMAIN judgeCache'
      PROVE  /\ judgeCache'[p] \in JudgeAnswers /\ Acceptable(judgeCache'[p])
             /\ \E d \in Judged : (GradedFor(d, p, judgeCache[p]))'
    <2>1. CASE p = PromptOf[c]
        <3>1. (GradedFor(c, p, judgeCache[p]))'
            BY <1>3, <1>4, <2>1 DEF GradedFor, VerdictOf
        <3> QED
            BY <2>1, <3>1
    <2>2. CASE p # PromptOf[c]
        <3>1. p \in DOMAIN judgeCache /\ judgeCache'[p] = judgeCache[p]
            BY <2>2
        <3>2. PICK d \in Judged : GradedFor(d, p, judgeCache[p])
            BY <3>1 DEF JudgingInv
        <3>3. d # c
            BY <3>2 DEF GradedFor
        <3>4. (GradedFor(d, p, judgeCache[p]))'
            BY <1>4, <3>1, <3>2, <3>3 DEF GradedFor, VerdictOf
        <3> QED
            BY <3>1, <3>4 DEF JudgingInv
    <2> QED
        BY <2>1, <2>2
<1>7. ASSUME NEW b \in Judged, graded'[b].stage = "ended", graded'[b].outcome = "judged"
      PROVE  /\ Acceptable(graded'[b].answer) /\ PromptOf[b] \in DOMAIN judgeCache'
             /\ graded'[b].before # {} => \E d \in graded'[b].before :
                   /\ graded'[d].stage = "ended" /\ graded'[d].outcome = "judged"
                   /\ graded'[d].verdict = graded'[b].verdict
    <2>1. CASE b = c
        BY <1>3, <1>4, <2>1
    <2>2. CASE b # c
        <3>1. /\ graded'[b] = graded[b] /\ Acceptable(graded[b].answer) /\ PromptOf[b] \in DOMAIN judgeCache
              /\ graded[b].before # {} => \E d \in graded[b].before :
                    /\ graded[d].stage = "ended" /\ graded[d].outcome = "judged"
                    /\ graded[d].verdict = graded[b].verdict
            BY <1>4, <1>7, <2>2 DEF JudgingInv
        <3>2. graded[b].before \subseteq Judged
            BY <1>2 DEF GradedRow
        <3> QED
            BY <1>4, <3>1, <3>2
    <2> QED
        BY <2>1, <2>2
<1>8. \A b \in Judged : graded'[b].stage \in {"resolving", "judge"} => graded'[b].before = {}
    BY <1>3, <1>4 DEF JudgingInv
<1>9. (stopOnError /\ (\E b \in EndedCases : graded[b].outcome # "judged"))' => \A b \in Judged : graded'[b].stage # "queued"
    <2>1. ASSUME stopOnError, NEW b \in Judged, graded'[b].stage = "ended", graded'[b].outcome # "judged"
          PROVE  \A d \in Judged : graded'[d].stage # "queued"
        <3>1. b # c /\ graded[b].stage = "ended" /\ graded[b].outcome # "judged"
            BY <1>3, <1>4, <2>1
        <3>2. \A d \in Judged : graded[d].stage # "queued"
            BY <2>1, <3>1 DEF JudgingInv, EndedCases
        <3> QED
            BY <1>3, <1>4, <3>2
    <2> QED
        BY <2>1 DEF EndedCases
<1> QED
    BY <1>4, <1>5, <1>6, <1>7, <1>8, <1>9 DEF JudgingInv

LEMMA CaseAnswered ==
    ASSUME JudgingInv, NEW c \in Judged, ModelAnswers(c)
    PROVE  JudgingInv'
<1> DEFINE p == PromptOf[c]
           seen == {d \in EndedCases : PromptOf[d] = p /\ graded[d].outcome = "judged"}
<1>1. /\ graded[c].stage = "model"
      /\ \/ EndCase(c, "provider_error") /\ UNCHANGED <<stopOnError, judgeCache, attempt>>
         \/ TaskDies(c)
         \/ /\ IF p \in DOMAIN judgeCache THEN Grade(c, judgeCache[p], seen)
               ELSE graded' = [graded EXCEPT ![c].before = seen, ![c].stage = "resolving"]
            /\ UNCHANGED <<stopOnError, judgeCache, attempt>>
    BY DEF ModelAnswers
<1>2. CASE EndCase(c, "provider_error") /\ UNCHANGED <<stopOnError, judgeCache, attempt>>
    BY <1>1, <1>2, CaseEnds
<1>3. CASE TaskDies(c)
    BY <1>1, <1>3, StageMoves DEF TaskDies
<1>4. CASE p \in DOMAIN judgeCache /\ Grade(c, judgeCache[p], seen) /\ UNCHANGED <<stopOnError, judgeCache, attempt>>
    <2>1. judgeCache[p] \in JudgeAnswers /\ Acceptable(judgeCache[p])
        BY <1>4 DEF JudgingInv
    <2>2. PICK d \in Judged : GradedFor(d, p, judgeCache[p])
        BY <1>4 DEF JudgingInv
    <2>3. PICK answer \in JudgeAnswers, before \in SUBSET Judged : answer = judgeCache[p] /\ before = seen
        BY <2>1 DEF EndedCases
    <2>4. d \in before /\ graded[d].stage = "ended" /\ graded[d].outcome = "judged" /\ graded[d].verdict = VerdictOf(answer)
        BY <2>2, <2>3 DEF GradedFor, EndedCases
    <2>5. Grade(c, answer, before) /\ Acceptable(answer) /\ judgeCache' = judgeCache /\ stopOnError' = stopOnError
        BY <1>4, <2>1, <2>3
    <2>6. \E x \in before : graded[x].stage = "ended" /\ graded[x].outcome = "judged" /\ graded[x].verdict = VerdictOf(answer)
        BY <2>4
    <2>7. p \in DOMAIN judgeCache /\ judgeCache[p] = answer /\ p = PromptOf[c]
        BY <1>4, <2>3
    <2> HIDE DEF p, seen
    <2> QED
        BY <1>1, <2>5, <2>6, <2>7, CaseGraded
<1>5. CASE /\ p \notin DOMAIN judgeCache /\ graded' = [graded EXCEPT ![c].before = seen, ![c].stage = "resolving"]
           /\ UNCHANGED <<stopOnError, judgeCache, attempt>>
    <2>1. seen = {}
        BY <1>5 DEF JudgingInv, EndedCases
    <2>2. ASSUME NEW row \in GradedRow
          PROVE  LET new == [row EXCEPT !.before = {}, !.stage = "resolving"]
                 IN new \in GradedRow /\ new.stage = "resolving" /\ new.before = {}
        BY DEF GradedRow, Stages
    <2> DEFINE row == [graded[c] EXCEPT !.before = {}, !.stage = "resolving"]
    <2>3. graded \in [Judged -> GradedRow] /\ \A d \in Judged : graded[d].stage \in {"resolving", "judge"} => graded[d].before = {}
        BY DEF JudgingInv
    <2> HIDE DEF seen
    <2>4. graded' = [graded EXCEPT ![c] = row]
        BY <1>5, <2>1, <2>3
    <2>5. row \in GradedRow /\ row.stage = "resolving" /\ row.before = {}
        BY <2>2, <2>3, Zenon
    <2> HIDE DEF row
    <2>6. graded' \in [Judged -> GradedRow] /\ graded'[c] = row /\ \A d \in Judged \ {c} : graded'[d] = graded[d]
        BY <2>3, <2>4, <2>5
    <2> QED
        BY <1>1, <1>5, <2>3, <2>5, <2>6, CasesMove
<1> QED
    BY <1>1, <1>2, <1>3, <1>4, <1>5

LEMMA CaseReplied ==
    ASSUME JudgingInv, NEW c \in Judged, JudgeReplies(c)
    PROVE  JudgingInv'
<1>1. graded[c].stage = "judge" /\ graded[c].before = {}
    BY DEF JudgeReplies, JudgingInv
<1>2. ASSUME NEW o \in {"timeout", "provider_error"}, EndCase(c, o), UNCHANGED <<stopOnError, judgeCache, attempt>>
      PROVE  JudgingInv'
    BY <1>1, <1>2, CaseEnds
<1>3. CASE TaskDies(c)
    BY <1>1, <1>3, StageMoves DEF TaskDies
<1>4. ASSUME NEW answer \in JudgeAnswers, Acceptable(answer), Keep(c, answer), UNCHANGED stopOnError
      PROVE  JudgingInv'
    <2>1. /\ judgeCache' = [p \in DOMAIN judgeCache \cup {PromptOf[c]} |->
                               IF p = PromptOf[c] THEN answer ELSE judgeCache[p]]
          /\ Grade(c, answer, {})
        BY <1>1, <1>4 DEF Keep
    <2>2. PromptOf[c] \in DOMAIN judgeCache' /\ judgeCache'[PromptOf[c]] = answer
        BY <2>1
    <2>3. /\ DOMAIN judgeCache \subseteq DOMAIN judgeCache'
          /\ \A p \in DOMAIN judgeCache' : p # PromptOf[c] => p \in DOMAIN judgeCache /\ judgeCache'[p] = judgeCache[p]
        BY <2>1
    <2> QED
        BY <1>1, <1>4, <2>1, <2>2, <2>3, CaseGraded
<1>5. CASE EndCase(c, "evaluator_error") /\ UNCHANGED <<stopOnError, judgeCache, attempt>>
    BY <1>1, <1>5, CaseEnds
<1> QED
    BY <1>2, <1>3, <1>4, <1>5 DEF JudgeReplies

LEMMA JudgingStarts == JudgingInit => JudgingInv
<1> SUFFICES ASSUME JudgingInit
             PROVE  JudgingInv
    OBVIOUS
<1>1. graded = [c \in Judged |-> Queued] /\ judgeCache = <<>>
    BY DEF JudgingInit
<1>2. Queued \in GradedRow /\ Queued.stage = "queued"
    BY DEF Queued, GradedRow, Stages
<1>3. graded \in [Judged -> GradedRow] /\ DOMAIN judgeCache = {} /\ \A c \in Judged : graded[c].stage = "queued"
    BY <1>1, <1>2
<1> QED
    BY <1>3 DEF JudgingInv, EndedCases

LEMMA JudgingPreserves == JudgingInv /\ [JudgingNext]_judgeVars => JudgingInv'
<1> SUFFICES ASSUME JudgingInv, [JudgingNext]_judgeVars
             PROVE  JudgingInv'
    OBVIOUS
<1>1. ASSUME NEW c \in Judged, TakeCase(c)
      PROVE  JudgingInv'
    BY <1>1, StageMoves DEF TakeCase
<1>2. ASSUME NEW c \in Judged, ResolveProvider(c)
      PROVE  JudgingInv'
    <2>1. graded[c].stage = "resolving" /\ graded[c].before = {}
        BY <1>2 DEF ResolveProvider, JudgingInv
    <2>2. CASE Set(c, "judge") /\ UNCHANGED <<stopOnError, judgeCache, attempt>>
        BY <2>1, <2>2, StageMoves
    <2>3. CASE EndCase(c, "evaluator_error") /\ UNCHANGED <<stopOnError, judgeCache, attempt>>
        BY <2>1, <2>3, CaseEnds
    <2>4. CASE TaskDies(c)
        BY <2>1, <2>4, StageMoves DEF TaskDies
    <2> QED
        BY <1>2, <2>2, <2>3, <2>4 DEF ResolveProvider
<1>3. CASE UNCHANGED judgeVars
    <2>1. UNCHANGED <<stopOnError, graded, judgeCache, attempt>>
        BY <1>3 DEF judgeVars
    <2>2. graded \in [Judged -> GradedRow] /\ \A d \in Judged : graded[d].stage \in {"resolving", "judge"} => graded[d].before = {}
        BY DEF JudgingInv
    <2> QED
        BY <2>1, <2>2, CasesMove
<1> QED
    BY <1>1, <1>2, <1>3, CaseAnswered, CaseReplied DEF JudgingNext

(* However the tasks of an attempt interleave, a verdict is of an acceptable answer,
   cases whose prompt was judged before they got there are graded alike, and an error
   that stops the run leaves no case to start (_execute_test_cases, JudgeCache). *)
THEOREM VerdictsConsistent == JudgingSpec => []JudgedConsistently
BY JudgingStarts, JudgingPreserves, JudgedSo, PTL DEF JudgingSpec

-----------------------------------------------------------------------------
(* Calls to a model. *)
Healths == {"UNTESTED", "healthy", "degraded", "unavailable"}
CallRow == [stage : {"idle", "calling", "answered", "ended", "dead"}, kind : {"", "invoke", "test"},
            mode : LocalModes \cup {""}, health : Healths \cup {""}, answers : Seq(Answers), orphan : BOOLEAN]
RecordRow == [by : ModelCallers, result : {"success"} \cup {Category(a) : a \in Answers}]

CallsTyped ==
    /\ provider.mode \in LocalModes
    /\ provider \in [local : BOOLEAN, mode : LocalModes, version : Int, connection : {"UNTESTED", "CONNECTED", "UNKNOWN"}]
    /\ model \in [there : BOOLEAN, health : Healths]
    /\ modelCalls \in [ModelCallers -> CallRow] /\ rotations \in [Rotators -> Int]
    /\ invocations \in Seq(RecordRow)

AllTransient(answers, n) == \A i \in 1 .. n : answers[i] # "200" /\ Category(answers[i]) \in Transient

(* The last answer of a call, what was allowed and the record: see InvocationsTold. *)
Told(c, call) ==
    LET last == Last(call.answers)
    IN /\ Len(call.answers) <= MaxRetries(call.kind) + 1
       /\ AllTransient(call.answers, Len(call.answers) - 1)
       /\ IsError(last) /\ Category(last) \in Transient => Len(call.answers) = MaxRetries(call.kind) + 1
       /\ IF call.kind = "invoke" /\ last # "garbage" /\ ~call.orphan
          THEN \E i \in RecordsOf(c) :
                  /\ RecordsOf(c) = {i}
                  /\ invocations[i].result = IF last = "200" THEN "success" ELSE Category(last)
          ELSE RecordsOf(c) = {}

(* A call that goes on has had transient errors only, within what is allowed, and
   has no record yet. *)
CallAgrees(c, call) ==
    /\ call.stage = "idle" => RecordsOf(c) = {}
    /\ call.stage = "calling" =>
          /\ RecordsOf(c) = {} /\ AllTransient(call.answers, Len(call.answers))
          /\ Len(call.answers) <= MaxRetries(call.kind) /\ call.mode \in LocalModes /\ call.kind # ""
    /\ call.stage = "answered" =>
          /\ RecordsOf(c) = {} /\ AllTransient(call.answers, Len(call.answers) - 1)
          /\ Len(call.answers) \in 1 .. MaxRetries(call.kind) + 1 /\ call.mode \in LocalModes /\ call.kind # ""
    /\ call.stage = "ended" => Told(c, call)

CallsInv == CallsTyped /\ \A c \in ModelCallers : CallAgrees(c, modelCalls[c])

LEMMA CallsTold == CallsInv => InvocationsTold
BY DEF CallsInv, CallAgrees, Told, AllTransient, InvocationsTold

(* Answers as the record of a call takes them. *)
LEMMA AnswerAdded ==
    ASSUME NEW call \in CallRow, NEW a \in Answers
    PROVE  LET new == [call EXCEPT !.answers = Append(call.answers, a), !.stage = "answered"]
           IN /\ new \in CallRow /\ new.kind = call.kind /\ new.mode = call.mode /\ new.stage = "answered"
              /\ new.answers = Append(call.answers, a)
<1>1. call.answers \in Seq(Answers)
    BY DEF CallRow
<1> DEFINE answers == Append(call.answers, a)
<1>2. answers \in Seq(Answers)
    BY <1>1
<1> HIDE DEF answers
<1>3. LET new == [call EXCEPT !.answers = answers, !.stage = "answered"]
      IN new \in CallRow /\ new.kind = call.kind /\ new.mode = call.mode /\ new.stage = "answered" /\ new.answers = answers
    BY <1>2 DEF CallRow
<1> QED
    BY <1>3 DEF answers

LEMMA CallStaged ==
    ASSUME NEW call \in CallRow, NEW stage \in {"calling", "ended", "dead"}
    PROVE  LET new == [call EXCEPT !.stage = stage]
           IN /\ new \in CallRow /\ new.kind = call.kind /\ new.mode = call.mode /\ new.stage = stage
              /\ new.answers = call.answers /\ new.orphan = call.orphan
BY DEF CallRow

LEMMA CallEnded ==
    ASSUME NEW call \in CallRow, NEW orphan \in BOOLEAN
    PROVE  LET new == [call EXCEPT !.stage = "ended", !.orphan = orphan]
           IN /\ new \in CallRow /\ new.kind = call.kind /\ new.stage = "ended"
              /\ new.answers = call.answers /\ new.orphan = orphan
BY DEF CallRow

LEMMA Recorded ==
    ASSUME invocations \in Seq(RecordRow), NEW row \in RecordRow, invocations' = Append(invocations, row)
    PROVE  /\ invocations' \in Seq(RecordRow)
           /\ \A c : c # row.by => (RecordsOf(c))' = RecordsOf(c) /\ \A i \in RecordsOf(c) : invocations'[i] = invocations[i]
           /\ \A c : c = row.by /\ RecordsOf(c) = {} =>
                 /\ Len(invocations) + 1 \in (RecordsOf(c))' /\ (RecordsOf(c))' = {Len(invocations) + 1}
                 /\ invocations'[Len(invocations) + 1] = row
<1> DEFINE k == Len(invocations) + 1
<1>1. /\ invocations' \in Seq(RecordRow) /\ DOMAIN invocations' = 1 .. k /\ DOMAIN invocations = 1 .. Len(invocations)
      /\ Len(invocations) \in Nat /\ invocations'[k] = row /\ \A i \in 1 .. Len(invocations) : invocations'[i] = invocations[i]
    OBVIOUS
<1>2. \A i \in DOMAIN invocations : i \in DOMAIN invocations' /\ invocations'[i] = invocations[i]
    BY <1>1
<1>3. k \in DOMAIN invocations' /\ \A i \in DOMAIN invocations' : i \in DOMAIN invocations \/ i = k
    BY <1>1
<1>4. k \notin DOMAIN invocations
    BY <1>1
<1> HIDE DEF k
<1>5. \A c : c # row.by => (RecordsOf(c))' = RecordsOf(c)
    BY <1>1, <1>2, <1>3 DEF RecordsOf
<1>6. \A c : c = row.by /\ RecordsOf(c) = {} => (RecordsOf(c))' = {k}
    BY <1>1, <1>2, <1>3 DEF RecordsOf
<1>7. \A c : \A i \in RecordsOf(c) : invocations'[i] = invocations[i]
    BY <1>2 DEF RecordsOf
<1> QED
    BY <1>1, <1>5, <1>6, <1>7 DEF k

(* A call keeps agreeing while its records stay. *)
LEMMA CallStays ==
    ASSUME NEW c, NEW call, CallAgrees(c, call), (RecordsOf(c))' = RecordsOf(c),
           \A i \in RecordsOf(c) : invocations'[i] = invocations[i]
    PROVE  (CallAgrees(c, call))'
<1>1. Told(c, call) => (Told(c, call))'
    BY DEF Told
<1> QED
    BY <1>1 DEF CallAgrees

LEMMA CallTurns ==
    ASSUME CallsInv, NEW c \in ModelCallers, NEW row \in CallRow, modelCalls' = [modelCalls EXCEPT ![c] = row],
           CallAgrees(c, row), UNCHANGED <<provider, model, rotations, invocations>>
    PROVE  CallsInv'
<1>1. /\ modelCalls' \in [ModelCallers -> CallRow] /\ modelCalls'[c] = row
      /\ \A d \in ModelCallers \ {c} : modelCalls'[d] = modelCalls[d]
    BY DEF CallsInv, CallsTyped
<1>2. CallsTyped'
    BY <1>1 DEF CallsInv, CallsTyped
<1>3. \A d : (RecordsOf(d))' = RecordsOf(d)
    BY DEF RecordsOf
<1>4. ASSUME NEW d \in ModelCallers
      PROVE  (CallAgrees(d, modelCalls[d]))'
    <2>1. PICK call : call = modelCalls'[d]
        OBVIOUS
    <2>2. CallAgrees(d, call)
        BY <1>1, <2>1 DEF CallsInv
    <2>3. (CallAgrees(d, call))'
        BY <1>3, <2>2, CallStays
    <2> QED
        BY <2>1, <2>3
<1> QED
    BY <1>2, <1>4 DEF CallsInv

LEMMA CallStarted ==
    ASSUME CallsInv, NEW c \in ModelCallers, StartCall(c)
    PROVE  CallsInv'
<1>1. PICK kind \in {"invoke", "test"} :
          modelCalls' = [modelCalls EXCEPT ![c] =
              [NoCall EXCEPT !.stage = "calling", !.kind = kind, !.mode = provider.mode, !.health = model.health]]
    BY DEF StartCall
<1> DEFINE row == [NoCall EXCEPT !.stage = "calling", !.kind = kind, !.mode = provider.mode, !.health = model.health]
<1>2. provider.mode \in LocalModes /\ model.health \in Healths
    BY DEF CallsInv, CallsTyped
<1>3. row \in CallRow /\ row.stage = "calling" /\ row.answers = <<>> /\ row.kind = kind /\ row.mode \in LocalModes
    <2>1. PICK mode \in LocalModes, health \in Healths : mode = provider.mode /\ health = model.health
        BY <1>2
    <2>2. ASSUME NEW r \in CallRow
          PROVE  LET new == [r EXCEPT !.stage = "calling", !.kind = kind, !.mode = mode, !.health = health]
                 IN new \in CallRow /\ new.stage = "calling" /\ new.kind = kind /\ new.mode = mode /\ new.answers = r.answers
        BY DEF CallRow
    <2>3. NoCall \in CallRow /\ NoCall.answers = <<>>
        <3>1. <<>> \in Seq(Answers)
            OBVIOUS
        <3> QED
            BY <3>1 DEF NoCall, CallRow
    <2>4. row = [NoCall EXCEPT !.stage = "calling", !.kind = kind, !.mode = mode, !.health = health]
        BY <2>1
    <2> HIDE DEF row
    <2> QED
        BY <2>1, <2>2, <2>3, <2>4, Zenon
<1>4. modelCalls' = [modelCalls EXCEPT ![c] = row]
    BY <1>1
<1> HIDE DEF row
<1>5. RecordsOf(c) = {} /\ MaxRetries(kind) \in Nat
    BY ModelCallsAssumption DEF StartCall, CallsInv, CallAgrees, MaxRetries
<1>7. Len(row.answers) = 0 /\ row.kind # "" /\ MaxRetries(row.kind) \in Nat
    BY <1>1, <1>3, <1>5
<1>9. AllTransient(row.answers, 0)
    BY DEF AllTransient
<1>8. AllTransient(row.answers, Len(row.answers)) /\ Len(row.answers) <= MaxRetries(row.kind)
    <2>1. PICK n : n = Len(row.answers)
        OBVIOUS
    <2>2. PICK m \in Nat : m = MaxRetries(row.kind)
        BY <1>7
    <2>4. n = 0
        BY <1>7, <2>1
    <2>3. AllTransient(row.answers, n) /\ n <= m
        BY <1>9, <2>2, <2>4
    <2> QED
        BY <2>1, <2>2, <2>3
<1>6. CallAgrees(c, row)
    BY <1>3, <1>5, <1>7, <1>8 DEF CallAgrees
<1> QED
    BY <1>3, <1>4, <1>6, CallTurns DEF StartCall

LEMMA CallAnswered ==
    ASSUME CallsInv, NEW c \in ModelCallers, Answer(c)
    PROVE  CallsInv'
<1> DEFINE call == modelCalls[c]
<1>1. call.stage = "calling" /\ call \in CallRow /\ UNCHANGED <<provider, model, rotations, invocations>>
    BY DEF Answer, CallsInv, CallsTyped
<1>2. PICK a \in IF provider.local THEN {call.mode} ELSE Answers :
          modelCalls' = [modelCalls EXCEPT ![c].answers = Append(@, a), ![c].stage = "answered"]
    BY DEF Answer
<1>3. /\ RecordsOf(c) = {} /\ AllTransient(call.answers, Len(call.answers))
      /\ Len(call.answers) <= MaxRetries(call.kind) /\ call.mode \in LocalModes /\ call.kind # ""
    BY <1>1 DEF CallsInv, CallAgrees
<1>4. a \in Answers
    BY <1>2, <1>3 DEF LocalModes, Answers
<1> DEFINE row == [call EXCEPT !.answers = Append(call.answers, a), !.stage = "answered"]
<1>5. /\ row \in CallRow /\ row.kind = call.kind /\ row.mode = call.mode /\ row.stage = "answered"
      /\ row.answers = Append(call.answers, a)
    <2> HIDE DEF call
    <2> QED
        BY <1>1, <1>4, AnswerAdded, Zenon
<1>6. modelCalls' = [modelCalls EXCEPT ![c] = row]
    BY <1>2 DEF CallsInv, CallsTyped
<1>7. /\ Len(row.answers) = Len(call.answers) + 1 /\ Len(call.answers) \in Nat
      /\ \A i \in 1 .. Len(call.answers) : row.answers[i] = call.answers[i]
    <2>1. call.answers \in Seq(Answers)
        BY <1>1 DEF CallRow
    <2> HIDE DEF row, call
    <2> QED
        BY <1>4, <1>5, <2>1
<1> HIDE DEF row, call
<1>8. MaxRetries(call.kind) \in Nat
    BY ModelCallsAssumption DEF MaxRetries
<1>9. AllTransient(row.answers, Len(row.answers) - 1)
    <2>1. Len(row.answers) - 1 = Len(call.answers)
        BY <1>7
    <2> QED
        BY <1>3, <1>7, <2>1 DEF AllTransient
<1>10. Len(row.answers) \in 1 .. MaxRetries(row.kind) + 1
    <2>1. Len(call.answers) <= MaxRetries(call.kind) /\ row.kind = call.kind
        BY <1>3, <1>5
    <2> QED
        BY <1>7, <1>8, <2>1
<1>11. CallAgrees(c, row)
    BY <1>3, <1>5, <1>9, <1>10 DEF CallAgrees
<1> QED
    BY <1>1, <1>5, <1>6, <1>11, CallTurns

LEMMA CallRetried ==
    ASSUME CallsInv, NEW c \in ModelCallers, Retry(c)
    PROVE  CallsInv'
<1> DEFINE call == modelCalls[c]
           row == [call EXCEPT !.stage = "calling"]
<1>1. /\ call.stage = "answered" /\ call \in CallRow /\ modelCalls' = [modelCalls EXCEPT ![c] = row]
      /\ UNCHANGED <<provider, model, rotations, invocations>>
    BY DEF Retry, CallsInv, CallsTyped
<1>2. /\ IsError(Last(call.answers)) /\ Category(Last(call.answers)) \in Transient
      /\ Len(call.answers) <= MaxRetries(call.kind)
    BY DEF Retry, MayRetry
<1>3. /\ RecordsOf(c) = {} /\ AllTransient(call.answers, Len(call.answers) - 1)
      /\ Len(call.answers) \in 1 .. MaxRetries(call.kind) + 1 /\ call.mode \in LocalModes /\ call.kind # ""
    BY <1>1 DEF CallsInv, CallAgrees
<1>4. row \in CallRow /\ row.kind = call.kind /\ row.mode = call.mode /\ row.stage = "calling" /\ row.answers = call.answers
    <2> HIDE DEF call
    <2> QED
        BY <1>1, CallStaged, Zenon
<1>5. Last(call.answers) # "200" /\ Last(call.answers) = call.answers[Len(call.answers)]
    BY <1>2 DEF IsError, Last
<1> HIDE DEF row, call
<1>6. AllTransient(call.answers, Len(call.answers))
    <2>3. call.answers \in Seq(Answers)
        BY <1>1 DEF CallRow
    <2>1. PICK n \in Nat : n = Len(call.answers)
        BY <2>3
    <2>2. \A i \in 1 .. n : i \in 1 .. n - 1 \/ i = n
        BY <2>1
    <2> QED
        BY <1>2, <1>3, <1>5, <2>1, <2>2 DEF AllTransient
<1>7. CallAgrees(c, row)
    BY <1>2, <1>3, <1>4, <1>6 DEF CallAgrees
<1> QED
    BY <1>1, <1>4, <1>7, CallTurns

LEMMA HealthWritten ==
    ASSUME model \in [there : BOOLEAN, health : Healths], NEW c, NEW found \in Healths
    PROVE  WithHealth(c, found) \in [there : BOOLEAN, health : Healths]
BY DEF WithHealth

(* Where a call that ends leaves its record. *)
LEMMA CallRecorded ==
    ASSUME CallsInv, NEW c \in ModelCallers, EndCall(c)
    PROVE  /\ invocations' \in Seq(RecordRow) /\ model' \in [there : BOOLEAN, health : Healths]
           /\ \A d \in ModelCallers \ {c} : /\ (RecordsOf(d))' = RecordsOf(d)
                                            /\ \A i \in RecordsOf(d) : invocations'[i] = invocations[i]
           /\ LET last == Last(modelCalls[c].answers)
              IN IF modelCalls[c].kind = "invoke" /\ last # "garbage" /\ model.there
                 THEN \E i \in (RecordsOf(c))' :
                         /\ (RecordsOf(c))' = {i}
                         /\ invocations'[i].result = IF last = "200" THEN "success" ELSE Category(last)
                 ELSE (RecordsOf(c))' = {}
<1> DEFINE call == modelCalls[c]
           last == Last(call.answers)
<1>1. /\ call.stage = "answered" /\ call \in CallRow /\ CallsTyped /\ CallAgrees(c, call)
    BY DEF EndCall, CallsInv, CallsTyped
<1>2. /\ invocations \in Seq(RecordRow) /\ model \in [there : BOOLEAN, health : Healths]
      /\ RecordsOf(c) = {} /\ call.kind \in {"invoke", "test"} /\ last \in Answers
    <2>1. /\ RecordsOf(c) = {} /\ call.kind # "" /\ Len(call.answers) \in 1 .. MaxRetries(call.kind) + 1
        BY <1>1 DEF CallAgrees
    <2>2. call.answers \in Seq(Answers) /\ call.kind \in {"", "invoke", "test"}
        BY <1>1 DEF CallRow
    <2> HIDE DEF call
    <2>5. MaxRetries(call.kind) \in Nat
        BY ModelCallsAssumption DEF MaxRetries
    <2>3. call.answers[Len(call.answers)] \in Answers
        <3>1. PICK m \in Nat : m = MaxRetries(call.kind)
            BY <2>5
        <3>2. PICK n \in 1 .. m + 1 : n = Len(call.answers)
            BY <2>1, <3>1
        <3>3. PICK q \in Seq(Answers) : q = call.answers
            BY <2>2
        <3>4. q[n] \in Answers
            BY <3>2, <3>3
        <3> QED
            BY <3>2, <3>3, <3>4
    <2>4. last \in Answers
        BY <2>3 DEF Last
    <2> HIDE DEF last
    <2> QED
        BY <1>1, <2>1, <2>2, <2>4 DEF CallsTyped
<1>3. UNCHANGED invocations => \A d : /\ (RecordsOf(d))' = RecordsOf(d)
                                      /\ \A i \in RecordsOf(d) : invocations'[i] = invocations[i]
    BY DEF RecordsOf
<1>4. CASE ~model.there \/ last = "garbage"
    <2>1. UNCHANGED <<model, invocations>>
        BY <1>4, Zenon DEF EndCall
    <2> HIDE DEF last, call
    <2> QED
        BY <1>2, <1>3, <1>4, <2>1 DEF last, call
<1>5. CASE model.there /\ last # "garbage" /\ call.kind = "test"
    <2>1. model' = WithHealth(c, IF IsError(last) THEN "degraded" ELSE "healthy") /\ UNCHANGED invocations
        BY <1>5, Zenon DEF EndCall
    <2>2. model' \in [there : BOOLEAN, health : Healths]
        <3>1. PICK found \in Healths : found = IF IsError(last) THEN "degraded" ELSE "healthy"
            BY DEF Healths
        <3> QED
            BY <1>2, <2>1, <3>1, HealthWritten
    <2> QED
        BY <1>2, <1>3, <1>5, <2>1, <2>2
<1>6. ASSUME NEW row \in RecordRow, row.by = c, row.result = IF last = "200" THEN "success" ELSE Category(last),
             invocations' = Append(invocations, row), model' \in [there : BOOLEAN, health : Healths],
             model.there, last # "garbage", call.kind = "invoke"
      PROVE  /\ invocations' \in Seq(RecordRow)
             /\ \A d \in ModelCallers \ {c} : /\ (RecordsOf(d))' = RecordsOf(d)
                                              /\ \A i \in RecordsOf(d) : invocations'[i] = invocations[i]
             /\ \E i \in (RecordsOf(c))' :
                   /\ (RecordsOf(c))' = {i}
                   /\ invocations'[i].result = IF last = "200" THEN "success" ELSE Category(last)
    <2> HIDE DEF last, call
    <2>1. /\ invocations' \in Seq(RecordRow)
          /\ \A d : d # row.by => (RecordsOf(d))' = RecordsOf(d) /\ \A i \in RecordsOf(d) : invocations'[i] = invocations[i]
          /\ \A d : d = row.by /\ RecordsOf(d) = {} =>
                /\ Len(invocations) + 1 \in (RecordsOf(d))' /\ (RecordsOf(d))' = {Len(invocations) + 1}
                /\ invocations'[Len(invocations) + 1] = row
        BY <1>2, <1>6, Recorded
    <2>2. \A d \in ModelCallers \ {c} : /\ (RecordsOf(d))' = RecordsOf(d)
                                         /\ \A i \in RecordsOf(d) : invocations'[i] = invocations[i]
        BY <1>6, <2>1
    <2>3. PICK k : /\ k \in (RecordsOf(c))' /\ (RecordsOf(c))' = {k} /\ invocations'[k] = row
        BY <1>2, <1>6, <2>1
    <2> QED
        BY <1>6, <2>1, <2>2, <2>3
<1>7. CASE model.there /\ last # "garbage" /\ call.kind = "invoke" /\ IsError(last)
    <2> DEFINE row == [by |-> c, result |-> Category(last)]
    <2>1. invocations' = Append(invocations, row) /\ model' = model
        BY <1>7, Zenon DEF EndCall
    <2>2. row \in RecordRow /\ row.by = c /\ row.result = Category(last)
        <3> HIDE DEF last
        <3> QED
            BY <1>2 DEF RecordRow
    <2>3. last # "200"
        BY <1>7 DEF IsError
    <2> HIDE DEF row
    <2> QED
        BY <1>2, <1>6, <1>7, <2>1, <2>2, <2>3
<1>8. CASE model.there /\ last # "garbage" /\ call.kind = "invoke" /\ ~IsError(last)
    <2> DEFINE row == [by |-> c, result |-> "success"]
    <2>1. invocations' = Append(invocations, row) /\ model' = WithHealth(c, "healthy")
        <3>1. call.kind # "test"
            BY <1>8
        <3> QED
            BY <1>8, <3>1, Zenon DEF EndCall
    <2>2. row \in RecordRow /\ row.by = c /\ row.result = "success"
        BY DEF RecordRow
    <2>3. last = "200"
        BY <1>8 DEF IsError
    <2>4. model' \in [there : BOOLEAN, health : Healths]
        BY <1>2, <2>1, HealthWritten DEF Healths
    <2> HIDE DEF row
    <2> QED
        BY <1>2, <1>6, <1>8, <2>1, <2>2, <2>3, <2>4
<1> QED
    BY <1>2, <1>4, <1>5, <1>7, <1>8

LEMMA CallEndsTold ==
    ASSUME CallsInv, NEW c \in ModelCallers, EndCall(c)
    PROVE  CallsInv'
<1> DEFINE call == modelCalls[c]
           last == Last(call.answers)
<1>1. PICK orphan \in BOOLEAN : orphan = ~model.there
    OBVIOUS
<1> DEFINE row == [call EXCEPT !.stage = "ended", !.orphan = orphan]
<1>2. /\ call.stage = "answered" /\ ~MayRetry(c) /\ UNCHANGED <<provider, rotations>>
      /\ modelCalls' = [modelCalls EXCEPT ![c].stage = "ended", ![c].orphan = ~model.there]
    BY Zenon DEF EndCall
<1>3. /\ modelCalls \in [ModelCallers -> CallRow] /\ CallAgrees(c, call)
    BY DEF CallsInv, CallsTyped
<1>4. modelCalls' = [modelCalls EXCEPT ![c] = row]
    <2>1. modelCalls' = [modelCalls EXCEPT ![c].stage = "ended", ![c].orphan = orphan]
        BY <1>1, <1>2, Zenon
    <2> QED
        BY <1>3, <2>1
<1>5. /\ row \in CallRow /\ row.kind = call.kind /\ row.stage = "ended" /\ row.answers = call.answers /\ row.orphan = orphan
    <2>1. call \in CallRow
        BY <1>3
    <2> HIDE DEF call
    <2> QED
        BY <2>1, CallEnded, Zenon
<1> HIDE DEF row
<1>6. /\ modelCalls' \in [ModelCallers -> CallRow] /\ modelCalls'[c] = row
      /\ \A d \in ModelCallers \ {c} : modelCalls'[d] = modelCalls[d]
    BY <1>3, <1>4, <1>5
<1>7. /\ invocations' \in Seq(RecordRow) /\ model' \in [there : BOOLEAN, health : Healths]
      /\ \A d \in ModelCallers \ {c} : /\ (RecordsOf(d))' = RecordsOf(d)
                                       /\ \A i \in RecordsOf(d) : invocations'[i] = invocations[i]
      /\ IF call.kind = "invoke" /\ last # "garbage" /\ model.there
         THEN \E i \in (RecordsOf(c))' :
                 /\ (RecordsOf(c))' = {i}
                 /\ invocations'[i].result = IF last = "200" THEN "success" ELSE Category(last)
         ELSE (RecordsOf(c))' = {}
    BY CallRecorded
<1>8. CallsTyped'
    BY <1>2, <1>6, <1>7 DEF CallsInv, CallsTyped
<1>9. /\ AllTransient(call.answers, Len(call.answers) - 1) /\ Len(call.answers) \in 1 .. MaxRetries(call.kind) + 1
      /\ (IsError(last) /\ Category(last) \in Transient => ~(Len(call.answers) <= MaxRetries(call.kind)))
    BY <1>2, <1>3 DEF CallAgrees, MayRetry
<1>10. /\ Len(call.answers) <= MaxRetries(call.kind) + 1
       /\ (IsError(last) /\ Category(last) \in Transient => Len(call.answers) = MaxRetries(call.kind) + 1)
    <2>1. PICK m \in Nat : m = MaxRetries(call.kind)
        BY ModelCallsAssumption DEF MaxRetries
    <2>2. PICK n \in 1 .. m + 1 : n = Len(call.answers)
        BY <1>9, <2>1
    <2>3. IsError(last) /\ Category(last) \in Transient => n > m
        <3> HIDE DEF last, call
        <3>1. IsError(last) /\ Category(last) \in Transient => ~(n <= m)
            BY <1>9, <2>1, <2>2
        <3> QED
            BY <2>1, <2>2, <3>1
    <2>4. n <= m + 1 /\ (n > m => n = m + 1)
        BY <2>1, <2>2
    <2> HIDE DEF last, call
    <2> QED
        BY <2>1, <2>2, <2>3, <2>4
<1> DEFINE told == \E i \in (RecordsOf(c))' :
                      /\ (RecordsOf(c))' = {i}
                      /\ invocations'[i].result = IF last = "200" THEN "success" ELSE Category(last)
<1>11. IF call.kind = "invoke" /\ last # "garbage" /\ ~orphan THEN told ELSE (RecordsOf(c))' = {}
    <2> HIDE DEF last, call
    <2> QED
        BY <1>1, <1>7
<1>12. PICK r \in CallRow : r = row
    BY <1>5
<1>13. (Told(c, r))'
    <2>1. PICK answers, kind : answers = call.answers /\ kind = call.kind
        OBVIOUS
    <2>2. r.answers = answers /\ r.kind = kind /\ r.orphan = orphan /\ Last(answers) = last
        BY <1>5, <1>12, <2>1
    <2>3. /\ Len(answers) <= MaxRetries(kind) + 1 /\ AllTransient(answers, Len(answers) - 1)
          /\ (IsError(last) /\ Category(last) \in Transient => Len(answers) = MaxRetries(kind) + 1)
          /\ IF kind = "invoke" /\ last # "garbage" /\ ~orphan THEN told ELSE (RecordsOf(c))' = {}
        BY <1>9, <1>10, <1>11, <2>1
    <2>4. PICK l : l = last
        OBVIOUS
    <2> HIDE DEF last, call
    <2> QED
        BY <2>2, <2>3, <2>4 DEF Told
<1>14. ASSUME NEW d \in ModelCallers
       PROVE  (CallAgrees(d, modelCalls[d]))'
    <2>1. CASE d = c
        <3>1. (CallAgrees(c, r))'
            BY <1>5, <1>12, <1>13 DEF CallAgrees
        <3>2. modelCalls'[c] = r
            BY <1>6, <1>12
        <3> QED
            BY <2>1, <3>1, <3>2
    <2>2. CASE d # c
        <3>1. PICK other : other = modelCalls'[d]
            OBVIOUS
        <3>2. CallAgrees(d, other)
            BY <1>6, <2>2, <3>1 DEF CallsInv
        <3>3. (CallAgrees(d, other))'
            BY <1>7, <2>2, <3>2, CallStays
        <3> QED
            BY <3>1, <3>3
    <2> QED
        BY <2>1, <2>2
<1> QED
    BY <1>8, <1>14 DEF CallsInv

LEMMA ApiCrashed ==
    ASSUME CallsInv, CrashApi
    PROVE  CallsInv'
<1> DEFINE row(d) == [modelCalls[d] EXCEPT !.stage = "dead"]
<1>1. /\ modelCalls' = [d \in ModelCallers |-> IF modelCalls[d].stage \in {"calling", "answered"} THEN row(d) ELSE modelCalls[d]]
      /\ UNCHANGED <<provider, model, rotations, invocations>>
    BY DEF CrashApi
<1>2. /\ modelCalls \in [ModelCallers -> CallRow]
      /\ \A d \in ModelCallers : row(d) \in CallRow /\ row(d).stage = "dead"
    <2>1. ASSUME NEW call \in CallRow
          PROVE  LET new == [call EXCEPT !.stage = "dead"] IN new \in CallRow /\ new.stage = "dead"
        BY DEF CallRow
    <2>2. modelCalls \in [ModelCallers -> CallRow]
        BY DEF CallsInv, CallsTyped
    <2> QED
        BY <2>1, <2>2, Zenon
<1> HIDE DEF row
<1>3. modelCalls' \in [ModelCallers -> CallRow]
    BY <1>1, <1>2
<1>4. \A d : (RecordsOf(d))' = RecordsOf(d)
    BY <1>1 DEF RecordsOf
<1>5. ASSUME NEW d \in ModelCallers
      PROVE  (CallAgrees(d, modelCalls[d]))'
    <2>1. PICK call : call = modelCalls'[d]
        OBVIOUS
    <2>2. CallAgrees(d, call)
        <3>1. CASE modelCalls[d].stage \in {"calling", "answered"}
            <4>1. call.stage = "dead"
                BY <1>1, <1>2, <2>1, <3>1
            <4> QED
                BY <4>1 DEF CallAgrees
        <3>2. CASE modelCalls[d].stage \notin {"calling", "answered"}
            BY <1>1, <2>1, <3>2 DEF CallsInv
        <3> QED
            BY <3>1, <3>2
    <2>3. (CallAgrees(d, call))'
        BY <1>1, <1>4, <2>2, CallStays
    <2> QED
        BY <2>1, <2>3
<1>6. CallsTyped'
    BY <1>1, <1>3 DEF CallsInv, CallsTyped
<1> QED
    BY <1>5, <1>6 DEF CallsInv

(* The provider, the health shown and rotations play no part in what is recorded. *)
LEMMA RowsWritten ==
    ASSUME CallsInv, UNCHANGED <<modelCalls, invocations>>, CallsTyped'
    PROVE  CallsInv'
<1>1. \A d : (RecordsOf(d))' = RecordsOf(d)
    BY DEF RecordsOf
<1>2. ASSUME NEW d \in ModelCallers
      PROVE  (CallAgrees(d, modelCalls[d]))'
    <2>1. PICK call : call = modelCalls[d]
        OBVIOUS
    <2>2. CallAgrees(d, call)
        BY <2>1 DEF CallsInv
    <2>3. (CallAgrees(d, call))'
        BY <1>1, <2>2, CallStays
    <2> QED
        BY <2>1, <2>3
<1> QED
    BY <1>2 DEF CallsInv

LEMMA CallsStart == ModelCallsInit => CallsInv
<1> SUFFICES ASSUME ModelCallsInit
             PROVE  CallsInv
    OBVIOUS
<1>1. /\ provider \in [local : BOOLEAN, mode : {"200"}, version : {1}, connection : {"UNTESTED"}]
      /\ model = [there |-> TRUE, health |-> "UNTESTED"] /\ modelCalls = [c \in ModelCallers |-> NoCall]
      /\ rotations = [r \in Rotators |-> 0] /\ invocations = <<>>
    BY DEF ModelCallsInit
<1>2. NoCall \in CallRow /\ NoCall.stage = "idle"
    <2>1. <<>> \in Seq(Answers)
        OBVIOUS
    <2> QED
        BY <2>1 DEF NoCall, CallRow
<1>3. invocations \in Seq(RecordRow) /\ \A c : RecordsOf(c) = {}
    BY <1>1 DEF RecordsOf
<1>4. model \in [there : BOOLEAN, health : Healths]
    BY <1>1 DEF Healths
<1>5. provider \in [local : BOOLEAN, mode : LocalModes, version : Int, connection : {"UNTESTED", "CONNECTED", "UNKNOWN"}]
      /\ provider.mode \in LocalModes
    BY <1>1 DEF LocalModes
<1>6. CallsTyped
    BY <1>1, <1>2, <1>3, <1>4, <1>5 DEF CallsTyped
<1>7. \A c \in ModelCallers : CallAgrees(c, modelCalls[c])
    BY <1>1, <1>2, <1>3 DEF CallAgrees
<1> QED
    BY <1>6, <1>7 DEF CallsInv

LEMMA CallsPreserved == CallsInv /\ [ModelCallsNext]_callVars => CallsInv'
<1> SUFFICES ASSUME CallsInv, [ModelCallsNext]_callVars
             PROVE  CallsInv'
    OBVIOUS
<1>1. /\ provider \in [local : BOOLEAN, mode : LocalModes, version : Int, connection : {"UNTESTED", "CONNECTED", "UNKNOWN"}]
      /\ model \in [there : BOOLEAN, health : Healths] /\ rotations \in [Rotators -> Int] /\ provider.version \in Int
    BY DEF CallsInv, CallsTyped
<1>2. CASE ModelHealth \/ DeleteModel
    <2>1. model' \in [there : BOOLEAN, health : Healths] /\ UNCHANGED <<provider, modelCalls, rotations, invocations>>
        <3>1. HealthOf(provider) \in Healths
            BY DEF HealthOf, Healths
        <3> QED
            BY <1>1, <1>2, <3>1 DEF ModelHealth, DeleteModel
    <2>2. CallsTyped'
        BY <2>1 DEF CallsInv, CallsTyped
    <2> QED
        BY <2>1, <2>2, RowsWritten
<1>3. CASE TestProvider \/ UpdateProvider
    <2>1. /\ provider' \in [local : BOOLEAN, mode : LocalModes, version : Int, connection : {"UNTESTED", "CONNECTED", "UNKNOWN"}]
          /\ UNCHANGED <<model, modelCalls, rotations, invocations>>
        BY <1>1, <1>3 DEF TestProvider, UpdateProvider
    <2>2. provider'.mode \in LocalModes
        BY <2>1
    <2>3. CallsTyped'
        BY <2>1, <2>2 DEF CallsInv, CallsTyped
    <2> QED
        BY <2>1, <2>3, RowsWritten
<1>4. ASSUME NEW r \in Rotators, LoadForRotation(r) \/ StoreRotation(r)
      PROVE  CallsInv'
    <2>1. /\ provider' \in [local : BOOLEAN, mode : LocalModes, version : Int, connection : {"UNTESTED", "CONNECTED", "UNKNOWN"}]
          /\ rotations' \in [Rotators -> Int] /\ UNCHANGED <<model, modelCalls, invocations>>
        BY <1>1, <1>4 DEF LoadForRotation, StoreRotation
    <2>2. provider'.mode \in LocalModes
        BY <2>1
    <2>3. CallsTyped'
        BY <2>1, <2>2 DEF CallsInv, CallsTyped
    <2> QED
        BY <2>1, <2>3, RowsWritten
<1>5. CASE UNCHANGED callVars
    <2>1. UNCHANGED <<provider, model, modelCalls, rotations, invocations>>
        BY <1>5 DEF callVars
    <2>2. CallsTyped'
        BY <2>1 DEF CallsInv, CallsTyped
    <2> QED
        BY <2>1, <2>2, RowsWritten
<1> QED
    BY <1>2, <1>3, <1>4, <1>5, CallStarted, CallAnswered, CallRetried, CallEndsTold, ApiCrashed DEF ModelCallsNext

(* The record of an ended call tells what became of it, whatever happened to the
   model, its provider and its credentials meanwhile (run_with_retry, invoke). *)
THEOREM CallsAreTold == ModelCallsSpec => []InvocationsTold
BY CallsStart, CallsPreserved, CallsTold, PTL DEF ModelCallsSpec

-----------------------------------------------------------------------------
(* Sums.  A fold adds the values of a function in an order that nobody chose; that
   it stays in a set closed under addition is an induction over the subsets that
   were added, by a least counterexample. *)
Below == {p \in Nat \X Nat : p[1] < p[2]}

LEMMA LeastNumber ==
    ASSUME NEW T, T \subseteq Nat, T # {}
    PROVE  \E m \in T : \A l \in T : m <= l
<1>1. IsWellFoundedOn(Below, Nat)
    BY NatLessThanWellFounded DEF OpToRel, Below
<1>2. PICK m \in T : \A l \in T : ~(<<l, m>> \in Below)
    BY <1>1, WFMin, Zenon
<1>3. ASSUME NEW l \in T
      PROVE  m <= l
    <2>1. l \in Nat /\ m \in Nat
        OBVIOUS
    <2>2. l < m => <<l, m>> \in Below
        BY <2>1 DEF Below
    <2> QED
        BY <1>2, <2>1, <2>2
<1> QED
    BY <1>3

(* A sum over a finite set adds one value after the other, in an order of its own. *)
AnyOf(s) == CHOOSE x \in s : TRUE
Steps(f, g, S) == f = [s \in SUBSET S |-> IF s = {} THEN 0 ELSE g[AnyOf(s)] + f[s \ {AnyOf(s)}]]

LEMMA SumUnfolds ==
    ASSUME NEW g
    PROVE  FoldFunction(+, 0, g) = (CHOOSE f : Steps(f, g, DOMAIN g))[DOMAIN g]
BY DEF FoldFunction, FoldFunctionOnSet, MapThenFoldSet, Steps, AnyOf

LEMMA Smaller ==
    ASSUME NEW s, IsFiniteSet(s), s # {}
    PROVE  /\ AnyOf(s) \in s /\ IsFiniteSet(s \ {AnyOf(s)})
           /\ Cardinality(s \ {AnyOf(s)}) = Cardinality(s) - 1
           /\ Cardinality(s) \in Nat /\ Cardinality(s \ {AnyOf(s)}) \in Nat
<1>1. AnyOf(s) \in s
    BY DEF AnyOf
<1> QED
    BY <1>1, FS_RemoveElement, FS_CardinalityType

SmallSets(S, n) == {s \in SUBSET S : Cardinality(s) <= n}
StepsOn(f, g, D) ==
    /\ DOMAIN f = D
    /\ \A s \in D : f[s] = IF s = {} THEN 0 ELSE g[AnyOf(s)] + f[s \ {AnyOf(s)}]

(* The steps are defined: first for the empty set, then for larger and larger ones. *)
LEMMA StepsExist ==
    ASSUME NEW S, IsFiniteSet(S), NEW g
    PROVE  \E f : Steps(f, g, S)
<1>0. \A s \in SUBSET S : IsFiniteSet(s) /\ Cardinality(s) \in Nat
    BY FS_Subset, FS_CardinalityType
<1> DEFINE T == {n \in Nat : ~ \E f : StepsOn(f, g, SmallSets(S, n))}
<1>1. T = {}
    <2> SUFFICES ASSUME T # {}
                 PROVE  FALSE
        OBVIOUS
    <2>1. PICK m \in T : \A l \in T : m <= l
        <3>1. T \subseteq Nat
            OBVIOUS
        <3> HIDE DEF T
        <3> QED
            BY <3>1, LeastNumber
    <2>2. m # 0
        <3> DEFINE f == [s \in SmallSets(S, 0) |-> 0]
        <3>1. \A s \in SmallSets(S, 0) : s = {}
            BY <1>0, FS_EmptySet DEF SmallSets
        <3>2. StepsOn(f, g, SmallSets(S, 0))
            BY <3>1 DEF StepsOn
        <3> QED
            BY <3>2
    <2>3. PICK f : StepsOn(f, g, SmallSets(S, m - 1))
        BY <2>1, <2>2
    <2> DEFINE h == [s \in SmallSets(S, m) |-> IF s = {} THEN 0 ELSE g[AnyOf(s)] + f[s \ {AnyOf(s)}]]
    <2>4. ASSUME NEW s \in SmallSets(S, m)
          PROVE  h[s] = IF s = {} THEN 0 ELSE g[AnyOf(s)] + h[s \ {AnyOf(s)}]
        <3>1. CASE s = {}
            BY <3>1
        <3>2. CASE s # {}
            <4> DEFINE t == s \ {AnyOf(s)}
            <4>1. t \in SmallSets(S, m - 1) /\ t \in SmallSets(S, m)
                BY <1>0, <3>2, Smaller DEF SmallSets
            <4>2. h[t] = f[t]
                BY <2>3, <4>1 DEF StepsOn
            <4> QED
                BY <3>2, <4>2
        <3> QED
            BY <3>1, <3>2
    <2>5. StepsOn(h, g, SmallSets(S, m))
        <3> HIDE DEF h
        <3>1. DOMAIN h = SmallSets(S, m)
            BY DEF h
        <3> QED
            BY <2>4, <3>1 DEF StepsOn
    <2> QED
        BY <2>5
<1>2. PICK f : StepsOn(f, g, SmallSets(S, Cardinality(S)))
    BY <1>0, <1>1
<1>3. SmallSets(S, Cardinality(S)) = SUBSET S
    BY FS_Subset DEF SmallSets
<1>4. Steps([s \in SUBSET S |-> f[s]], g, S)
    <2>1. \A s \in SUBSET S : s \ {AnyOf(s)} \in SUBSET S
        OBVIOUS
    <2> QED
        BY <1>2, <1>3, <2>1 DEF Steps, StepsOn
<1> QED
    BY <1>4

(* A sum of members of a set that is closed under addition is in that set. *)
LEMMA SumIn ==
    ASSUME NEW X, 0 \in X, \A a, b \in X : a + b \in X,
           NEW S, IsFiniteSet(S), NEW g \in [S -> X]
    PROVE  FoldFunction(+, 0, g) \in X
<1> DEFINE f == CHOOSE f : Steps(f, g, S)
           T == {n \in Nat : \E s \in SUBSET S : Cardinality(s) = n /\ f[s] \notin X}
<1>0. \A s \in SUBSET S : IsFiniteSet(s) /\ Cardinality(s) \in Nat
    BY FS_Subset, FS_CardinalityType
<1>1. Steps(f, g, S)
    BY StepsExist
<1> HIDE DEF f
<1>2. T = {}
    <2> SUFFICES ASSUME T # {}
                 PROVE  FALSE
        OBVIOUS
    <2>1. PICK m \in T : \A l \in T : m <= l
        <3>1. T \subseteq Nat
            OBVIOUS
        <3> HIDE DEF T
        <3> QED
            BY <3>1, LeastNumber
    <2>2. PICK s \in SUBSET S : Cardinality(s) = m /\ f[s] \notin X
        BY <2>1
    <2>3. f[s] = IF s = {} THEN 0 ELSE g[AnyOf(s)] + f[s \ {AnyOf(s)}]
        BY <1>1 DEF Steps
    <2>4. s # {}
        BY <2>2, <2>3
    <2>5. AnyOf(s) \in S /\ g[AnyOf(s)] \in X
        BY <1>0, <2>4, Smaller
    <2>6. f[s \ {AnyOf(s)}] \in X
        <3>1. Cardinality(s \ {AnyOf(s)}) \in Nat /\ Cardinality(s \ {AnyOf(s)}) < m
            BY <1>0, <2>2, <2>4, Smaller
        <3>2. Cardinality(s \ {AnyOf(s)}) \notin T
            <4>1. m \in Nat
                BY <2>1
            <4> HIDE DEF T
            <4> QED
                BY <2>1, <3>1, <4>1
        <3> QED
            BY <3>1, <3>2
    <2> QED
        BY <2>2, <2>3, <2>4, <2>5, <2>6
<1>3. f[S] \in X
    BY <1>0, <1>2
<1> QED
    BY <1>3, SumUnfolds DEF f

(* Sums are linear: every function is added in the same order. *)
LEMMA Distributes ==
    ASSUME NEW a \in Int, NEW x \in Int, NEW y \in Int
    PROVE  a * (x + y) = a * x + a * y /\ a * x \in Int /\ a * y \in Int
OBVIOUS

Combines(S, g, i, a, j, b, k, c) ==
    /\ {i, j, k} \subseteq Int /\ {a, b, c, g} \subseteq [S -> Int]
    /\ \A x \in S : g[x] = i * a[x] + j * b[x] + k * c[x]
SumIs(g, i, a, j, b, k, c) ==
    FoldFunction(+, 0, g) = i * FoldFunction(+, 0, a) + j * FoldFunction(+, 0, b) + k * FoldFunction(+, 0, c)

LEMMA SumCombines ==
    ASSUME NEW S, IsFiniteSet(S), NEW i, NEW j, NEW k, NEW a, NEW b, NEW c, NEW g,
           Combines(S, g, i, a, j, b, k, c)
    PROVE  SumIs(g, i, a, j, b, k, c)
<1> DEFINE F(h) == CHOOSE f : Steps(f, h, S)
           Fits(s) == /\ F(a)[s] \in Int /\ F(b)[s] \in Int /\ F(c)[s] \in Int
                      /\ F(g)[s] = i * F(a)[s] + j * F(b)[s] + k * F(c)[s]
           T == {n \in Nat : \E s \in SUBSET S : Cardinality(s) = n /\ ~Fits(s)}
<1>. i \in Int /\ j \in Int /\ k \in Int /\ a \in [S -> Int] /\ b \in [S -> Int]
      /\ c \in [S -> Int] /\ g \in [S -> Int] /\ \A x \in S : g[x] = i * a[x] + j * b[x] + k * c[x]
    BY DEF Combines
<1>0. \A s \in SUBSET S : IsFiniteSet(s) /\ Cardinality(s) \in Nat
    BY FS_Subset, FS_CardinalityType
<1>1. Steps(F(a), a, S) /\ Steps(F(b), b, S) /\ Steps(F(c), c, S) /\ Steps(F(g), g, S)
    BY StepsExist
<1> HIDE DEF F
<1>2. T = {}
    <2> SUFFICES ASSUME T # {}
                 PROVE  FALSE
        OBVIOUS
    <2>1. PICK m \in T : \A l \in T : m <= l
        <3>1. T \subseteq Nat
            OBVIOUS
        <3> HIDE DEF T
        <3> QED
            BY <3>1, LeastNumber
    <2>2. PICK s \in SUBSET S : Cardinality(s) = m /\ ~Fits(s)
        BY <2>1
    <2> DEFINE x == AnyOf(s)
               t == s \ {x}
    <2>3. /\ F(a)[s] = IF s = {} THEN 0 ELSE a[x] + F(a)[t]
          /\ F(b)[s] = IF s = {} THEN 0 ELSE b[x] + F(b)[t]
          /\ F(c)[s] = IF s = {} THEN 0 ELSE c[x] + F(c)[t]
          /\ F(g)[s] = IF s = {} THEN 0 ELSE g[x] + F(g)[t]
        BY <1>1 DEF Steps
    <2>4. s # {}
        BY <2>2, <2>3
    <2>5. x \in S /\ t \in SUBSET S
        BY <1>0, <2>4, Smaller
    <2>6. Fits(t)
        <3>1. Cardinality(t) \in Nat /\ Cardinality(t) < m
            BY <1>0, <2>2, <2>4, Smaller
        <3>2. Cardinality(t) \notin T
            <4>1. m \in Nat
                BY <2>1
            <4> HIDE DEF T
            <4> QED
                BY <2>1, <3>1, <4>1
        <3> HIDE DEF Fits, t
        <3> QED
            BY <2>5, <3>1, <3>2
    <2>7. a[x] \in Int /\ b[x] \in Int /\ c[x] \in Int /\ g[x] = i * a[x] + j * b[x] + k * c[x]
        BY <2>5
    <2> HIDE DEF x, t
    <2>8. /\ F(a)[s] = a[x] + F(a)[t] /\ F(b)[s] = b[x] + F(b)[t] /\ F(c)[s] = c[x] + F(c)[t]
          /\ F(g)[s] = g[x] + F(g)[t]
        BY <2>3, <2>4
    <2>9. /\ i * F(a)[s] = i * a[x] + i * F(a)[t] /\ i * a[x] \in Int /\ i * F(a)[t] \in Int
          /\ j * F(b)[s] = j * b[x] + j * F(b)[t] /\ j * b[x] \in Int /\ j * F(b)[t] \in Int
          /\ k * F(c)[s] = k * c[x] + k * F(c)[t] /\ k * c[x] \in Int /\ k * F(c)[t] \in Int
        <3>1. i * F(a)[s] = i * a[x] + i * F(a)[t] /\ i * a[x] \in Int /\ i * F(a)[t] \in Int
            BY <2>6, <2>7, <2>8, Distributes
        <3>2. j * F(b)[s] = j * b[x] + j * F(b)[t] /\ j * b[x] \in Int /\ j * F(b)[t] \in Int
            BY <2>6, <2>7, <2>8, Distributes
        <3>3. k * F(c)[s] = k * c[x] + k * F(c)[t] /\ k * c[x] \in Int /\ k * F(c)[t] \in Int
            BY <2>6, <2>7, <2>8, Distributes
        <3> QED
            BY <3>1, <3>2, <3>3
    <2>10. F(g)[s] = i * F(a)[s] + j * F(b)[s] + k * F(c)[s]
        <3> DEFINE ia == i * a[x]
                   jb == j * b[x]
                   kc == k * c[x]
                   fa == i * F(a)[t]
                   fb == j * F(b)[t]
                   fc == k * F(c)[t]
        <3>1. F(g)[t] = fa + fb + fc /\ g[x] = ia + jb + kc
            BY <2>6, <2>7
        <3> HIDE DEF ia, jb, kc, fa, fb, fc
        <3>2. /\ ia \in Int /\ jb \in Int /\ kc \in Int /\ fa \in Int /\ fb \in Int /\ fc \in Int
              /\ i * F(a)[s] = ia + fa /\ j * F(b)[s] = jb + fb /\ k * F(c)[s] = kc + fc
            BY <2>9 DEF ia, jb, kc, fa, fb, fc
        <3> QED
            BY <2>8, <3>1, <3>2
    <2>11. Fits(s)
        BY <2>6, <2>7, <2>8, <2>10
    <2> QED
        BY <2>2, <2>11
<1>3. Fits(S)
    <2>1. Cardinality(S) \notin T /\ Cardinality(S) \in Nat
        BY <1>0, <1>2
    <2> HIDE DEF Fits
    <2> QED
        BY <2>1
<1>4. /\ FoldFunction(+, 0, a) = F(a)[S] /\ FoldFunction(+, 0, b) = F(b)[S]
      /\ FoldFunction(+, 0, c) = F(c)[S] /\ FoldFunction(+, 0, g) = F(g)[S]
    <2>1. DOMAIN a = S /\ DOMAIN b = S /\ DOMAIN c = S /\ DOMAIN g = S
        BY DEF Combines
    <2>2. FoldFunction(+, 0, a) = F(a)[S]
        BY <2>1, SumUnfolds, Zenon DEF F
    <2>3. FoldFunction(+, 0, b) = F(b)[S]
        BY <2>1, SumUnfolds, Zenon DEF F
    <2>4. FoldFunction(+, 0, c) = F(c)[S]
        BY <2>1, SumUnfolds, Zenon DEF F
    <2>5. FoldFunction(+, 0, g) = F(g)[S]
        BY <2>1, SumUnfolds, Zenon DEF F
    <2> QED
        BY <2>2, <2>3, <2>4, <2>5, Zenon
<1> QED
    BY <1>3, <1>4 DEF SumIs

(* A sum of naturals is positive with one of them. *)
LEMMA SumPositive ==
    ASSUME NEW S, IsFiniteSet(S), NEW g \in [S -> Nat], NEW x \in S, g[x] > 0
    PROVE  FoldFunction(+, 0, g) > 0
<1> DEFINE f == CHOOSE f : Steps(f, g, S)
           Fits(s) == f[s] \in Nat /\ (x \in s => f[s] > 0)
           T == {n \in Nat : \E s \in SUBSET S : Cardinality(s) = n /\ ~Fits(s)}
<1>0. \A s \in SUBSET S : IsFiniteSet(s) /\ Cardinality(s) \in Nat
    BY FS_Subset, FS_CardinalityType
<1>1. Steps(f, g, S)
    BY StepsExist
<1> HIDE DEF f
<1>2. T = {}
    <2> SUFFICES ASSUME T # {}
                 PROVE  FALSE
        OBVIOUS
    <2>1. PICK m \in T : \A l \in T : m <= l
        <3>1. T \subseteq Nat
            OBVIOUS
        <3> HIDE DEF T
        <3> QED
            BY <3>1, LeastNumber
    <2>2. PICK s \in SUBSET S : Cardinality(s) = m /\ ~Fits(s)
        BY <2>1
    <2> DEFINE y == AnyOf(s)
               t == s \ {y}
    <2>3. f[s] = IF s = {} THEN 0 ELSE g[y] + f[t]
        BY <1>1 DEF Steps
    <2>4. s # {}
        BY <2>2, <2>3
    <2>5. y \in S /\ t \in SUBSET S /\ g[y] \in Nat
        BY <1>0, <2>4, Smaller
    <2>6. Fits(t)
        <3>1. Cardinality(t) \in Nat /\ Cardinality(t) < m
            BY <1>0, <2>2, <2>4, Smaller
        <3>2. Cardinality(t) \notin T
            <4>1. m \in Nat
                BY <2>1
            <4> HIDE DEF T
            <4> QED
                BY <2>1, <3>1, <4>1
        <3> HIDE DEF Fits, t
        <3> QED
            BY <2>5, <3>1, <3>2
    <2>7. Fits(s)
        BY <2>3, <2>4, <2>5, <2>6
    <2> QED
        BY <2>2, <2>7
<1>3. Fits(S)
    <2>1. Cardinality(S) \notin T /\ Cardinality(S) \in Nat
        BY <1>0, <1>2
    <2> HIDE DEF Fits
    <2> QED
        BY <2>1
<1> QED
    BY <1>3, SumUnfolds DEF f

(* The same of the sums of the figures. *)
LEMMA TotalUnfolds ==
    ASSUME NEW g
    PROVE  SumOf(g) = (CHOOSE f : Steps(f, g, DOMAIN g))[DOMAIN g]
BY SumUnfolds DEF SumOf

LEMMA TotalIn ==
    ASSUME NEW X, 0 \in X, \A a, b \in X : a + b \in X,
           NEW S, IsFiniteSet(S), NEW g \in [S -> X]
    PROVE  SumOf(g) \in X
BY SumIn DEF SumOf

LEMMA TotalCombines ==
    ASSUME NEW S, IsFiniteSet(S), NEW i, NEW j, NEW k, NEW a, NEW b, NEW c, NEW g,
           Combines(S, g, i, a, j, b, k, c)
    PROVE  SumOf(g) = i * SumOf(a) + j * SumOf(b) + k * SumOf(c)
<1>1. SumIs(g, i, a, j, b, k, c)
    BY SumCombines
<1> QED
    BY <1>1, Zenon DEF SumIs, SumOf

LEMMA Adds ==
    ASSUME NEW S, IsFiniteSet(S), NEW a \in [S -> Int], NEW b \in [S -> Int], NEW g \in [S -> Int],
           \A x \in S : g[x] = a[x] + b[x]
    PROVE  /\ SumOf(g) = SumOf(a) + SumOf(b)
           /\ SumOf(a) \in Int /\ SumOf(b) \in Int
<1>1. Combines(S, g, 1, a, 1, b, 0, b)
    <2>1. \A x \in S : a[x] \in Int /\ b[x] \in Int
        OBVIOUS
    <2>2. \A x \in S : g[x] = 1 * a[x] + 1 * b[x] + 0 * b[x]
        BY <2>1
    <2> QED
        BY <2>2 DEF Combines
<1>2. SumOf(g) = 1 * SumOf(a) + 1 * SumOf(b) + 0 * SumOf(b)
    BY <1>1, TotalCombines
<1>3. 0 \in Int /\ \A x, y \in Int : x + y \in Int
    OBVIOUS
<1>4. SumOf(a) \in Int
    BY <1>3, TotalIn
<1>5. SumOf(b) \in Int
    BY <1>3, TotalIn
<1>6. PICK x \in Int : x = SumOf(a)
    BY <1>4
<1>7. PICK y \in Int : y = SumOf(b)
    BY <1>5
<1>8. SumOf(g) = 1 * x + 1 * y + 0 * y
    BY <1>2, <1>6, <1>7
<1> QED
    BY <1>6, <1>7, <1>8

LEMMA SumGrows ==
    ASSUME NEW S, IsFiniteSet(S), NEW a \in [S -> Int], NEW b \in [S -> Int], \A x \in S : a[x] <= b[x]
    PROVE  SumOf(a) <= SumOf(b)
<1> DEFINE d == [x \in S |-> b[x] - a[x]]
<1>1. d \in [S -> Nat] /\ d \in [S -> Int]
    OBVIOUS
<1>2. \A x \in S : b[x] = a[x] + d[x]
    OBVIOUS
<1> HIDE DEF d
<1>3. /\ SumOf(b) = SumOf(a) + SumOf(d)
      /\ SumOf(a) \in Int
    BY <1>1, <1>2, Adds
<1>4. 0 \in Nat /\ \A x, y \in Nat : x + y \in Nat
    OBVIOUS
<1>5. SumOf(d) \in Nat
    BY <1>1, <1>4, TotalIn
<1> QED
    BY <1>3, <1>5

(* A sum of ones counts. *)
Ones(S, A) == [x \in S |-> IF x \in A THEN 1 ELSE 0]

LEMMA OnesCount ==
    ASSUME NEW S, IsFiniteSet(S), NEW A, A \subseteq S
    PROVE  SumOf(Ones(S, A)) = Cardinality(A)
<1> DEFINE f == CHOOSE f : Steps(f, Ones(S, A), S)
           Fits(s) == f[s] = Cardinality(s \cap A)
           T == {n \in Nat : \E s \in SUBSET S : Cardinality(s) = n /\ ~Fits(s)}
<1>0. \A s \in SUBSET S : IsFiniteSet(s) /\ Cardinality(s) \in Nat
    BY FS_Subset, FS_CardinalityType
<1>1. Steps(f, Ones(S, A), S)
    BY StepsExist
<1> HIDE DEF f
<1>2. T = {}
    <2> SUFFICES ASSUME T # {}
                 PROVE  FALSE
        OBVIOUS
    <2>1. PICK m \in T : \A l \in T : m <= l
        <3>1. T \subseteq Nat
            OBVIOUS
        <3> HIDE DEF T
        <3> QED
            BY <3>1, LeastNumber
    <2>2. PICK s \in SUBSET S : Cardinality(s) = m /\ ~Fits(s)
        BY <2>1
    <2> DEFINE y == AnyOf(s)
               t == s \ {y}
    <2>3. f[s] = IF s = {} THEN 0 ELSE Ones(S, A)[y] + f[t]
        BY <1>1 DEF Steps
    <2>4. s # {}
        <3>1. CASE s = {}
            <4>1. s \cap A = {} /\ Cardinality({}) = 0
                BY <3>1, FS_EmptySet
            <4> QED
                BY <2>2, <2>3, <3>1, <4>1
        <3> QED
            BY <3>1
    <2>5. y \in s /\ t \in SUBSET S /\ Cardinality(t) \in Nat /\ Cardinality(t) < m
        BY <1>0, <2>2, <2>4, Smaller
    <2>6. Fits(t)
        <3>1. Cardinality(t) \notin T
            <4>1. m \in Nat
                BY <2>1
            <4> HIDE DEF T
            <4> QED
                BY <2>1, <2>5, <4>1
        <3> HIDE DEF Fits, t
        <3> QED
            BY <2>5, <3>1
    <2>7. IsFiniteSet(t \cap A) /\ y \notin t \cap A
        BY <1>0, <2>5
    <2>8. Cardinality((t \cap A) \cup {y}) = Cardinality(t \cap A) + 1 /\ Cardinality(t \cap A) \in Nat
        BY <2>7, FS_AddElement, FS_CardinalityType
    <2>9. s \cap A = IF y \in A THEN (t \cap A) \cup {y} ELSE t \cap A
        BY <2>5
    <2>10. f[s] = (IF y \in A THEN 1 ELSE 0) + f[t]
        BY <2>3, <2>4, <2>5 DEF Ones
    <2>11. f[t] = Cardinality(t \cap A)
        BY <2>6
    <2> HIDE DEF y, t
    <2>12. Fits(s)
        <3>1. CASE y \in A
            BY <2>8, <2>9, <2>10, <2>11, <3>1
        <3>2. CASE y \notin A
            <4>1. PICK n \in Nat : n = Cardinality(t \cap A)
                BY <2>8
            <4>2. Cardinality(s \cap A) = n
                BY <2>9, <3>2, <4>1
            <4>3. f[s] = 0 + n
                BY <2>10, <2>11, <3>2, <4>1
            <4> QED
                BY <4>2, <4>3
        <3> QED
            BY <3>1, <3>2
    <2> QED
        BY <2>2, <2>12
<1>3. Fits(S)
    <2>1. Cardinality(S) \notin T /\ Cardinality(S) \in Nat
        BY <1>0, <1>2
    <2> HIDE DEF Fits
    <2> QED
        BY <2>1
<1>4. S \cap A = A /\ DOMAIN Ones(S, A) = S
    BY DEF Ones
<1>5. SumOf(Ones(S, A)) = f[S]
    BY <1>4, TotalUnfolds DEF f
<1> QED
    BY <1>3, <1>4, <1>5

(* Rows are summed in groups as they are one by one. *)
Group(S, g, key, k) == [x \in S |-> IF key[x] = k THEN g[x] ELSE 0]
Groups(S, g, key, K) == [x \in S |-> IF key[x] \in K THEN g[x] ELSE 0]
GroupSums(S, g, key, K) == [k \in K |-> SumOf(Group(S, g, key, k))]

LEMMA Grouped ==
    ASSUME NEW S, IsFiniteSet(S), NEW K, IsFiniteSet(K), NEW g \in [S -> Int], NEW key
    PROVE  SumOf(GroupSums(S, g, key, K)) = SumOf(Groups(S, g, key, K))
<1> DEFINE sums == GroupSums(S, g, key, K)
           f == CHOOSE f : Steps(f, sums, K)
           Fits(s) == f[s] = SumOf(Groups(S, g, key, s))
           T == {n \in Nat : \E s \in SUBSET K : Cardinality(s) = n /\ ~Fits(s)}
<1>0. \A s \in SUBSET K : IsFiniteSet(s) /\ Cardinality(s) \in Nat
    BY FS_Subset, FS_CardinalityType
<1>1. Steps(f, sums, K)
    BY StepsExist
<1> HIDE DEF f
<1>2. \A x \in S : g[x] \in Int
    OBVIOUS
<1>3. T = {}
    <2> SUFFICES ASSUME T # {}
                 PROVE  FALSE
        OBVIOUS
    <2>1. PICK m \in T : \A l \in T : m <= l
        <3>1. T \subseteq Nat
            OBVIOUS
        <3> HIDE DEF T
        <3> QED
            BY <3>1, LeastNumber
    <2>2. PICK s \in SUBSET K : Cardinality(s) = m /\ ~Fits(s)
        BY <2>1
    <2> DEFINE y == AnyOf(s)
               t == s \ {y}
    <2>3. f[s] = IF s = {} THEN 0 ELSE sums[y] + f[t]
        BY <1>1 DEF Steps
    <2>4. s # {}
        <3>1. CASE s = {}
            <4> DEFINE none == Groups(S, g, key, s)
            <4>1. none \in [S -> {0}]
                BY <3>1 DEF Groups
            <4>2. 0 \in {0} /\ \A x, z \in {0} : x + z \in {0}
                <5>1. 0 + 0 = 0
                    OBVIOUS
                <5> QED
                    BY <5>1, Zenon
            <4> HIDE DEF none
            <4>3. SumOf(none) \in {0}
                BY <4>1, <4>2, TotalIn
            <4> QED
                BY <2>2, <2>3, <3>1, <4>3 DEF none
        <3> QED
            BY <3>1
    <2>5. y \in s /\ t \in SUBSET K /\ Cardinality(t) \in Nat /\ Cardinality(t) < m
        <3>1. IsFiniteSet(s) /\ Cardinality(s) \in Nat
            BY <1>0
        <3>2. y \in s /\ Cardinality(t) = Cardinality(s) - 1 /\ Cardinality(t) \in Nat
            BY <2>4, <3>1, Smaller
        <3> QED
            BY <2>2, <3>1, <3>2
    <2>6. Fits(t)
        <3>1. Cardinality(t) \notin T
            <4>1. m \in Nat
                BY <2>1
            <4> HIDE DEF T
            <4> QED
                BY <2>1, <2>5, <4>1
        <3> HIDE DEF Fits, t
        <3> QED
            BY <2>5, <3>1
    <2> DEFINE a == Group(S, g, key, y)
               b == Groups(S, g, key, t)
               c == Groups(S, g, key, s)
    <2>7. /\ a \in [S -> Int] /\ b \in [S -> Int] /\ c \in [S -> Int]
          /\ \A x \in S : c[x] = a[x] + b[x]
        <3>1. \A k : k \in s <=> k = y \/ k \in t
            BY <2>5
        <3>2. y \notin t
            OBVIOUS
        <3> HIDE DEF y, t, a, b, c
        <3>3. a \in [S -> Int] /\ \A x \in S : a[x] = IF key[x] = y THEN g[x] ELSE 0
            BY <1>2 DEF Group, a
        <3>4. b \in [S -> Int] /\ \A x \in S : b[x] = IF key[x] \in t THEN g[x] ELSE 0
            BY <1>2 DEF Groups, b
        <3>5. c \in [S -> Int] /\ \A x \in S : c[x] = IF key[x] \in s THEN g[x] ELSE 0
            BY <1>2 DEF Groups, c
        <3>6. ASSUME NEW x \in S
              PROVE  c[x] = a[x] + b[x]
            <4>1. PICK k : k = key[x]
                OBVIOUS
            <4>2. PICK z \in Int : z = g[x]
                BY <1>2
            <4>3. a[x] = IF k = y THEN z ELSE 0
                BY <3>3, <4>1, <4>2
            <4>4. b[x] = IF k \in t THEN z ELSE 0
                BY <3>4, <4>1, <4>2
            <4>5. c[x] = IF k \in s THEN z ELSE 0
                BY <3>5, <4>1, <4>2
            <4>6. (k \in s <=> k = y \/ k \in t) /\ ~(k = y /\ k \in t)
                BY <3>1, <3>2
            <4>7. CASE k = y
                BY <4>3, <4>4, <4>5, <4>6, <4>7
            <4>8. CASE k # y
                BY <4>3, <4>4, <4>5, <4>6, <4>8
            <4> QED
                BY <4>7, <4>8
        <3> QED
            BY <3>3, <3>4, <3>5, <3>6
    <2>8. sums[y] = SumOf(a)
        BY <2>5 DEF GroupSums
    <2>9. f[s] = SumOf(a) + SumOf(b)
        BY <2>3, <2>4, <2>6, <2>8
    <2> HIDE DEF a, b, y, t, f
    <2>10. SumOf(c) = SumOf(a) + SumOf(b)
        <3> HIDE DEF c
        <3> QED
            BY <2>7, Adds
    <2> QED
        BY <2>2, <2>9, <2>10
<1>4. Fits(K)
    <2>1. Cardinality(K) \notin T /\ Cardinality(K) \in Nat
        BY <1>0, <1>3
    <2> HIDE DEF Fits
    <2> QED
        BY <2>1
<1>5. DOMAIN sums = K
    BY DEF GroupSums
<1> HIDE DEF sums
<1> QED
    BY <1>4, <1>5, TotalUnfolds DEF f, sums

(* In a finite set of integers there is a greatest and a least one. *)
LEMMA Greatest ==
    ASSUME NEW S, IsFiniteSet(S), S \subseteq Int, S # {}
    PROVE  Max(S) \in S /\ \A x \in S : x <= Max(S)
<1> DEFINE Tops(s) == {m \in s : \A x \in s : x <= m}
           T == {n \in Nat : \E s \in SUBSET S : Cardinality(s) = n /\ s # {} /\ Tops(s) = {}}
<1>0. \A s \in SUBSET S : IsFiniteSet(s) /\ Cardinality(s) \in Nat
    BY FS_Subset, FS_CardinalityType
<1>1. T = {}
    <2> SUFFICES ASSUME T # {}
                 PROVE  FALSE
        OBVIOUS
    <2>1. PICK m \in T : \A l \in T : m <= l
        <3>1. T \subseteq Nat
            OBVIOUS
        <3> HIDE DEF T
        <3> QED
            BY <3>1, LeastNumber
    <2>2. PICK s \in SUBSET S : Cardinality(s) = m /\ s # {} /\ Tops(s) = {}
        BY <2>1
    <2> DEFINE y == AnyOf(s)
               t == s \ {y}
    <2>3. y \in s /\ Cardinality(t) \in Nat /\ Cardinality(t) < m
        BY <1>0, <2>2, Smaller
    <2>4. t # {}
        <3>1. t = {} => y \in Tops(s)
            BY <2>3
        <3> QED
            BY <2>2, <3>1
    <2>5. PICK z \in t : \A x \in t : x <= z
        <3>1. Cardinality(t) \notin T
            <4>1. m \in Nat
                BY <2>1
            <4> HIDE DEF T
            <4> QED
                BY <2>1, <2>3, <4>1
        <3>2. t \in SUBSET S
            OBVIOUS
        <3>3. Tops(t) # {}
            <4> HIDE DEF Tops, t
            <4> QED
                BY <2>3, <2>4, <3>1, <3>2
        <3> QED
            BY <3>3
    <2>6. y \in Int /\ z \in Int /\ z \in s /\ \A x \in s : x \in Int /\ (x = y \/ x <= z)
        BY <2>3, <2>5
    <2>7. y \in Tops(s) \/ z \in Tops(s)
        <3> HIDE DEF y, t
        <3> QED
            BY <2>3, <2>6
    <2> QED
        BY <2>2, <2>7
<1>2. Tops(S) # {}
    <2>1. Cardinality(S) \notin T /\ Cardinality(S) \in Nat
        BY <1>0, <1>1
    <2> HIDE DEF Tops
    <2> QED
        BY <2>1
<1>3. PICK m \in S : \A x \in S : x <= m
    BY <1>2
<1>4. \A x \in S : m >= x
    BY <1>3
<1> QED
    BY <1>4 DEF Max

LEMMA GreatestNatural ==
    ASSUME NEW S, IsFiniteSet(S), S \subseteq Nat, S # {}
    PROVE  Max(S) \in S /\ \A x \in S : x <= Max(S)
<1>1. S \subseteq Int
    OBVIOUS
<1> QED
    BY <1>1, Greatest

LEMMA Lowest ==
    ASSUME NEW S, IsFiniteSet(S), S \subseteq Int, S # {}
    PROVE  Min(S) \in S /\ \A x \in S : Min(S) <= x
<1> DEFINE N == {0 - x : x \in S}
<1>1. IsFiniteSet(N)
    <2>1. [x \in S |-> 0 - x] \in Surjection(S, N)
        BY DEF Surjection
    <2> HIDE DEF N
    <2> QED
        BY <2>1, FS_Surjection
<1>2. N \subseteq Int /\ N # {}
    OBVIOUS
<1>3. PICK t \in N : \A x \in N : x <= t
    <2> HIDE DEF N
    <2> QED
        BY <1>1, <1>2, Greatest
<1>4. PICK m \in S : t = 0 - m
    OBVIOUS
<1>5. \A x \in S : m <= x
    <2> TAKE x \in S
    <2>1. 0 - x <= 0 - m
        BY <1>3, <1>4
    <2>2. x \in Int /\ m \in Int
        OBVIOUS
    <2> QED
        BY <2>1, <2>2
<1> QED
    BY <1>5 DEF Min

-----------------------------------------------------------------------------
(* The evidence of a release. *)
LEMMA Least ==
    ASSUME NEW S, S \subseteq Nat, S # {}
    PROVE  Min(S) \in S
<1>1. PICK m \in S : \A x \in S : m <= x
    BY LeastNumber
<1> QED
    BY <1>1 DEF Min

(* Of the rows a query looks at there is a last one. *)
LEMMA LastCompleted ==
    ASSUME NEW R, NEW table \in Seq(R), NEW wanted, Completed(table, wanted) # {}
    PROVE  Max(Completed(table, wanted)) \in Completed(table, wanted) /\ table[Max(Completed(table, wanted))] \in R
<1> DEFINE own == Completed(table, wanted)
<1>1. own \subseteq 1 .. Len(table)
    BY DEF Completed
<1>2. own \subseteq Nat /\ IsFiniteSet(own)
    <2>1. Len(table) \in Nat
        OBVIOUS
    <2>2. IsFiniteSet(1 .. Len(table))
        BY <2>1, FS_Interval
    <2> HIDE DEF own
    <2>3. own \subseteq Nat
        BY <1>1, <2>1
    <2> QED
        BY <1>1, <2>2, <2>3, FS_Subset
<1>3. Max(own) \in own
    <2> HIDE DEF own
    <2> QED
        BY <1>2, GreatestNatural DEF own
<1>4. table[Max(own)] \in R
    <2> HIDE DEF own
    <2>1. PICK n \in 1 .. Len(table) : n = Max(own)
        BY <1>1, <1>3
    <2> QED
        BY <2>1
<1> QED
    BY <1>3, <1>4 DEF own

LEMMA Percents ==
    ASSUME NEW a \in Nat, NEW b \in Nat \ {0}, a <= b
    PROVE  (100 * a) \div b \in 0 .. 100
OBVIOUS

LEMMA EvaluationKnown ==
    ASSUME NEW table \in Seq(EvaluationRows)
    PROVE  EvaluationEvidence(table) \in EvaluationFacts
<1> DEFINE own == Completed(table, {"model"})
           e == table[Max(own)]
<1>1. CASE own = {}
    BY <1>1 DEF EvaluationEvidence, NoEval, EvaluationFacts
<1>2. CASE own # {}
    <2>1. e \in EvaluationRows
        BY <1>2, LastCompleted
    <2> HIDE DEF own, e
    <2> DEFINE share == IF e.tests = 0 THEN 0 ELSE (100 * e.passed) \div e.tests
    <2>2. e.fresh \in BOOLEAN /\ e.dataset \in BOOLEAN /\ e.tests \in Nat /\ e.passed \in Nat /\ e.passed <= e.tests
        BY <2>1 DEF EvaluationRows
    <2>3. share \in 0 .. 100
        <3>1. CASE e.tests = 0
            BY <3>1
        <3>2. CASE e.tests # 0
            <4>1. (100 * e.passed) \div e.tests \in 0 .. 100
                BY <2>2, <3>2, Percents
            <4> QED
                BY <3>2, <4>1
        <3> QED
            BY <3>1, <3>2
    <2>4. EvaluationEvidence(table)
          = [there |-> TRUE, fresh |-> e.fresh, dataset |-> e.dataset, tests |-> e.tests, accuracy |-> share]
        BY <1>2 DEF EvaluationEvidence, own, e
    <2> HIDE DEF share
    <2> QED
        BY <2>2, <2>3, <2>4 DEF EvaluationFacts
<1> QED
    BY <1>1, <1>2

LEMMA ExperimentKnown ==
    ASSUME NEW table \in Seq(ExperimentRows)
    PROVE  ExperimentEvidence(table) \in ExperimentFacts
<1> DEFINE own == Completed(table, {"model"})
           any == Completed(table, {"model", "project"})
<1>1. CASE any = {}
    BY <1>1 DEF ExperimentEvidence, NoExp, ExperimentFacts
<1>2. CASE any # {}
    <2>1. PICK e \in ExperimentRows : ExperimentEvidence(table) = ExperimentSummary(e)
        BY <1>2, LastCompleted DEF ExperimentEvidence
    <2> DEFINE grades == e.regressions \cup {0}
    <2>2. e.fresh \in BOOLEAN /\ grades \subseteq 0 .. 4
        BY <2>1 DEF ExperimentRows
    <2>3. Max(grades) \in 0 .. 4
        <3>1. grades \subseteq Nat /\ IsFiniteSet(grades) /\ grades # {}
            <4>1. PICK n \in Int : n = 4
                OBVIOUS
            <4>2. IsFiniteSet(0 .. n)
                BY FS_Interval
            <4> QED
                BY <2>2, <4>1, <4>2, FS_Subset
        <3> HIDE DEF grades
        <3> QED
            BY <2>2, <3>1, GreatestNatural
    <2> HIDE DEF grades
    <2>4. ExperimentSummary(e) = [there |-> TRUE, fresh |-> e.fresh, severity |-> Max(grades),
                                 gates |-> \A g \in e.gates : g = "PASS"]
        BY DEF ExperimentSummary, grades
    <2> QED
        BY <2>1, <2>2, <2>3, <2>4 DEF ExperimentFacts
<1> QED
    BY <1>1, <1>2

LEMMA BenchmarkKnown ==
    ASSUME NEW table \in Seq(BenchmarkRows)
    PROVE  BenchmarkEvidence(table) \in BenchmarkFacts
<1> DEFINE own == Completed(table, {"model"})
           any == Completed(table, {"model", "project", "elsewhere"})
<1>1. CASE any = {}
    BY <1>1 DEF BenchmarkEvidence, NoBench, BenchmarkFacts
<1>2. CASE any # {}
    <2>1. PICK b \in BenchmarkRows, score \in 0 .. 100 : BenchmarkEvidence(table) = BenchmarkSummary(b, score)
        <3>1. own # {} => table[Max(own)] \in BenchmarkRows
            BY LastCompleted
        <3>2. table[Max(any)] \in BenchmarkRows
            BY <1>2, LastCompleted
        <3> HIDE DEF own, any
        <3>3. CASE own = {}
            BY <1>2, <3>2, <3>3 DEF BenchmarkEvidence, BenchmarkRows, own, any
        <3>4. CASE own # {}
            BY <1>2, <3>1, <3>4 DEF BenchmarkEvidence, BenchmarkRows, own, any
        <3> QED
            BY <3>3, <3>4
    <2> DEFINE samples == b.samples \cup {0}
               confidence == IF b.pvalues = {} THEN 95 ELSE 100 - Min(b.pvalues)
    <2>2. b.fresh \in BOOLEAN /\ samples \subseteq Nat /\ IsFiniteSet(b.samples) /\ b.pvalues \subseteq 0 .. 100
        BY <2>1 DEF BenchmarkRows
    <2>3. Max(samples) \in Nat
        <3>1. IsFiniteSet(samples) /\ samples # {}
            BY <2>2, FS_AddElement
        <3> HIDE DEF samples
        <3> QED
            BY <2>2, <3>1, GreatestNatural
    <2>4. confidence \in 0 .. 100
        <3>1. b.pvalues # {} => Min(b.pvalues) \in 0 .. 100
            <4>1. 0 .. 100 \subseteq Nat
                OBVIOUS
            <4> HIDE DEF samples, confidence
            <4> QED
                BY <2>2, <4>1, Least
        <3> DEFINE p == Min(b.pvalues)
        <3>2. CASE b.pvalues = {}
            BY <3>2
        <3>3. CASE b.pvalues # {}
            <4>1. confidence = 100 - p /\ p \in 0 .. 100
                BY <3>1, <3>3
            <4> HIDE DEF p, confidence
            <4> QED
                BY <4>1
        <3> QED
            BY <3>2, <3>3
    <2> HIDE DEF samples, confidence
    <2>5. BenchmarkSummary(b, score) = [there |-> TRUE, fresh |-> b.fresh, score |-> score, sample |-> Max(samples),
                                        confidence |-> confidence]
        BY DEF BenchmarkSummary, samples, confidence
    <2> QED
        BY <2>1, <2>2, <2>3, <2>4, <2>5 DEF BenchmarkFacts
<1> QED
    BY <1>1, <1>2

LEMMA AgentKnown ==
    ASSUME NEW table \in Seq(AgentRows)
    PROVE  AgentEvidence(table) \in AgentFacts
<1>1. CASE Completed(table, {"project"}) = {}
    BY <1>1 DEF AgentEvidence, NoAgent, AgentFacts
<1>2. CASE Completed(table, {"project"}) # {}
    <2>1. table[Max(Completed(table, {"project"}))] \in AgentRows
        BY <1>2, LastCompleted
    <2> QED
        BY <1>2, <2>1 DEF AgentEvidence, AgentRows, AgentFacts
<1> QED
    BY <1>1, <1>2

(* Traces are counted in groups: some of them are no more than all. *)
CountIn(groups, some) == [g \in groups |-> IF g \in some THEN g.count ELSE 0]

LEMMA CountsAreNumbers ==
    ASSUME NEW groups \in SUBSET TraceRows, IsFiniteSet(groups), NEW some
    PROVE  CountIn(groups, some) \in [groups -> Nat] /\ TracesIn(groups, some) \in Nat
<1>1. CountIn(groups, some) \in [groups -> Nat]
    <2>1. \A g \in groups : g.count \in Nat
        BY DEF TraceRows
    <2> QED
        BY <2>1 DEF CountIn
<1>2. TracesIn(groups, some) = FoldFunction(+, 0, CountIn(groups, some))
    BY DEF TracesIn, CountIn
<1>3. \A a, b \in Nat : a + b \in Nat
    OBVIOUS
<1> DEFINE g == CountIn(groups, some)
<1> HIDE DEF g
<1>4. FoldFunction(+, 0, g) \in Nat
    BY <1>1, <1>3, SumIn DEF g
<1> QED
    BY <1>1, <1>2, <1>4 DEF g

LEMMA SomeOfTheTraces ==
    ASSUME NEW groups \in SUBSET TraceRows, IsFiniteSet(groups), groups # {}, NEW some
    PROVE  TracesIn(groups, some) <= TracesIn(groups, groups) /\ TracesIn(groups, groups) > 0
<1> DEFINE a == CountIn(groups, some)
           b == CountIn(groups, groups \ some)
           g == CountIn(groups, groups)
<1>1. /\ a \in [groups -> Nat] /\ b \in [groups -> Nat] /\ g \in [groups -> Nat]
      /\ TracesIn(groups, some) \in Nat /\ TracesIn(groups, groups \ some) \in Nat /\ TracesIn(groups, groups) \in Nat
    BY CountsAreNumbers
<1>2. \A x \in groups : x.count \in Nat \ {0}
    BY DEF TraceRows
<1>3. Combines(groups, g, 1, a, 1, b, 0, b)
    <2>1. /\ a \in [groups -> Int] /\ b \in [groups -> Int] /\ g \in [groups -> Int]
        <3> HIDE DEF a, b, g
        <3> QED
            BY <1>1
    <2>2. \A x \in groups : g[x] = 1 * a[x] + 1 * b[x] + 0 * b[x]
        BY <1>2 DEF CountIn
    <2> HIDE DEF a, b, g
    <2> QED
        BY <2>1, <2>2 DEF Combines
<1>4. /\ FoldFunction(+, 0, a) = TracesIn(groups, some) /\ FoldFunction(+, 0, g) = TracesIn(groups, groups)
      /\ FoldFunction(+, 0, b) = TracesIn(groups, groups \ some)
    BY DEF CountIn, TracesIn
<1>5. PICK x \in groups : g[x] > 0
    <2>1. PICK x \in groups : TRUE
        OBVIOUS
    <2>2. g[x] = x.count
        BY DEF CountIn
    <2> QED
        BY <1>2, <2>2
<1> HIDE DEF a, b, g
<1>6. SumIs(g, 1, a, 1, b, 0, b)
    BY <1>3, SumCombines
<1>7. FoldFunction(+, 0, g) > 0
    BY <1>1, <1>5, SumPositive
<1> DEFINE all == TracesIn(groups, groups)
           in == TracesIn(groups, some)
           out == TracesIn(groups, groups \ some)
<1>8. all = 1 * in + 1 * out + 0 * out
    BY <1>4, <1>6 DEF SumIs
<1>9. in \in Nat /\ out \in Nat /\ all \in Nat
    BY <1>1
<1>10. all > 0
    BY <1>4, <1>7
<1> HIDE DEF all, in, out
<1>11. in <= all
    BY <1>8, <1>9
<1> QED
    BY <1>10, <1>11 DEF all, in

LEMMA P95Known ==
    ASSUME NEW groups \in SUBSET TraceRows, IsFiniteSet(groups)
    PROVE  P95(groups) \in Nat
<1> DEFINE timed == {g \in groups : g.duration >= 0}
           Within(d) == TracesIn(timed, {g \in timed : g.duration <= d})
           ds == {g.duration : g \in timed}
           enough == {d \in ds : 100 * Within(d) >= 95 * TracesIn(timed, timed)}
<1>1. CASE timed = {}
    BY <1>1 DEF P95
<1>2. CASE timed # {}
    <2>1. \A g \in timed : g.duration \in Nat
        BY DEF TraceRows
    <2>2. timed \in SUBSET TraceRows /\ IsFiniteSet(timed)
        BY FS_Subset
    <2> HIDE DEF timed
    <2>3. ds \subseteq Nat /\ ds # {} /\ IsFiniteSet(ds)
        <3>1. IsFiniteSet(ds)
            <4> DEFINE f == [g \in timed |-> g.duration]
            <4>1. f \in Surjection(timed, ds)
                BY DEF Surjection
            <4> HIDE DEF f, ds
            <4> QED
                BY <2>2, <4>1, FS_Surjection
        <3> QED
            BY <1>2, <2>1, <3>1
    <2> DEFINE last == Max(ds)
    <2>4. last \in ds /\ \A d \in ds : d <= last
        BY <2>3, GreatestNatural
    <2>5. {g \in timed : g.duration <= last} = timed
        <3> HIDE DEF last
        <3> QED
            BY <2>4
    <2>6. TracesIn(timed, timed) \in Nat
        BY <2>2, CountsAreNumbers
    <2>7. last \in enough
        <3>1. Within(last) = TracesIn(timed, timed)
            BY <2>5
        <3> DEFINE n == TracesIn(timed, timed)
        <3>2. n \in Nat
            BY <2>6
        <3> HIDE DEF n
        <3>3. 100 * n >= 95 * n
            BY <3>2
        <3> HIDE DEF Within, last
        <3> QED
            BY <2>4, <3>1, <3>3 DEF n
    <2>8. Min(enough) \in enough /\ enough \subseteq Nat
        <3>1. enough \subseteq Nat /\ enough # {}
            BY <2>3, <2>7
        <3> HIDE DEF enough
        <3> QED
            BY <3>1, Least
    <2>9. P95(groups) = Min(enough)
        BY <1>2 DEF P95, timed
    <2> HIDE DEF enough
    <2> QED
        BY <2>8, <2>9
<1> QED
    BY <1>1, <1>2

LEMMA ObservabilityKnown ==
    ASSUME NEW groups \in SUBSET TraceRows, IsFiniteSet(groups)
    PROVE  ObservabilityEvidence(groups) \in OperationFacts
<1> DEFINE own == {g \in groups : g.scope = "project" /\ g.fresh}
           failed == {g \in own : g.error}
<1>1. own \in SUBSET TraceRows /\ IsFiniteSet(own)
    BY FS_Subset
<1>2. CASE own = {}
    BY <1>2 DEF ObservabilityEvidence, NoObs, OperationFacts
<1>3. CASE own # {}
    <2> DEFINE share == (100 * TracesIn(own, failed)) \div TracesIn(own, own)
    <2>1. ObservabilityEvidence(groups) = [there |-> TRUE, p95 |-> P95(own), error |-> share]
        BY <1>3 DEF ObservabilityEvidence
    <2> HIDE DEF own, failed
    <2>2. share \in 0 .. 100
        <3> DEFINE n == TracesIn(own, failed)
                   m == TracesIn(own, own)
        <3>1. n \in Nat /\ m \in Nat /\ n <= m /\ m > 0
            BY <1>1, <1>3, CountsAreNumbers, SomeOfTheTraces
        <3>2. share = (100 * n) \div m
            OBVIOUS
        <3> HIDE DEF n, m, share
        <3>3. m \in Nat \ {0}
            BY <3>1
        <3> QED
            BY <3>1, <3>2, <3>3, Percents
    <2>3. P95(own) \in Nat
        BY <1>1, P95Known
    <2> HIDE DEF share
    <2> QED
        BY <2>1, <2>2, <2>3 DEF OperationFacts
<1> QED
    BY <1>2, <1>3

(* Whatever rows there are, evidence is collected of them: of the runs first, of the
   operation at a later time. *)
RunFacts == [eval : EvaluationFacts, exp : ExperimentFacts, bench : BenchmarkFacts]

LEMMA RunsKnown ==
    ASSUME NEW w \in WorldRows
    PROVE  RunEvidence(w) \in RunFacts
<1>1. w.evals \in Seq(EvaluationRows) /\ w.exps \in Seq(ExperimentRows) /\ w.benches \in Seq(BenchmarkRows)
    BY DEF WorldRows
<1> QED
    BY <1>1, EvaluationKnown, ExperimentKnown, BenchmarkKnown DEF RunEvidence, RunFacts

LEMMA OperationKnown ==
    ASSUME NEW runs \in RunFacts, NEW w \in WorldRows
    PROVE  Join(runs, OperationEvidence(w)) \in EvidenceFacts
<1>1. /\ w.agents \in Seq(AgentRows) /\ w.traces \in SUBSET TraceRows
      /\ IsFiniteSet(w.traces) /\ IsFiniteSet(w.alerts)
    BY DEF WorldRows
<1> DEFINE active == Cardinality(ActiveAlerts(w.alerts))
           critical == Cardinality({a \in ActiveAlerts(w.alerts) : a.critical})
<1>2. active \in Nat /\ critical \in Nat
    <2>1. IsFiniteSet(ActiveAlerts(w.alerts))
        BY <1>1, FS_Subset DEF ActiveAlerts
    <2>2. IsFiniteSet({a \in ActiveAlerts(w.alerts) : a.critical})
        BY <2>1, FS_Subset
    <2> QED
        BY <2>1, <2>2, FS_CardinalityType
<1>3. runs.eval \in EvaluationFacts /\ runs.exp \in ExperimentFacts /\ runs.bench \in BenchmarkFacts
    BY DEF RunFacts
<1>4. Join(runs, OperationEvidence(w))
      = [eval |-> runs.eval, exp |-> runs.exp, bench |-> runs.bench, obs |-> ObservabilityEvidence(w.traces),
         agent |-> AgentEvidence(w.agents), active |-> active, critical |-> critical]
    BY DEF Join, OperationEvidence, RunFacts
<1> HIDE DEF active, critical
<1> QED
    BY <1>1, <1>2, <1>3, <1>4, AgentKnown, ObservabilityKnown DEF EvidenceFacts

LEMMA AggregateKnown ==
    ASSUME NEW w \in WorldRows
    PROVE  Aggregate(w) \in EvidenceFacts
BY RunsKnown, OperationKnown DEF Aggregate

(* Rows of other scopes decide nothing. *)
LEMMA OwnCompleted ==
    ASSUME NEW table, NEW own, NEW wanted, own \subseteq wanted
    PROVE  LET mine == Completed(table, own)
               r == Restrict(table, mine)
           IN Completed(r, wanted) = mine /\ Completed(r, own) = mine /\ \A i \in mine : r[i] = table[i]
BY DEF Completed, Restrict

LEMMA OwnRowsDecide ==
    ASSUME NEW w \in WorldRows, ~Borrowed(w)
    PROVE  Aggregate(OwnRows(w)) = Aggregate(w)
<1> DEFINE v == OwnRows(w)
<1>1. EvaluationEvidence(v.evals) = EvaluationEvidence(w.evals)
    <2> DEFINE own == Completed(w.evals, {"model"})
    <2>1. v.evals = Restrict(w.evals, own)
        BY DEF OwnRows
    <2>2. Completed(v.evals, {"model"}) = own /\ \A i \in own : v.evals[i] = w.evals[i]
        BY <2>1, OwnCompleted
    <2>3. CASE own = {}
        BY <2>2, <2>3 DEF EvaluationEvidence
    <2>4. CASE own # {}
        <3>1. w.evals \in Seq(EvaluationRows)
            BY DEF WorldRows
        <3>2. Max(own) \in own
            BY <2>4, <3>1, LastCompleted
        <3> QED
            BY <2>2, <2>4, <3>2 DEF EvaluationEvidence
    <2> QED
        BY <2>3, <2>4
<1>2. ExperimentEvidence(v.exps) = ExperimentEvidence(w.exps)
    <2> DEFINE own == Completed(w.exps, {"model"})
               any == Completed(w.exps, {"model", "project"})
    <2>1. v.exps = Restrict(w.exps, own)
        BY DEF OwnRows
    <2>2. Completed(v.exps, {"model"}) = own /\ Completed(v.exps, {"model", "project"}) = own
          /\ \A i \in own : v.exps[i] = w.exps[i]
        BY <2>1, OwnCompleted
    <2>3. own \subseteq any
        BY DEF Completed
    <2>4. CASE own = {}
        <3>1. any = {}
            BY <2>4 DEF Borrowed, ExperimentEvidence, ExperimentSummary
        <3> QED
            BY <2>2, <2>4, <3>1 DEF ExperimentEvidence
    <2>5. CASE own # {}
        <3>1. w.exps \in Seq(ExperimentRows)
            BY DEF WorldRows
        <3>2. Max(own) \in own
            BY <2>5, <3>1, LastCompleted
        <3> QED
            BY <2>2, <2>3, <2>5, <3>2 DEF ExperimentEvidence
    <2> QED
        BY <2>4, <2>5
<1>3. BenchmarkEvidence(v.benches) = BenchmarkEvidence(w.benches)
    <2> DEFINE own == Completed(w.benches, {"model"})
               any == Completed(w.benches, {"model", "project", "elsewhere"})
    <2>1. v.benches = Restrict(w.benches, own)
        BY DEF OwnRows
    <2>2. Completed(v.benches, {"model"}) = own /\ Completed(v.benches, {"model", "project", "elsewhere"}) = own
          /\ \A i \in own : v.benches[i] = w.benches[i]
        BY <2>1, OwnCompleted
    <2>3. own \subseteq any
        BY DEF Completed
    <2>4. CASE own = {}
        <3>1. any = {}
            BY <2>4 DEF Borrowed, BenchmarkEvidence, BenchmarkSummary
        <3> QED
            BY <2>2, <2>4, <3>1 DEF BenchmarkEvidence
    <2>5. CASE own # {}
        <3>1. w.benches \in Seq(BenchmarkRows)
            BY DEF WorldRows
        <3>2. Max(own) \in own
            BY <2>5, <3>1, LastCompleted
        <3> QED
            BY <2>2, <2>3, <2>5, <3>2 DEF BenchmarkEvidence
    <2> QED
        BY <2>4, <2>5
<1>4. AgentEvidence(v.agents) = AgentEvidence(w.agents)
    <2> DEFINE own == Completed(w.agents, {"project"})
    <2>1. v.agents = Restrict(w.agents, own)
        BY DEF OwnRows
    <2>2. Completed(v.agents, {"project"}) = own /\ \A i \in own : v.agents[i] = w.agents[i]
        BY <2>1, OwnCompleted
    <2>3. CASE own = {}
        BY <2>2, <2>3 DEF AgentEvidence
    <2>4. CASE own # {}
        <3>1. w.agents \in Seq(AgentRows)
            BY DEF WorldRows
        <3>2. Max(own) \in own
            BY <2>4, <3>1, LastCompleted
        <3> QED
            BY <2>2, <2>4, <3>2 DEF AgentEvidence
    <2> QED
        BY <2>3, <2>4
<1>5. ObservabilityEvidence(v.traces) = ObservabilityEvidence(w.traces)
    <2>1. {g \in v.traces : g.scope = "project" /\ g.fresh} = {g \in w.traces : g.scope = "project" /\ g.fresh}
        BY DEF OwnRows
    <2> QED
        BY <2>1 DEF ObservabilityEvidence
<1>6. ActiveAlerts(v.alerts) = ActiveAlerts(w.alerts)
    BY DEF OwnRows, ActiveAlerts
<1> HIDE DEF v
<1> QED
    BY <1>1, <1>2, <1>3, <1>4, <1>5, <1>6 DEF Aggregate, RunEvidence, OperationEvidence, v

-----------------------------------------------------------------------------
(* Release decisions. *)
Phases == {"idle", "collect", "observe", "decide", "supersede"}
EvaluationRow(X) ==
    [at : Phases, policy : Nat, rules : SUBSET PolicyRules, found : SUBSET X, loaded : SUBSET X, job : BOOLEAN,
     marks : SUBSET Decisions, time : Nat]
DecisionRow(X) ==
    [status : {"NONE", "DRAFT", "DECIDED", "SUPERSEDED"}, outcome : X, version : Nat, evidence : SUBSET X,
     evaluated : Nat]

(* What evidence and outcomes are made of is left open: some set holds them. *)
RowsTyped(X) ==
    /\ evaluation \in [Decisions -> EvaluationRow(X)] /\ waiting \in [Decisions -> EvaluationRow(X)]
    /\ decision \in [Decisions -> DecisionRow(X)]

UpdateRow == [version : Nat, rules : SUBSET PolicyRules, beside : BOOLEAN]

(* A version that no overlapping updates may share is stored under once; those above
   the current one are shared. *)
PoliciesTyped ==
    /\ world \in Worlds /\ clock \in Nat
    /\ policies \in Seq(SUBSET PolicyRules) /\ policy.version \in 1 .. Len(policies)
    /\ policy.rules \in policies[policy.version]
    /\ updates \in [PolicyWriters -> UpdateRow]
    /\ \A u \in PolicyWriters : updates[u].version <= Len(policies)
    /\ \A u \in PolicyWriters : updates[u] # NoUpdate /\ ~updates[u].beside => updates[u].version = policy.version
    /\ \A v \in 1 .. Len(policies) : v > policy.version => v \in contested
    /\ \A v \in 1 .. Len(policies) : v \notin contested => \A p, q \in policies[v] : p = q

(* An evaluation under way reads a version of the policy that exists, has found one
   body of evidence, and loaded all that is stored unless another one ran beside it. *)
UnderWay(d, run) ==
    run.at # "idle" =>
        /\ decision[d].status # "NONE" /\ run.policy \in 1 .. Len(policies)
        /\ \E p \in policies[run.policy] : run.rules = {p}
        /\ run.at = "observe" => \E runs \in RunFacts : run.found = {runs}
        /\ run.at \in {"decide", "supersede"} => \E ev \in EvidenceFacts : run.found = {ev}
        /\ d \notin doubled => run.loaded = decision[d].evidence

(* One that waits has read its decision and nothing else. *)
Waits(d, run) == run.at \in {"idle", "collect"} /\ (d \notin doubled => run.at = "idle") /\ UnderWay(d, run)

(* What is stored shows one body of evidence, and the outcome that follows from it. *)
EvidenceOf(ev, p) == {[seen |-> ev, rules |-> p]}
Explained(d, row) ==
    d \notin doubled /\ row.outcome # "NONE" =>
        /\ row.version \in 1 .. Len(policies)
        /\ \E ev \in EvidenceFacts, p \in policies[row.version] :
               row.evidence = EvidenceOf(ev, p) /\ row.outcome = Outcome(p, ev)

(* A decided row is known to every other evaluation about to commit, or was decided
   beside it. *)
SeenOrCrossed ==
    \A d, o \in Decisions :
        /\ d # o /\ decision[d].status = "DECIDED"
        /\ decision[o].status = "DECIDED" \/ (evaluation[o].at = "supersede" /\ d \notin evaluation[o].marks)
        => {d, o} \in crossed

DecisionSound(d) == UnderWay(d, evaluation[d]) /\ Waits(d, waiting[d]) /\ Explained(d, decision[d])

ReleaseInv ==
    /\ PoliciesTyped /\ \E X : RowsTyped(X)
    /\ \A d \in Decisions : DecisionSound(d)
    /\ SeenOrCrossed

LEMMA DecisionsAreExplained == ReleaseInv => DecisionsExplained
<1> SUFFICES ASSUME ReleaseInv
             PROVE  DecisionsExplained
    OBVIOUS
<1>1. ASSUME NEW d \in Decisions \ doubled, decision[d].outcome # "NONE", NEW e \in decision[d].evidence
      PROVE  e.rules \in policies[decision[d].version] /\ decision[d].outcome = Outcome(e.rules, e.seen)
    BY <1>1 DEF ReleaseInv, DecisionSound, Explained, EvidenceOf
<1>2. \A v \in DOMAIN policies \ contested : \A p, q \in policies[v] : p = q
    BY DEF ReleaseInv, PoliciesTyped
<1>3. \A d, o \in DecidedOnes : d # o => {d, o} \in crossed
    BY DEF ReleaseInv, SeenOrCrossed, DecidedOnes
<1> QED
    BY <1>1, <1>2, <1>3 DEF DecisionsExplained

LEMMA RowsGrow ==
    ASSUME NEW X, NEW Y, RowsTyped(X), X \subseteq Y
    PROVE  RowsTyped(Y)
<1>1. EvaluationRow(X) \subseteq EvaluationRow(Y)
    BY DEF EvaluationRow
<1>2. DecisionRow(X) \subseteq DecisionRow(Y)
    BY DEF DecisionRow
<1> QED
    BY <1>1, <1>2 DEF RowsTyped

(* A step of the evaluation of one decision that writes no decision. *)
LEMMA EvaluationWritten ==
    ASSUME ReleaseInv, NEW X, RowsTyped(X), NEW d \in Decisions, NEW run \in EvaluationRow(X),
           NEW wait \in EvaluationRow(X),
           evaluation' = [evaluation EXCEPT ![d] = run], waiting' = [waiting EXCEPT ![d] = wait],
           UNCHANGED <<policy, updates, policies, contested, world, decision, crossed>>, clock' \in Nat,
           doubled' = doubled \/ doubled' = doubled \cup {d},
           UnderWay(d, run)', Waits(d, wait)',
           \/ run.at # "supersede" \/ run = evaluation[d]
           \/ \A o \in Decisions \ {d} : decision[o].status = "DECIDED" => o \in run.marks
    PROVE  ReleaseInv'
<1>1. /\ evaluation' \in [Decisions -> EvaluationRow(X)] /\ waiting' \in [Decisions -> EvaluationRow(X)]
      /\ evaluation'[d] = run /\ waiting'[d] = wait
      /\ \A o \in Decisions \ {d} : evaluation'[o] = evaluation[o] /\ waiting'[o] = waiting[o]
    BY DEF RowsTyped
<1>2. RowsTyped(X)'
    BY <1>1 DEF RowsTyped
<1>3. PoliciesTyped'
    BY DEF ReleaseInv, PoliciesTyped
<1>4. ASSUME NEW o \in Decisions
      PROVE  DecisionSound(o)'
    <2>1. DecisionSound(o)
        BY DEF ReleaseInv
    <2>2. Explained(o, decision[o])'
        BY <2>1 DEF DecisionSound, Explained
    <2>3. CASE o = d
        BY <1>1, <2>2, <2>3 DEF DecisionSound
    <2>4. CASE o # d
        BY <1>1, <2>1, <2>2, <2>4 DEF DecisionSound, UnderWay, Waits
    <2> QED
        BY <2>3, <2>4
<1>5. SeenOrCrossed'
    BY <1>1 DEF ReleaseInv, SeenOrCrossed
<1> QED
    BY <1>2, <1>3, <1>4, <1>5 DEF ReleaseInv

LEMMA EvaluationStarted ==
    ASSUME ReleaseInv, NEW d \in Decisions, NEW job \in BOOLEAN, StartEvaluating(d, job)
    PROVE  ReleaseInv'
<1>1. PICK X : RowsTyped(X)
    BY DEF ReleaseInv
<1>2. PICK run \in EvaluationRow(X) :
          /\ run = Snapshot(d, job) /\ run.at = "collect" /\ run.policy = policy.version
          /\ run.rules = {policy.rules} /\ run.loaded = decision[d].evidence
    <2>1. PICK evidence \in SUBSET X : evidence = decision[d].evidence
        BY <1>1 DEF RowsTyped, DecisionRow
    <2>2. PICK n \in Nat, p \in PolicyRules : n = policy.version /\ p = policy.rules
        BY DEF ReleaseInv, PoliciesTyped
    <2>3. NoEvaluation \in EvaluationRow(X)
        BY DEF NoEvaluation, EvaluationRow, Phases
    <2>4. ASSUME NEW r \in EvaluationRow(X)
          PROVE  LET new == [r EXCEPT !.at = "collect", !.policy = n, !.rules = {p}, !.loaded = evidence, !.job = job]
                 IN /\ new \in EvaluationRow(X) /\ new.at = "collect" /\ new.policy = n /\ new.rules = {p}
                    /\ new.loaded = evidence
        BY DEF EvaluationRow, Phases
    <2>5. Snapshot(d, job) = [NoEvaluation EXCEPT !.at = "collect", !.policy = n, !.rules = {p},
                                                  !.loaded = evidence, !.job = job]
        BY <2>1, <2>2 DEF Snapshot
    <2> QED
        BY <2>1, <2>2, <2>3, <2>4, <2>5, Zenon
<1>3. policy.version \in 1 .. Len(policies) /\ policy.rules \in policies[policy.version]
    BY DEF ReleaseInv, PoliciesTyped
<1>4. /\ DecisionSound(d) /\ decision[d].status # "NONE"
      /\ UNCHANGED <<policy, updates, policies, contested, world, decision, crossed, clock>> /\ clock' \in Nat
    BY DEF StartEvaluating, ReleaseInv, PoliciesTyped, policyVars
<1>5. /\ evaluation \in [Decisions -> EvaluationRow(X)] /\ waiting \in [Decisions -> EvaluationRow(X)]
    BY <1>1 DEF RowsTyped
<1>6. CASE evaluation[d].at = "idle"
    <2>1. evaluation' = [evaluation EXCEPT ![d] = run] /\ UNCHANGED <<waiting, doubled>>
        BY <1>2, <1>6 DEF StartEvaluating
    <2>2. waiting' = [waiting EXCEPT ![d] = waiting[d]] /\ waiting[d] \in EvaluationRow(X)
        BY <1>5, <2>1
    <2>3. UnderWay(d, run)'
        BY <1>2, <1>3, <1>4, <2>1 DEF UnderWay
    <2>4. Waits(d, waiting[d])'
        BY <1>4, <2>1 DEF DecisionSound, Waits, UnderWay
    <2>5. PICK wait \in EvaluationRow(X) : wait = waiting[d]
        BY <2>2
    <2>6. Waits(d, wait)'
        BY <2>1, <2>4, <2>5
    <2> QED
        BY <1>1, <1>2, <1>4, <2>1, <2>2, <2>3, <2>5, <2>6, EvaluationWritten
<1>7. CASE evaluation[d].at # "idle"
    <2>1. waiting' = [waiting EXCEPT ![d] = run] /\ doubled' = doubled \cup {d} /\ UNCHANGED evaluation
        BY <1>2, <1>7 DEF StartEvaluating
    <2>2. evaluation' = [evaluation EXCEPT ![d] = evaluation[d]] /\ evaluation[d] \in EvaluationRow(X)
        BY <1>5, <2>1
    <2>3. Waits(d, run)'
        BY <1>2, <1>3, <1>4, <2>1 DEF UnderWay, Waits
    <2>5. PICK kept \in EvaluationRow(X) : kept = evaluation[d]
        BY <2>2
    <2>6. UnderWay(d, kept)'
        BY <1>4, <2>1, <2>5 DEF DecisionSound, UnderWay
    <2> QED
        BY <1>1, <1>2, <1>4, <1>7, <2>1, <2>2, <2>3, <2>5, <2>6, EvaluationWritten
<1> QED
    BY <1>6, <1>7

LEMMA EvidenceCollected ==
    ASSUME ReleaseInv, NEW d \in Decisions, NEW from \in Phases, NEW to \in {"observe", "decide"}, NEW found,
           Collect(d, from, to, found), from # "idle",
           to = "observe" => found \in RunFacts, to = "decide" => found \in EvidenceFacts
    PROVE  ReleaseInv'
<1>1. PICK Z : RowsTyped(Z)
    BY DEF ReleaseInv
<1> DEFINE X == Z \cup {found}
<1>2. RowsTyped(X)
    BY <1>1, RowsGrow
<1> HIDE DEF X
<1>3. found \in X
    BY DEF X
<1>4. PICK old \in EvaluationRow(X), wait \in EvaluationRow(X) : old = evaluation[d] /\ wait = waiting[d]
    BY <1>2 DEF RowsTyped
<1> DEFINE run == [old EXCEPT !.at = to, !.found = {found}]
<1>5. /\ run \in EvaluationRow(X) /\ run.at = to /\ run.found = {found} /\ run.policy = old.policy
      /\ run.rules = old.rules /\ run.loaded = old.loaded
    BY <1>3 DEF EvaluationRow, Phases
<1>6. /\ evaluation' = [evaluation EXCEPT ![d] = run] /\ waiting' = [waiting EXCEPT ![d] = wait]
      /\ UNCHANGED <<policy, updates, policies, contested, world, decision, crossed, clock, doubled>> /\ old.at = from
    BY <1>2, <1>4 DEF Collect, RowsTyped, policyVars
<1> HIDE DEF run
<1>7. UnderWay(d, old) /\ Waits(d, wait) /\ clock \in Nat
    BY <1>4 DEF ReleaseInv, DecisionSound, PoliciesTyped
<1>8. UnderWay(d, run)'
    BY <1>5, <1>6, <1>7 DEF UnderWay
<1>9. Waits(d, wait)'
    BY <1>6, <1>7 DEF Waits, UnderWay
<1> QED
    BY <1>2, <1>4, <1>5, <1>6, <1>7, <1>8, <1>9, EvaluationWritten

LEMMA OthersFound ==
    ASSUME ReleaseInv, NEW d \in Decisions, FindSuperseded(d)
    PROVE  ReleaseInv'
<1>1. PICK X : RowsTyped(X)
    BY DEF ReleaseInv
<1>2. PICK old \in EvaluationRow(X), wait \in EvaluationRow(X) : old = evaluation[d] /\ wait = waiting[d]
    BY <1>1 DEF RowsTyped
<1>3. PICK marks \in SUBSET Decisions : marks = Supersedable(d)
    BY DEF Supersedable, Others
<1>4. PICK time \in Nat : time = clock + 1
    BY DEF ReleaseInv, PoliciesTyped
<1> DEFINE run == [old EXCEPT !.at = "supersede", !.marks = marks, !.time = time]
<1>5. /\ run \in EvaluationRow(X) /\ run.at = "supersede" /\ run.found = old.found /\ run.policy = old.policy
      /\ run.rules = old.rules /\ run.loaded = old.loaded /\ run.marks = marks
    BY DEF EvaluationRow, Phases
<1>6. /\ evaluation' = [evaluation EXCEPT ![d] = run] /\ waiting' = [waiting EXCEPT ![d] = wait]
      /\ UNCHANGED <<policy, updates, policies, contested, world, decision, crossed, doubled>> /\ clock' \in Nat /\ old.at = "decide"
    BY <1>1, <1>2, <1>3, <1>4 DEF FindSuperseded, RowsTyped, policyVars
<1> HIDE DEF run
<1>7. UnderWay(d, old) /\ Waits(d, wait)
    BY <1>2 DEF ReleaseInv, DecisionSound
<1>8. UnderWay(d, run)'
    BY <1>5, <1>6, <1>7 DEF UnderWay
<1>9. Waits(d, wait)'
    BY <1>6, <1>7 DEF Waits, UnderWay
<1>10. \A o \in Decisions \ {d} : decision[o].status = "DECIDED" => o \in run.marks
    BY <1>3, <1>5 DEF Supersedable, Others
<1> QED
    BY <1>1, <1>2, <1>5, <1>6, <1>8, <1>9, <1>10, EvaluationWritten

(* The evaluation that waited for this one goes on. *)
LEMMA EvaluationAborted ==
    ASSUME ReleaseInv, NEW d \in Decisions, AbortEvaluation(d)
    PROVE  ReleaseInv'
<1>1. PICK X : RowsTyped(X)
    BY DEF ReleaseInv
<1>2. PICK wait \in EvaluationRow(X) : wait = waiting[d]
    BY <1>1 DEF RowsTyped
<1>3. NoEvaluation \in EvaluationRow(X) /\ NoEvaluation.at = "idle"
    BY DEF NoEvaluation, EvaluationRow, Phases
<1>4. /\ evaluation' = [evaluation EXCEPT ![d] = wait] /\ waiting' = [waiting EXCEPT ![d] = NoEvaluation]
      /\ UNCHANGED <<policy, updates, policies, contested, world, decision, crossed, clock, doubled>>
    BY <1>2 DEF AbortEvaluation, NextEvaluation, policyVars
<1>5. Waits(d, wait) /\ clock \in Nat
    BY <1>2 DEF ReleaseInv, DecisionSound, PoliciesTyped
<1>6. UnderWay(d, wait)' /\ wait.at # "supersede"
    BY <1>4, <1>5 DEF Waits, UnderWay
<1>7. Waits(d, NoEvaluation)'
    BY <1>3 DEF Waits, UnderWay
<1> QED
    BY <1>1, <1>2, <1>3, <1>4, <1>5, <1>6, <1>7, EvaluationWritten

(* The row an evaluation writes: of one evidence, unless another ran beside it. *)
LEMMA RowDecided ==
    ASSUME ReleaseInv, NEW Z, RowsTyped(Z), NEW d \in Decisions, evaluation[d].at = "supersede"
    PROVE  \E X : Z \subseteq X /\ \E row \in DecisionRow(X) :
               row = Decided(d) /\ row.status = "DECIDED" /\ Explained(d, row)
<1>1. PICK run \in EvaluationRow(Z), old \in DecisionRow(Z) : run = evaluation[d] /\ old = decision[d]
    BY DEF RowsTyped
<1>2. UnderWay(d, run)
    BY <1>1 DEF ReleaseInv, DecisionSound
<1>3. PICK ev \in EvidenceFacts : run.found = {ev}
    BY <1>1, <1>2 DEF UnderWay
<1>4. /\ run.policy \in Nat /\ run.loaded \in SUBSET Z /\ run.time \in Nat /\ old.evidence \in SUBSET Z
      /\ run.policy \in 1 .. Len(policies) /\ (d \notin doubled => run.loaded = old.evidence)
      /\ \E p \in policies[run.policy] : run.rules = {p}
    BY <1>1, <1>2 DEF EvaluationRow, DecisionRow, UnderWay
<1>5. PICK n \in Nat, time \in Nat : n = run.policy /\ time = run.time
    BY <1>4
<1>15. PICK p \in policies[n] : run.rules = {p}
    BY <1>4, <1>5
<1>6. PICK entry : entry = [seen |-> ev, rules |-> p]
    OBVIOUS
<1>7. {entry} = EvidenceOf(ev, p)
    BY <1>6 DEF EvidenceOf
<1>8. PICK evidence : evidence = (old.evidence \ run.loaded) \cup {entry}
    OBVIOUS
<1>9. PICK outcome : outcome = Outcome(p, ev)
    OBVIOUS
<1>10. /\ evaluation[d].found = {ev} /\ evaluation[d].rules = {p}
       /\ evaluation[d].policy = n /\ evaluation[d].time = time /\ evaluation[d].loaded = run.loaded
       /\ decision[d].evidence = old.evidence
    BY <1>1, <1>3, <1>5, <1>15
<1>11. Entries(evaluation[d]) = {entry}
    BY <1>6, <1>10 DEF Entries
<1>16. (CHOOSE y \in evaluation[d].rules : TRUE) = p /\ (CHOOSE x \in evaluation[d].found : TRUE) = ev
    BY <1>10
<1>12. Decided(d) = [status |-> "DECIDED", version |-> n, evaluated |-> time, evidence |-> evidence, outcome |-> outcome]
    BY <1>8, <1>9, <1>10, <1>11, <1>16 DEF Decided
<1> DEFINE X == Z \cup evidence \cup {outcome}
           row == [status |-> "DECIDED", version |-> n, evaluated |-> time, evidence |-> evidence, outcome |-> outcome]
<1>13. row \in DecisionRow(X) /\ row.status = "DECIDED" /\ row.version = n /\ row.evidence = evidence /\ row.outcome = outcome
    BY DEF DecisionRow
<1> HIDE DEF row
<1>14. Explained(d, row)
    <2>1. d \notin doubled => evidence = EvidenceOf(ev, p)
        BY <1>4, <1>7, <1>8
    <2> QED
        BY <1>4, <1>5, <1>9, <1>13, <1>15, <2>1 DEF Explained
<1> QED
    BY <1>12, <1>13, <1>14 DEF row

LEMMA DecisionCommitted ==
    ASSUME ReleaseInv, NEW d \in Decisions, DecideRelease(d)
    PROVE  ReleaseInv'
<1>1. PICK Z : RowsTyped(Z)
    BY DEF ReleaseInv
<1>2. /\ evaluation[d].at = "supersede" /\ evaluation[d].marks \cap Evaluating = {}
      /\ UNCHANGED <<policy, updates, policies, contested, world, doubled, clock>>
      /\ evaluation' = [evaluation EXCEPT ![d] = waiting[d]] /\ waiting' = [waiting EXCEPT ![d] = NoEvaluation]
    BY DEF DecideRelease, CommitDecision, NextEvaluation, policyVars
<1>3. PICK X : Z \subseteq X /\ \E row \in DecisionRow(X) :
          row = Decided(d) /\ row.status = "DECIDED" /\ Explained(d, row)
    BY <1>1, <1>2, RowDecided
<1>4. PICK row \in DecisionRow(X) : row = Decided(d) /\ row.status = "DECIDED" /\ Explained(d, row)
    BY <1>3
<1>5. RowsTyped(X)
    BY <1>1, <1>3, RowsGrow
<1>6. PICK marks \in SUBSET Decisions : marks = evaluation[d].marks
    BY <1>5 DEF RowsTyped, EvaluationRow
<1> DEFINE unseen == {o \in Others(d) : evaluation[o].at = "supersede" /\ d \notin evaluation[o].marks}
<1>7. /\ decision' = [o \in Decisions |->
             IF o = d THEN row
             ELSE IF o \in marks \cap Supersedable(d) THEN [decision[o] EXCEPT !.status = "SUPERSEDED"]
             ELSE decision[o]]
      /\ crossed' = (crossed \ {{d, o} : o \in marks}) \cup {{d, o} : o \in unseen}
    BY <1>4, <1>6 DEF DecideRelease, CommitDecision
<1>8. ASSUME NEW r \in DecisionRow(X)
      PROVE  LET new == [r EXCEPT !.status = "SUPERSEDED"]
             IN /\ new \in DecisionRow(X) /\ new.status = "SUPERSEDED" /\ new.outcome = r.outcome
                /\ new.version = r.version /\ new.evidence = r.evidence
    BY DEF DecisionRow
<1>9. \A o \in Decisions : decision[o] \in DecisionRow(X)
    BY <1>5 DEF RowsTyped
<1>10. ASSUME NEW o \in Decisions \ {d}
       PROVE  /\ decision'[o] \in DecisionRow(X) /\ decision'[o].outcome = decision[o].outcome
              /\ decision'[o].version = decision[o].version /\ decision'[o].evidence = decision[o].evidence
              /\ IF o \in marks \cap Supersedable(d) THEN decision'[o].status = "SUPERSEDED"
                 ELSE decision'[o].status = decision[o].status
    <2>1. CASE o \in marks \cap Supersedable(d)
        <3>1. decision'[o] = [decision[o] EXCEPT !.status = "SUPERSEDED"]
            BY <1>7, <2>1
        <3>2. /\ decision'[o] \in DecisionRow(X) /\ decision'[o].status = "SUPERSEDED"
              /\ decision'[o].outcome = decision[o].outcome /\ decision'[o].version = decision[o].version
              /\ decision'[o].evidence = decision[o].evidence
            BY <1>8, <1>9, <3>1, Zenon
        <3> QED
            BY <2>1, <3>2
    <2>2. CASE o \notin marks \cap Supersedable(d)
        <3>1. decision'[o] = decision[o]
            BY <1>7, <2>2
        <3> QED
            BY <1>9, <2>2, <3>1, Zenon
    <2> QED
        BY <2>1, <2>2
<1>11. decision' = [o \in Decisions |-> decision'[o]] /\ decision'[d] = row
    BY <1>7
<1>12. decision' \in [Decisions -> DecisionRow(X)]
    BY <1>10, <1>11
<1>13. PICK wait \in EvaluationRow(X) : wait = waiting[d]
    BY <1>5 DEF RowsTyped
<1>14. NoEvaluation \in EvaluationRow(X) /\ NoEvaluation.at = "idle"
    BY DEF NoEvaluation, EvaluationRow, Phases
<1>15. /\ evaluation' \in [Decisions -> EvaluationRow(X)] /\ waiting' \in [Decisions -> EvaluationRow(X)]
       /\ evaluation'[d] = wait /\ waiting'[d] = NoEvaluation
       /\ \A o \in Decisions \ {d} : evaluation'[o] = evaluation[o] /\ waiting'[o] = waiting[o]
    BY <1>2, <1>5, <1>13, <1>14 DEF RowsTyped
<1>16. RowsTyped(X)'
    BY <1>12, <1>15 DEF RowsTyped
<1>17. PoliciesTyped'
    BY <1>2 DEF ReleaseInv, PoliciesTyped
<1>18. DecisionSound(d)'
    <2>1. Waits(d, wait)
        BY <1>13 DEF ReleaseInv, DecisionSound
    <2>2. d \notin doubled => wait.at = "idle"
        BY <2>1 DEF Waits
    <2>3. wait.at # "idle" => /\ wait.at = "collect" /\ wait.policy \in 1 .. Len(policies)
                              /\ \E p \in policies[wait.policy] : wait.rules = {p}
        BY <2>1 DEF Waits, UnderWay
    <2>4. UnderWay(d, evaluation[d])'
        BY <1>2, <1>4, <1>11, <1>15, <2>2, <2>3 DEF UnderWay
    <2>5. Waits(d, waiting[d])'
        BY <1>14, <1>15 DEF Waits, UnderWay
    <2>6. Explained(d, decision[d])'
        BY <1>2, <1>4, <1>11 DEF Explained
    <2> QED
        BY <2>4, <2>5, <2>6 DEF DecisionSound
<1>19. ASSUME NEW o \in Decisions \ {d}
       PROVE  DecisionSound(o)'
    <2>1. DecisionSound(o)
        BY DEF ReleaseInv
    <2>2. decision'[o].status = "NONE" => decision[o].status = "NONE"
        BY <1>10
    <2> QED
        BY <1>2, <1>10, <1>15, <2>1, <2>2 DEF DecisionSound, UnderWay, Waits, Explained
<1>20. SeenOrCrossed'
    <2> SUFFICES ASSUME NEW x \in Decisions, NEW y \in Decisions, x # y, (decision[x].status = "DECIDED")',
                        \/ (decision[y].status = "DECIDED")'
                        \/ (evaluation[y].at = "supersede" /\ x \notin evaluation[y].marks)'
                 PROVE  ({x, y} \in crossed)'
        BY DEF SeenOrCrossed
    <2>1. wait.at # "supersede"
        BY <1>13 DEF ReleaseInv, DecisionSound, Waits
    <2>2. \A o \in Decisions \ {d} : decision'[o].status = "DECIDED" => o \notin marks /\ decision[o].status = "DECIDED"
        BY <1>10 DEF Supersedable, Others
    <2>3. \A o \in Decisions \ {d} : o \notin marks /\ {d, o} \in crossed => {d, o} \in crossed'
        BY <1>7
    <2>4. \A o \in Decisions \ {d} : decision'[o].status = "DECIDED" => {d, o} \in crossed'
        BY <1>2, <1>6, <2>2, <2>3 DEF ReleaseInv, SeenOrCrossed
    <2>5. \A o \in Decisions \ {d} : evaluation[o].at = "supersede" /\ d \notin evaluation[o].marks => {d, o} \in crossed'
        BY <1>7 DEF Others
    <2>6. CASE x = d
        BY <1>15, <2>4, <2>5, <2>6
    <2>7. CASE y = d
        <3>1. decision'[x].status = "DECIDED"
            BY <1>15
        <3>2. {d, x} \in crossed'
            BY <2>4, <2>7, <3>1
        <3> QED
            BY <2>7, <3>2
    <2>8. CASE x # d /\ y # d
        <3>1. {x, y} \in crossed
            BY <1>15, <2>2, <2>8 DEF ReleaseInv, SeenOrCrossed
        <3>2. \A o \in marks : {x, y} # {d, o}
            BY <2>8
        <3> QED
            BY <1>7, <3>1, <3>2
    <2> QED
        BY <2>6, <2>7, <2>8
<1>21. \E Y : RowsTyped(Y)'
    BY <1>16
<1> QED
    BY <1>17, <1>18, <1>19, <1>20, <1>21 DEF ReleaseInv

LEMMA DecisionCreated ==
    ASSUME ReleaseInv, NEW d \in Decisions, CreateDecision(d)
    PROVE  ReleaseInv'
<1>1. PICK Z : RowsTyped(Z)
    BY DEF ReleaseInv
<1> DEFINE X == Z \cup {"NONE"}
<1>2. RowsTyped(X)
    BY <1>1, RowsGrow
<1> HIDE DEF X
<1>3. "NONE" \in X
    BY DEF X
<1>4. PICK n \in Nat : n = policy.version
    BY DEF ReleaseInv, PoliciesTyped
<1> DEFINE row == [NoDecision EXCEPT !.status = "DRAFT", !.version = n]
<1>5. row \in DecisionRow(X) /\ row.status = "DRAFT" /\ row.outcome = "NONE"
    BY <1>3 DEF NoDecision, DecisionRow
<1>6. /\ decision[d].status = "NONE" /\ decision' = [decision EXCEPT ![d] = row]
      /\ UNCHANGED <<policy, updates, policies, contested, world, evaluation, waiting, crossed, doubled, clock>>
    BY <1>4 DEF CreateDecision, policyVars
<1> HIDE DEF row
<1>7. PICK new \in DecisionRow(X) : new = row
    BY <1>5
<1>8. /\ decision' \in [Decisions -> DecisionRow(X)] /\ decision'[d] = new
      /\ \A o \in Decisions \ {d} : decision'[o] = decision[o]
    BY <1>2, <1>6, <1>7 DEF RowsTyped
<1>9. RowsTyped(X)'
    BY <1>2, <1>6, <1>8 DEF RowsTyped
<1>10. PoliciesTyped'
    BY <1>6 DEF ReleaseInv, PoliciesTyped
<1>11. DecisionSound(d)'
    BY <1>5, <1>6, <1>7, <1>8 DEF ReleaseInv, DecisionSound, UnderWay, Waits, Explained
<1>12. ASSUME NEW o \in Decisions \ {d}
       PROVE  DecisionSound(o)'
    BY <1>6, <1>8 DEF ReleaseInv, DecisionSound, UnderWay, Waits, Explained
<1>13. SeenOrCrossed'
    BY <1>5, <1>6, <1>7, <1>8 DEF ReleaseInv, SeenOrCrossed
<1> QED
    BY <1>9, <1>10, <1>11, <1>12, <1>13 DEF ReleaseInv

(* Rules are added under the versions and never taken away. *)
LEMMA RulesMerged ==
    ASSUME NEW row \in PolicyRules, NEW p \in PolicyRules, NEW loaded, NEW asked
    PROVE  Merged(row, loaded, p, asked) \in PolicyRules
<1> DEFINE m == Merged(row, loaded, p, asked)
<1>1. DOMAIN row = {"reqEval", "reqBench", "dataset", "gates", "minScore", "maxSeverity", "maxAlerts", "maxError",
                    "maxP95", "minSample", "minConfidence"}
    BY DEF PolicyRules
<1>2. m = [f \in DOMAIN row |-> m[f]] /\ \A f \in DOMAIN row : m[f] \in {p[f], row[f]}
    BY Zenon DEF Merged
<1> SUFFICES m \in PolicyRules
    OBVIOUS
<1>3. \A f \in DOMAIN row : m[f] = p[f] \/ m[f] = row[f]
    BY <1>2
<1> HIDE DEF m
<1>4. m = [reqEval |-> m["reqEval"], reqBench |-> m["reqBench"], dataset |-> m["dataset"], gates |-> m["gates"],
           minScore |-> m["minScore"], maxSeverity |-> m["maxSeverity"], maxAlerts |-> m["maxAlerts"],
           maxError |-> m["maxError"], maxP95 |-> m["maxP95"], minSample |-> m["minSample"],
           minConfidence |-> m["minConfidence"]]
    BY <1>1, <1>2
<1> QED
    BY <1>1, <1>3, <1>4 DEF PolicyRules

LEMMA SetStored ==
    ASSUME NEW V, NEW q \in Seq(V), NEW k \in 1 .. Len(q) + 1, NEW p, {p} \in V,
           \A s \in V : s \cup {p} \in V, NEW r,
           r = IF k > Len(q) THEN Append(q, {p}) ELSE [q EXCEPT ![k] = @ \cup {p}]
    PROVE  /\ r \in Seq(V) /\ Len(r) = IF k > Len(q) THEN k ELSE Len(q)
           /\ p \in r[k] /\ \A i \in 1 .. Len(q) : i # k => r[i] = q[i]
           /\ \A i \in 1 .. Len(q) : q[i] \subseteq r[i]
           /\ k > Len(q) => r[k] = {p}
<1>1. CASE k > Len(q)
    <2>1. k = Len(q) + 1 /\ r = Append(q, {p})
        BY <1>1
    <2> QED
        BY <1>1, <2>1
<1>2. CASE k <= Len(q)
    <2>4. q[k] \in V
        BY <1>2
    <2>1. PICK new \in V : new = q[k] \cup {p}
        BY <2>4
    <2>2. r = [q EXCEPT ![k] = new]
        BY <1>2, <2>1
    <2>3. r \in Seq(V) /\ Len(r) = Len(q) /\ r[k] = new /\ \A i \in 1 .. Len(q) : i # k => r[i] = q[i]
        BY <1>2, <2>2
    <2> QED
        BY <1>2, <2>1, <2>3
<1> QED
    BY <1>1, <1>2

LEMMA RulesStored ==
    ASSUME NEW q \in Seq(SUBSET PolicyRules), NEW k \in 1 .. Len(q) + 1, NEW p \in PolicyRules, NEW r,
           r = IF k > Len(q) THEN Append(q, {p}) ELSE [q EXCEPT ![k] = @ \cup {p}]
    PROVE  /\ r \in Seq(SUBSET PolicyRules) /\ Len(r) = IF k > Len(q) THEN k ELSE Len(q)
           /\ p \in r[k] /\ \A i \in 1 .. Len(q) : i # k => r[i] = q[i]
           /\ \A i \in 1 .. Len(q) : q[i] \subseteq r[i]
           /\ k > Len(q) => r[k] = {p}
<1>1. {p} \in SUBSET PolicyRules /\ \A s \in SUBSET PolicyRules : s \cup {p} \in SUBSET PolicyRules
    OBVIOUS
<1> QED
    BY <1>1, SetStored

LEMMA PolicyLoaded ==
    ASSUME ReleaseInv, NEW u \in PolicyWriters, LoadPolicy(u)
    PROVE  ReleaseInv'
<1>1. /\ policies \in Seq(SUBSET PolicyRules) /\ policy.version \in 1 .. Len(policies)
      /\ policy.rules \in policies[policy.version] /\ updates \in [PolicyWriters -> UpdateRow]
    BY DEF ReleaseInv, PoliciesTyped
<1>2. PICK n \in Nat, p \in PolicyRules : n = policy.version /\ p = policy.rules /\ n <= Len(policies)
    BY <1>1
<1> DEFINE row == [version |-> n, rules |-> {p}, beside |-> FALSE]
<1>8. PICK rules \in SUBSET PolicyRules : rules = {p}
    OBVIOUS
<1>9. PICK b \in BOOLEAN : b = FALSE
    OBVIOUS
<1>10. PICK new : new = [version |-> n, rules |-> rules, beside |-> b]
    OBVIOUS
<1>11. new \in UpdateRow /\ new.version = n
    BY <1>2, <1>10 DEF UpdateRow
<1>3. row \in UpdateRow /\ row.version = n
    BY <1>8, <1>9, <1>10, <1>11
<1> HIDE DEF row
<1>4. updates' = [updates EXCEPT ![u] = row]
      /\ UNCHANGED <<policy, policies, contested, world, decision, evaluation, waiting, crossed, doubled, clock>>
    BY <1>2 DEF LoadPolicy, decisionVars, row
<1>5. updates' \in [PolicyWriters -> UpdateRow] /\ updates'[u] = row /\ \A v \in PolicyWriters \ {u} : updates'[v] = updates[v]
    BY <1>1, <1>3, <1>4
<1>6. PoliciesTyped'
    BY <1>2, <1>3, <1>4, <1>5 DEF ReleaseInv, PoliciesTyped
<1>7. ASSUME NEW d \in Decisions
      PROVE  DecisionSound(d)'
    BY <1>4 DEF ReleaseInv, DecisionSound, UnderWay, Waits, Explained
<1> QED
    BY <1>4, <1>6, <1>7 DEF ReleaseInv, RowsTyped, SeenOrCrossed

LEMMA PolicyStored ==
    ASSUME ReleaseInv, NEW u \in PolicyWriters, StorePolicy(u)
    PROVE  ReleaseInv'
<1>1. /\ policies \in Seq(SUBSET PolicyRules) /\ policy.version \in 1 .. Len(policies)
      /\ policy.rules \in policies[policy.version] /\ updates \in [PolicyWriters -> UpdateRow]
      /\ world \in Worlds /\ clock \in Nat
      /\ \A v \in PolicyWriters : updates[v].version <= Len(policies)
      /\ \A v \in PolicyWriters : updates[v] # NoUpdate /\ ~updates[v].beside => updates[v].version = policy.version
      /\ \A v \in 1 .. Len(policies) : v > policy.version => v \in contested
      /\ \A v \in 1 .. Len(policies) : v \notin contested => \A p, q \in policies[v] : p = q
    BY DEF ReleaseInv, PoliciesTyped
<1>2. PICK n \in Nat, m \in Nat : n = Len(policies) /\ m = updates[u].version /\ m <= n
    BY <1>1 DEF UpdateRow
<1>3. PICK p \in Policies, asked \in AskedRules, loaded \in updates[u].rules :
          LET rules == Merged(policy.rules, loaded, p, asked)
          IN /\ policy' = [version |-> m + 1, rules |-> rules]
             /\ policies' = IF m + 1 > n THEN Append(policies, {rules})
                            ELSE [policies EXCEPT ![m + 1] = @ \cup {rules}]
             /\ contested' = IF updates[u].beside THEN contested \cup (m + 1) .. n ELSE contested
    BY <1>2 DEF StorePolicy
<1>4. PICK rules \in PolicyRules : rules = Merged(policy.rules, loaded, p, asked)
    BY <1>1, ReleaseAssumption, RulesMerged
<1>5. /\ policy'.version = m + 1 /\ policy'.rules = rules
      /\ policies' = IF m + 1 > n THEN Append(policies, {rules}) ELSE [policies EXCEPT ![m + 1] = @ \cup {rules}]
      /\ contested' = IF updates[u].beside THEN contested \cup (m + 1) .. n ELSE contested
    BY <1>3, <1>4
<1>6. /\ policies' \in Seq(SUBSET PolicyRules) /\ Len(policies') = IF m + 1 > n THEN m + 1 ELSE n
      /\ rules \in policies'[m + 1] /\ \A i \in 1 .. n : i # m + 1 => policies'[i] = policies[i]
      /\ \A i \in 1 .. n : policies[i] \subseteq policies'[i]
      /\ m + 1 > n => policies'[m + 1] = {rules}
    <2>1. PICK k \in 1 .. Len(policies) + 1 : k = m + 1
        BY <1>2
    <2>2. PICK r : r = policies'
        OBVIOUS
    <2>3. r = IF k > Len(policies) THEN Append(policies, {rules}) ELSE [policies EXCEPT ![k] = @ \cup {rules}]
        BY <1>2, <1>5, <2>1, <2>2
    <2>4. /\ r \in Seq(SUBSET PolicyRules) /\ Len(r) = IF k > Len(policies) THEN k ELSE Len(policies)
          /\ rules \in r[k] /\ \A i \in 1 .. Len(policies) : i # k => r[i] = policies[i]
          /\ \A i \in 1 .. Len(policies) : policies[i] \subseteq r[i]
          /\ k > Len(policies) => r[k] = {rules}
        BY <1>1, <2>3, RulesStored
    <2> QED
        BY <1>2, <2>1, <2>2, <2>4
<1>7. updates[u] # NoUpdate
      /\ UNCHANGED <<world, decision, evaluation, waiting, crossed, doubled, clock>>
    BY DEF StorePolicy, decisionVars
<1>8. /\ updates' \in [PolicyWriters -> UpdateRow]
      /\ \A v \in PolicyWriters : updates'[v].version <= n /\ (updates'[v] = NoUpdate \/ updates'[v].beside)
    <2>1. NoUpdate \in UpdateRow /\ NoUpdate.version = 0
        BY DEF NoUpdate, UpdateRow
    <2>2. ASSUME NEW row \in UpdateRow
          PROVE  LET new == [row EXCEPT !.beside = row # NoUpdate]
                 IN /\ new \in UpdateRow /\ new.version = row.version /\ (row = NoUpdate => new = NoUpdate)
                    /\ (row # NoUpdate => new.beside)
        <3>1. PICK b \in BOOLEAN : b = (row # NoUpdate)
            OBVIOUS
        <3>2. PICK new : new = [row EXCEPT !.beside = b]
            OBVIOUS
        <3>3. new \in UpdateRow /\ new.version = row.version /\ new.beside = b
            BY <3>2 DEF UpdateRow
        <3>4. row = NoUpdate => new = NoUpdate
            <4>1. PICK from : from = row.version
                OBVIOUS
            <4>2. PICK held : held = row.rules
                OBVIOUS
            <4>3. row = [version |-> from, rules |-> held, beside |-> row.beside]
                BY <4>1, <4>2 DEF UpdateRow
            <4>4. new = [version |-> from, rules |-> held, beside |-> b]
                BY <3>2, <4>3
            <4>5. NoUpdate.beside = FALSE
                BY DEF NoUpdate
            <4> QED
                BY <3>1, <4>3, <4>4, <4>5
        <3> QED
            BY <3>1, <3>2, <3>3, <3>4, Zenon
    <2>3. ASSUME NEW v \in PolicyWriters
          PROVE  /\ updates'[v] \in UpdateRow /\ updates'[v].version <= n
                 /\ updates'[v] = NoUpdate \/ updates'[v].beside
        <3>1. PICK row \in UpdateRow : row = updates[v] /\ row.version <= n
            BY <1>1, <1>2
        <3>2. updates'[v] = IF v = u THEN NoUpdate ELSE [row EXCEPT !.beside = row # NoUpdate]
            BY <3>1 DEF StorePolicy
        <3>3. PICK new : new = [row EXCEPT !.beside = row # NoUpdate]
            OBVIOUS
        <3>4. /\ new \in UpdateRow /\ new.version = row.version /\ (row = NoUpdate => new = NoUpdate)
              /\ (row # NoUpdate => new.beside)
            BY <2>2, <3>3
        <3> QED
            BY <1>2, <2>1, <3>1, <3>2, <3>3, <3>4
    <2>4. updates' = [v \in PolicyWriters |-> updates'[v]]
        BY DEF StorePolicy
    <2> QED
        BY <2>3, <2>4
<1>9. ASSUME NEW v \in 1 .. Len(policies'), v \notin contested'
      PROVE  v <= m + 1 /\ \A a, b \in policies'[v] : a = b
    <2>1. CASE updates[u].beside
        <3>1. v \notin contested /\ v \notin (m + 1) .. n
            BY <1>5, <1>9, <2>1
        <3> QED
            BY <1>1, <1>2, <1>6, <1>9, <3>1
    <2>2. CASE ~updates[u].beside
        <3>1. m = policy.version /\ v \notin contested
            BY <1>1, <1>2, <1>5, <1>7, <1>9, <2>2
        <3>2. v \in 1 .. n => v <= m
            BY <1>1, <1>2, <3>1
        <3> QED
            BY <1>1, <1>2, <1>6, <1>9, <3>1, <3>2
    <2> QED
        BY <2>1, <2>2
<1>10. PoliciesTyped'
    <2>1. policy'.version \in 1 .. Len(policies') /\ policy'.rules \in policies'[policy'.version]
        BY <1>2, <1>5, <1>6
    <2>2. \A v \in PolicyWriters : updates'[v].version <= Len(policies')
        BY <1>2, <1>6, <1>8 DEF UpdateRow
    <2>3. \A v \in 1 .. Len(policies') : v > policy'.version => v \in contested'
        <3>1. ASSUME NEW v \in 1 .. Len(policies'), v > policy'.version, v \notin contested'
              PROVE  FALSE
            <4>1. v <= m + 1 /\ v \in Nat
                BY <1>9, <3>1
            <4> QED
                BY <1>2, <1>5, <3>1, <4>1
        <3> QED
            BY <3>1
    <2>4. \A v \in 1 .. Len(policies') : v \notin contested' => \A a, b \in policies'[v] : a = b
        BY <1>9
    <2>5. \A v \in PolicyWriters : updates'[v] # NoUpdate /\ ~updates'[v].beside => updates'[v].version = policy'.version
        BY <1>8
    <2>6. world' \in Worlds /\ clock' \in Nat
        BY <1>1, <1>7
    <2>7. policies' \in Seq(SUBSET PolicyRules) /\ updates' \in [PolicyWriters -> UpdateRow]
        BY <1>6, <1>8
    <2> QED
        BY <2>1, <2>2, <2>3, <2>4, <2>5, <2>6, <2>7 DEF PoliciesTyped
<1>11. \A i \in 1 .. Len(policies) : i \in 1 .. Len(policies') /\ policies[i] \subseteq policies'[i]
    BY <1>2, <1>6
<1>12. ASSUME NEW d \in Decisions
       PROVE  DecisionSound(d)'
    BY <1>7, <1>11 DEF ReleaseInv, DecisionSound, UnderWay, Waits, Explained
<1> QED
    BY <1>7, <1>10, <1>12 DEF ReleaseInv, RowsTyped, SeenOrCrossed

LEMMA ReleaseStays ==
    ASSUME ReleaseInv, world' \in Worlds, UNCHANGED <<policy, updates, policies, contested, decision, evaluation, waiting, crossed, doubled, clock>>
    PROVE  ReleaseInv'
<1>1. PoliciesTyped' /\ \E X : RowsTyped(X)'
    BY DEF ReleaseInv, PoliciesTyped, RowsTyped
<1>2. ASSUME NEW d \in Decisions
      PROVE  DecisionSound(d)'
    BY DEF ReleaseInv, DecisionSound, UnderWay, Waits, Explained
<1>3. SeenOrCrossed'
    BY DEF ReleaseInv, SeenOrCrossed
<1> QED
    BY <1>1, <1>2, <1>3 DEF ReleaseInv

LEMMA ReleaseStarts == ReleaseInit => ReleaseInv
<1> SUFFICES ASSUME ReleaseInit
             PROVE  ReleaseInv
    OBVIOUS
<1>1. PICK p \in Policies : policies = <<{p}>> /\ policy = [version |-> 1, rules |-> p]
    BY DEF ReleaseInit
<1>2. PoliciesTyped
    <2>1. NoUpdate \in UpdateRow /\ NoUpdate.version = 0
        BY DEF NoUpdate, UpdateRow
    <2>2. /\ updates \in [PolicyWriters -> UpdateRow] /\ world \in Worlds /\ clock = 0
          /\ \A u \in PolicyWriters : updates[u] = NoUpdate
        BY <2>1 DEF ReleaseInit
    <2>3. p \in PolicyRules
        BY ReleaseAssumption
    <2>4. policies \in Seq(SUBSET PolicyRules) /\ Len(policies) = 1 /\ policies[1] = {p}
        BY <1>1, <2>3
    <2> QED
        BY <1>1, <2>1, <2>2, <2>4 DEF PoliciesTyped
<1>3. NoEvaluation \in EvaluationRow({"NONE"}) /\ NoEvaluation.at = "idle"
    BY DEF NoEvaluation, EvaluationRow, Phases
<1>4. NoDecision \in DecisionRow({"NONE"}) /\ NoDecision.outcome = "NONE" /\ NoDecision.status = "NONE"
    BY DEF NoDecision, DecisionRow
<1>5. RowsTyped({"NONE"})
    BY <1>3, <1>4 DEF ReleaseInit, RowsTyped
<1>6. ASSUME NEW d \in Decisions
      PROVE  DecisionSound(d)
    BY <1>3, <1>4 DEF ReleaseInit, DecisionSound, UnderWay, Waits, Explained
<1>7. SeenOrCrossed
    BY <1>4 DEF ReleaseInit, SeenOrCrossed
<1> QED
    BY <1>2, <1>5, <1>6, <1>7 DEF ReleaseInv

LEMMA ReleasePreserves == ReleaseInv /\ [ReleaseNext]_releaseVars => ReleaseInv'
<1> SUFFICES ASSUME ReleaseInv, [ReleaseNext]_releaseVars
             PROVE  ReleaseInv'
    OBVIOUS
<1>0. world \in WorldRows /\ world \in Worlds
    BY ReleaseAssumption DEF ReleaseInv, PoliciesTyped
<1>1. CASE UpdatePolicy
    BY <1>1, PolicyLoaded, PolicyStored DEF UpdatePolicy
<1>2. CASE WorldChanges
    BY <1>2, ReleaseStays DEF WorldChanges, policyVars
<1>3. ASSUME NEW d \in Decisions, CreateDecision(d)
      PROVE  ReleaseInv'
    BY <1>3, DecisionCreated
<1>4. ASSUME NEW d \in Decisions, NEW job \in BOOLEAN, StartEvaluating(d, job)
      PROVE  ReleaseInv'
    BY <1>4, EvaluationStarted
<1>5. ASSUME NEW d \in Decisions, CollectRuns(d)
      PROVE  ReleaseInv'
    <2>1. Collect(d, "collect", "observe", RunEvidence(world)) /\ RunEvidence(world) \in RunFacts
        BY <1>0, <1>5, RunsKnown DEF CollectRuns
    <2> QED
        BY <2>1, EvidenceCollected DEF Phases
<1>6. ASSUME NEW d \in Decisions, CollectOperation(d)
      PROVE  ReleaseInv'
    <2>1. PICK runs \in evaluation[d].found : Collect(d, "observe", "decide", Join(runs, OperationEvidence(world)))
        BY <1>6 DEF CollectOperation
    <2>2. runs \in RunFacts
        <3>1. UnderWay(d, evaluation[d]) /\ evaluation[d].at = "observe"
            BY <2>1 DEF ReleaseInv, DecisionSound, Collect
        <3> QED
            BY <2>1, <3>1 DEF UnderWay
    <2>3. Join(runs, OperationEvidence(world)) \in EvidenceFacts
        BY <1>0, <2>2, OperationKnown
    <2> QED
        BY <2>1, <2>3, EvidenceCollected DEF Phases
<1>7. ASSUME NEW d \in Decisions, FindSuperseded(d)
      PROVE  ReleaseInv'
    BY <1>7, OthersFound
<1>8. ASSUME NEW d \in Decisions, DecideRelease(d)
      PROVE  ReleaseInv'
    BY <1>8, DecisionCommitted
<1>9. ASSUME NEW d \in Decisions, AbortEvaluation(d)
      PROVE  ReleaseInv'
    BY <1>9, EvaluationAborted
<1>10. ASSUME NEW d \in Decisions, VerifyEvidence(d)
       PROVE  ReleaseInv'
    BY <1>0, <1>10, ReleaseStays DEF VerifyEvidence, policyVars
<1>11. CASE UNCHANGED releaseVars
    BY <1>0, <1>11, ReleaseStays DEF releaseVars, policyVars
<1> QED
    BY <1>1, <1>2, <1>3, <1>4, <1>5, <1>6, <1>7, <1>8, <1>9, <1>10, <1>11 DEF ReleaseNext

(* Whatever is updated meanwhile, the outcome a decision shows follows from the
   evidence stored with it and from rules stored under its version unless it was
   evaluated twice at once, a version names one policy unless updates overlapped, and
   two decisions are current only if each was decided before the other saw it:
   evaluate_decision, update_policy and mark_superseded. *)
THEOREM DecisionsStayExplained == ReleaseSpec => []DecisionsExplained
BY ReleaseStarts, ReleasePreserves, DecisionsAreExplained, PTL DEF ReleaseSpec

-----------------------------------------------------------------------------
(* Release decisions: what an approval is worth. *)

(* An approval has passed every check but, where nothing is required, missing ones
   that do not block; passing every check is approved. *)
LEMMA ApprovedHasPassed ==
    ASSUME NEW p \in PolicyRules, NEW ev
    PROVE  /\ Outcome(p, ev) = "APPROVED" =>
              \A c \in Checks(p, ev) :
                  /\ c.status \notin {"FAIL", "WARNING", "STALE"}
                  /\ c.status = "MISSING" => ~c.blocking /\ ~p.reqEval /\ ~p.reqBench
           /\ (\A c \in Checks(p, ev) : c.status = "PASS") => Outcome(p, ev) = "APPROVED"
<1> DEFINE checks == Checks(p, ev)
<1>1. ASSUME Outcome(p, ev) = "APPROVED", NEW c \in checks
      PROVE  /\ c.status \notin {"FAIL", "WARNING", "STALE"}
             /\ c.status = "MISSING" => ~c.blocking /\ ~p.reqEval /\ ~p.reqBench
    <2> HIDE DEF checks
    <2> QED
        BY <1>1 DEF Outcome, PolicyRules, checks
<1>2. ASSUME \A c \in checks : c.status = "PASS"
      PROVE  Outcome(p, ev) = "APPROVED"
    BY <1>2 DEF Outcome
<1> QED
    BY <1>1, <1>2

LEMMA ChecksAre ==
    ASSUME NEW p, NEW ev
    PROVE  Checks(p, ev) =
               Required("required_evaluation", p.reqEval, ev.eval.there)
               \cup Required("required_benchmark", p.reqBench, ev.bench.there)
               \cup Freshness(ev) \cup DatasetRule(p, ev) \cup ScoreRule(p, ev) \cup SeverityRule(p, ev)
               \cup GatesRule(p, ev) \cup AlertRule(p, ev) \cup ErrorRule(p, ev) \cup LatencyRule(p, ev)
               \cup SampleCheck(p, ev) \cup ConfidenceCheck(p, ev) \cup AgentSafety(ev)
BY DEF Checks

LEMMA EarnedIsApproved ==
    ASSUME NEW p \in PolicyRules, NEW ev \in EvidenceFacts, Earned(p, ev)
    PROVE  Outcome(p, ev) = "APPROVED"
<1> USE DEF PolicyRules, EvidenceFacts, EvaluationFacts, ExperimentFacts, BenchmarkFacts,
            OperationFacts, AgentFacts
<1>1. /\ \A c \in Required("required_evaluation", p.reqEval, ev.eval.there) : c.status = "PASS"
      /\ \A c \in Required("required_benchmark", p.reqBench, ev.bench.there) : c.status = "PASS"
    BY DEF Earned, Required, Judge, Check
<1>2. \A c \in Freshness(ev) : c.status = "PASS"
    BY DEF Earned, Freshness, Check, Sources
<1>3. \A c \in DatasetRule(p, ev) \cup ScoreRule(p, ev) \cup GatesRule(p, ev) : c.status = "PASS"
    BY DEF Earned, DatasetRule, ScoreRule, GatesRule, Judge, Check
<1>4. \A c \in SeverityRule(p, ev) : c.status = "PASS"
    BY DEF Earned, SeverityRule, Severity, Unset, Judge, Check
<1>5. \A c \in AlertRule(p, ev) \cup ErrorRule(p, ev) \cup LatencyRule(p, ev) : c.status = "PASS"
    BY DEF Earned, AlertRule, ErrorRule, LatencyRule, Judge, Check
<1>6. \A c \in SampleCheck(p, ev) : c.status = "PASS"
    BY DEF Earned, SampleCheck, Check, Unset
<1>7. \A c \in ConfidenceCheck(p, ev) \cup AgentSafety(ev) : c.status = "PASS"
    BY DEF Earned, ConfidenceCheck, AgentSafety, Judge, Check
<1>8. \A c \in Checks(p, ev) : c.status = "PASS"
    BY <1>1, <1>2, <1>3, <1>4, <1>5, <1>6, <1>7, ChecksAre
<1> QED
    BY <1>8, ApprovedHasPassed

(* What an approval shows of a rule whose evidence may not be absent unnoticed. *)
LEMMA ApprovedHolds ==
    ASSUME NEW p \in PolicyRules, NEW ev, Outcome(p, ev) = "APPROVED",
           NEW rule, NEW status \in {"FAIL", "MISSING", "WARNING", "STALE"}, NEW blocking \in BOOLEAN,
           status = "MISSING" => blocking
    PROVE  Check(rule, status, blocking) \notin Checks(p, ev)
<1>1. Check(rule, status, blocking).status = status /\ Check(rule, status, blocking).blocking = blocking
    BY DEF Check
<1> QED
    BY <1>1, ApprovedHasPassed

LEMMA ApprovedIsEarned ==
    ASSUME NEW p \in PolicyRules, NEW ev \in EvidenceFacts, Outcome(p, ev) = "APPROVED"
    PROVE  \/ Earned(p, ev)
           \/ UnnoticedSamples(p, ev) /\ Earned([p EXCEPT !.minSample = Unset], ev)
<1> USE DEF PolicyRules, EvidenceFacts, EvaluationFacts, ExperimentFacts, BenchmarkFacts,
            OperationFacts, AgentFacts
<1>1. (p.reqEval => ev.eval.there) /\ (p.reqBench => ev.bench.there)
    BY ApprovedHolds, ChecksAre DEF Required, Judge
<1>2. \A s \in Sources : ev[s].there => ev[s].fresh
    <2>1. TAKE s \in Sources
    <2>2. ev[s].there /\ ~ev[s].fresh => Check(s, "STALE", FALSE) \in Freshness(ev)
        BY DEF Freshness
    <2> QED
        BY <2>2, ApprovedHolds, ChecksAre DEF Sources
<1>3. p.dataset => ev.eval.there /\ ev.eval.dataset
    <2>1. p.dataset /\ ~(ev.eval.there /\ ev.eval.dataset) =>
              Check("dataset_version_compatibility", "FAIL", TRUE) \in DatasetRule(p, ev)
        BY DEF DatasetRule, Judge
    <2> QED
        BY <2>1, ApprovedHolds, ChecksAre
<1>4. p.minScore # Unset => ev.bench.there /\ ev.bench.score >= p.minScore
    <2>1. /\ p.minScore # Unset /\ ~ev.bench.there =>
                 Check("min_reliability_score", "MISSING", TRUE) \in ScoreRule(p, ev)
          /\ p.minScore # Unset /\ ev.bench.there /\ ~(ev.bench.score >= p.minScore) =>
                 Check("min_reliability_score", "FAIL", FALSE) \in ScoreRule(p, ev)
        BY DEF ScoreRule, Judge
    <2> QED
        BY <2>1, ApprovedHolds, ChecksAre
<1>5. p.gates => ev.exp.there /\ ev.exp.gates
    <2>1. /\ p.gates /\ ~ev.exp.there => Check("required_quality_gates", "MISSING", TRUE) \in GatesRule(p, ev)
          /\ p.gates /\ ev.exp.there /\ ~ev.exp.gates =>
                 Check("required_quality_gates", "FAIL", TRUE) \in GatesRule(p, ev)
        BY DEF GatesRule, Judge
    <2> QED
        BY <2>1, ApprovedHolds, ChecksAre
<1>6. p.maxSeverity # Unset /\ ev.exp.there => ev.exp.severity <= p.maxSeverity
    <2>1. p.maxSeverity # Unset /\ ev.exp.there /\ ~(ev.exp.severity <= p.maxSeverity) =>
              Check("max_regression_severity", "FAIL", TRUE) \in SeverityRule(p, ev)
        BY DEF SeverityRule, Severity, Judge
    <2> QED
        BY <2>1, ApprovedHolds, ChecksAre
<1>7. ev.critical <= p.maxAlerts
    <2>1. ~(ev.critical <= p.maxAlerts) => Check("critical_alerts", "FAIL", TRUE) \in AlertRule(p, ev)
        BY DEF AlertRule, Judge
    <2> QED
        BY <2>1, ApprovedHolds, ChecksAre
<1>8. p.maxError # Unset => ev.obs.there /\ ev.obs.error <= p.maxError
    <2>1. /\ p.maxError # Unset /\ ~ev.obs.there =>
                 Check("max_error_rate", "WARNING", FALSE) \in ErrorRule(p, ev)
          /\ p.maxError # Unset /\ ev.obs.there /\ ~(ev.obs.error <= p.maxError) =>
                 Check("max_error_rate", "FAIL", FALSE) \in ErrorRule(p, ev)
        BY DEF ErrorRule, Judge
    <2> QED
        BY <2>1, ApprovedHolds, ChecksAre
<1>9. p.maxP95 # Unset => ev.obs.there /\ ev.obs.p95 <= p.maxP95
    <2>1. /\ p.maxP95 # Unset /\ ~ev.obs.there =>
                 Check("max_p95_latency", "WARNING", FALSE) \in LatencyRule(p, ev)
          /\ p.maxP95 # Unset /\ ev.obs.there /\ ~(ev.obs.p95 <= p.maxP95) =>
                 Check("max_p95_latency", "FAIL", FALSE) \in LatencyRule(p, ev)
        BY DEF LatencyRule, Judge
    <2> QED
        BY <2>1, ApprovedHolds, ChecksAre
<1>10. p.minConfidence # Unset => ev.bench.there /\ ev.bench.confidence >= p.minConfidence
    <2>1. /\ p.minConfidence # Unset /\ ~ev.bench.there =>
                 Check("min_statistical_confidence", "WARNING", FALSE) \in ConfidenceCheck(p, ev)
          /\ p.minConfidence # Unset /\ ev.bench.there /\ ~(ev.bench.confidence >= p.minConfidence) =>
                 Check("min_statistical_confidence", "FAIL", FALSE) \in ConfidenceCheck(p, ev)
        BY DEF ConfidenceCheck, Judge
    <2> QED
        BY <2>1, ApprovedHolds, ChecksAre
<1>11. ev.agent.there => ev.agent.violations = 0
    <2>1. ev.agent.there /\ ev.agent.violations # 0 => Check("agent_safety", "FAIL", TRUE) \in AgentSafety(ev)
        BY DEF AgentSafety, Judge
    <2> QED
        BY <2>1, ApprovedHolds, ChecksAre
<1>12. \/ p.minSample # Unset => ev.bench.sample >= p.minSample \/ ev.eval.tests >= p.minSample
       \/ UnnoticedSamples(p, ev)
    <2> DEFINE most == IF ev.bench.sample >= ev.eval.tests THEN ev.bench.sample ELSE ev.eval.tests
    <2>1. CASE p.minSample = Unset \/ most >= p.minSample
        BY <2>1
    <2>2. CASE p.minSample # Unset /\ ~(most >= p.minSample)
        <3>1. PICK status \in {"WARNING", "MISSING", "FAIL"} :
                  /\ SampleCheck(p, ev) = {Check("min_sample_size", status, FALSE)}
                  /\ status = "MISSING" => most = 0 /\ ~(most >= (p.minSample * 8) \div 10)
            BY <2>2 DEF SampleCheck
        <3>2. Check("min_sample_size", status, FALSE) \in Checks(p, ev)
            BY <3>1, ChecksAre
        <3>3. Check("min_sample_size", status, FALSE).status = status
            BY DEF Check
        <3>4. status = "MISSING" /\ ~p.reqEval /\ ~p.reqBench
            <4>1. PICK c \in Checks(p, ev) : c.status = status
                BY <3>2, <3>3
            <4> HIDE DEF most
            <4> QED
                BY <3>1, <4>1, ApprovedHasPassed
        <3>5. most = 0 /\ (p.minSample * 8) \div 10 > 0
            BY <2>2, <3>1, <3>4 DEF Unset
        <3> QED
            BY <2>2, <3>4, <3>5 DEF UnnoticedSamples
    <2> QED
        BY <2>1, <2>2
<1>13. CASE p.minSample # Unset => ev.bench.sample >= p.minSample \/ ev.eval.tests >= p.minSample
    BY <1>1, <1>2, <1>3, <1>4, <1>5, <1>6, <1>7, <1>8, <1>9, <1>10, <1>11, <1>13 DEF Earned
<1>14. CASE UnnoticedSamples(p, ev)
    <2>1. Earned([p EXCEPT !.minSample = Unset], ev)
        BY <1>1, <1>2, <1>3, <1>4, <1>5, <1>6, <1>7, <1>8, <1>9, <1>10, <1>11 DEF Earned
    <2> QED
        BY <1>14, <2>1
<1> QED
    BY <1>12, <1>13, <1>14

(* The parts of the readiness score, and their weighted sum. *)
Percent == 0 .. 100
FirstScore == 0 .. 6500
Score == 0 .. 10000

AccuracyPart(ev) == IF ev.eval.there THEN ev.eval.accuracy ELSE 50
BenchmarkPart(ev) == IF ev.bench.there THEN ev.bench.score ELSE 50
SeverityPart(ev) == SeverityScore[Severity(ev) + 1]
ErrorPart(ev) == IF ev.obs.there THEN Clamp(100 - ev.obs.error) ELSE 95
AlertPart(ev) == IF ev.critical > 0 THEN 0 ELSE IF ev.active > 0 THEN 60 ELSE 100
LatencyPart(ev) == IF ev.obs.there THEN Clamp(100 - ev.obs.p95 \div 50) ELSE 80

TrustedParts(ev) == 15 * AccuracyPart(ev) + 20 * BenchmarkPart(ev) + 15 * SeverityPart(ev) + 15 * ev.agent.score
UntrustedParts(ev) == 20 * AccuracyPart(ev) + 25 * BenchmarkPart(ev) + 20 * SeverityPart(ev) + 0
Weighted(first, errors, alerts, latency) == first + 15 * errors + 10 * alerts + 10 * latency

LEMMA PartsAreInRange ==
    ASSUME NEW ev \in EvidenceFacts
    PROVE  /\ AccuracyPart(ev) \in Percent /\ BenchmarkPart(ev) \in Percent /\ SeverityPart(ev) \in Percent
           /\ ErrorPart(ev) \in Percent /\ AlertPart(ev) \in Percent /\ LatencyPart(ev) \in Percent
           /\ ev.agent.there => ev.agent.score \in Percent
<1> USE DEF EvidenceFacts, EvaluationFacts, ExperimentFacts, BenchmarkFacts, OperationFacts, AgentFacts, Percent
<1>1. SeverityPart(ev) \in Percent
    BY DEF SeverityPart, SeverityScore, Severity
<1>2. ErrorPart(ev) \in Percent /\ LatencyPart(ev) \in Percent
    BY DEF ErrorPart, LatencyPart, Clamp
<1>3. AccuracyPart(ev) \in Percent /\ BenchmarkPart(ev) \in Percent /\ AlertPart(ev) \in Percent
    BY DEF AccuracyPart, BenchmarkPart, AlertPart
<1>4. ev.agent.there => ev.agent.score \in Percent
    OBVIOUS
<1> QED
    BY <1>1, <1>2, <1>3, <1>4

LEMMA FirstParts ==
    ASSUME NEW a \in Percent, NEW b \in Percent, NEW s \in Percent, NEW t \in Percent
    PROVE  15 * a + 20 * b + 15 * s + 15 * t \in FirstScore /\ 20 * a + 25 * b + 20 * s + 0 \in FirstScore
<1>1. /\ a \in Int /\ b \in Int /\ s \in Int /\ t \in Int
      /\ 0 <= a /\ a <= 100 /\ 0 <= b /\ b <= 100 /\ 0 <= s /\ s <= 100 /\ 0 <= t /\ t <= 100
    BY DEF Percent
<1>2. 15 * a + 20 * b + 15 * s + 15 * t \in FirstScore
    <2> DEFINE p == 15 * a
               q == 20 * b
               r == 15 * s
               u == 15 * t
    <2>1. /\ p \in Int /\ 0 <= p /\ p <= 1500 /\ q \in Int /\ 0 <= q /\ q <= 2000
        BY <1>1
    <2>2. /\ r \in Int /\ 0 <= r /\ r <= 1500 /\ u \in Int /\ 0 <= u /\ u <= 1500
        BY <1>1
    <2> HIDE DEF p, q, r, u
    <2>3. p + q + r + u \in FirstScore
        BY <2>1, <2>2 DEF FirstScore
    <2> QED
        BY <2>3 DEF p, q, r, u
<1>3. 20 * a + 25 * b + 20 * s + 0 \in FirstScore
    <2> DEFINE p == 20 * a
               q == 25 * b
               r == 20 * s
    <2>1. /\ p \in Int /\ 0 <= p /\ p <= 2000 /\ q \in Int /\ 0 <= q /\ q <= 2500 /\ r \in Int /\ 0 <= r /\ r <= 2000
        BY <1>1
    <2> HIDE DEF p, q, r
    <2>2. p + q + r + 0 \in FirstScore
        BY <2>1 DEF FirstScore
    <2> QED
        BY <2>2 DEF p, q, r
<1> QED
    BY <1>2, <1>3

LEMMA WeightedInRange ==
    ASSUME NEW first \in FirstScore, NEW errors \in Percent, NEW alerts \in Percent, NEW latency \in Percent
    PROVE  Weighted(first, errors, alerts, latency) \in Score
<1> DEFINE p == 15 * errors
           q == 10 * alerts
           r == 10 * latency
<1>1. first \in Int /\ 0 <= first /\ first <= 6500
    BY DEF FirstScore
<1>2. p \in Int /\ 0 <= p /\ p <= 1500 /\ q \in Int /\ 0 <= q /\ q <= 1000 /\ r \in Int /\ 0 <= r /\ r <= 1000
    BY DEF Percent
<1> HIDE DEF p, q, r
<1>3. first + p + q + r \in Score
    BY <1>1, <1>2 DEF Score
<1>4. Weighted(first, errors, alerts, latency) = first + p + q + r
    BY Zenon DEF Weighted, p, q, r
<1> QED
    BY <1>3, <1>4

LEMMA ReadinessIsWeighted ==
    ASSUME NEW ev \in EvidenceFacts
    PROVE  /\ ev.agent.there =>
                  Readiness(ev) = Weighted(TrustedParts(ev), ErrorPart(ev), AlertPart(ev), LatencyPart(ev))
           /\ ~ev.agent.there =>
                  Readiness(ev) = Weighted(UntrustedParts(ev), ErrorPart(ev), AlertPart(ev), LatencyPart(ev))
<1> USE DEF Readiness, Weighted, AccuracyPart, BenchmarkPart, SeverityPart, ErrorPart, AlertPart, LatencyPart
<1>1. CASE ev.agent.there
    BY <1>1 DEF TrustedParts
<1>2. CASE ~ev.agent.there
    BY <1>2 DEF UntrustedParts
<1> QED
    BY <1>1, <1>2

(* The weights of the readiness score add up to one, with an agent and without. *)
LEMMA ReadinessIsPercentage ==
    ASSUME NEW ev \in EvidenceFacts
    PROVE  Readiness(ev) \in 0 .. 10000
<1> SUFFICES Readiness(ev) \in Score
    BY DEF Score
<1>1. /\ AccuracyPart(ev) \in Percent /\ BenchmarkPart(ev) \in Percent /\ SeverityPart(ev) \in Percent
      /\ ErrorPart(ev) \in Percent /\ AlertPart(ev) \in Percent /\ LatencyPart(ev) \in Percent
      /\ ev.agent.there => ev.agent.score \in Percent
    BY PartsAreInRange
<1>2. CASE ev.agent.there
    <2>1. TrustedParts(ev) \in FirstScore
        BY <1>1, <1>2, FirstParts DEF TrustedParts
    <2>2. Weighted(TrustedParts(ev), ErrorPart(ev), AlertPart(ev), LatencyPart(ev)) \in Score
        BY <1>1, <2>1, WeightedInRange
    <2> QED
        BY <1>2, <2>2, ReadinessIsWeighted
<1>3. CASE ~ev.agent.there
    <2>1. UntrustedParts(ev) \in FirstScore
        BY <1>1, FirstParts DEF UntrustedParts
    <2>2. Weighted(UntrustedParts(ev), ErrorPart(ev), AlertPart(ev), LatencyPart(ev)) \in Score
        BY <1>1, <2>1, WeightedInRange
    <2> QED
        BY <1>3, <2>2, ReadinessIsWeighted
<1> QED
    BY <1>2, <1>3

(* An approval is earned, and what has earned one is approved, for every policy
   and every body of evidence: DecisionEngine.evaluate. *)
THEOREM ApprovalsAreEarned ==
    ASSUME NEW p \in PolicyRules, NEW ev \in EvidenceFacts
    PROVE  ApprovalEarned(p, ev)
BY EarnedIsApproved, ApprovedIsEarned, ReadinessIsPercentage, SMTT(30) DEF ApprovalEarned

(* The policy and the rows are always such as a user and the platform may write. *)
InForce == policy.rules \in PolicyRules /\ world \in WorldRows

LEMMA AlwaysInForce == ReleaseSpec => []InForce
<1>1. ReleaseInv => InForce
    BY ReleaseAssumption DEF ReleaseInv, PoliciesTyped, InForce
<1> QED
    BY <1>1, ReleaseStarts, ReleasePreserves, PTL DEF ReleaseSpec

LEMMA EvidenceEarns ==
    ASSUME NEW p \in PolicyRules, NEW w \in WorldRows
    PROVE  EarnedOnEvidence(p, w)
BY AggregateKnown, ApprovalsAreEarned, OwnRowsDecide DEF EarnedOnEvidence

(* Whatever the policy and the rows are or become, an approval on them is earned and
   rows of other scopes decide nothing unless they stand in for what is lacking:
   EvidenceAggregator.aggregate and DecisionEngine.evaluate. *)
THEOREM ApprovalStaysEarned == ReleaseSpec => ApprovalIsEarned
<1>1. InForce => EarnedOnEvidence(policy.rules, world)
    BY EvidenceEarns DEF InForce
<1>2. InForce' => [world' # world \/ policy' # policy => EarnedOnEvidence(policy'.rules, world')]_releaseVars
    BY EvidenceEarns DEF InForce
<1> QED
    BY <1>1, <1>2, AlwaysInForce, PTL DEF ApprovalIsEarned

(* So a decision that is approved was right to be, on the evidence stored with it and
   by rules stored under its version of the policy, which are the only ones unless
   updates overlapped; unless it was evaluated twice at once. *)
EarnedBy(p, ev) ==
    Earned(p, ev) \/ (UnnoticedSamples(p, ev) /\ Earned([p EXCEPT !.minSample = Unset], ev))

ApprovalsStand ==
    \A d \in Decisions \ doubled : decision[d].outcome = "APPROVED" =>
        \A e \in decision[d].evidence :
            /\ \E p \in policies[decision[d].version] : EarnedBy(p, e.seen)
            /\ decision[d].version \notin contested => \A p \in policies[decision[d].version] : EarnedBy(p, e.seen)

THEOREM ApprovedDecisionsEarnedIt == ReleaseSpec => []ApprovalsStand
<1>1. ReleaseInv => ApprovalsStand
    <2> SUFFICES ASSUME ReleaseInv, NEW d \in Decisions \ doubled, decision[d].outcome = "APPROVED",
                        NEW e \in decision[d].evidence
                 PROVE  /\ \E p \in policies[decision[d].version] : EarnedBy(p, e.seen)
                        /\ decision[d].version \notin contested =>
                               \A p \in policies[decision[d].version] : EarnedBy(p, e.seen)
        BY DEF ApprovalsStand
    <2>1. /\ decision[d].version \in 1 .. Len(policies) /\ e.seen \in EvidenceFacts
          /\ e.rules \in policies[decision[d].version] /\ Outcome(e.rules, e.seen) = "APPROVED"
        BY DEF ReleaseInv, DecisionSound, Explained, EvidenceOf
    <2>2. e.rules \in PolicyRules
        BY <2>1 DEF ReleaseInv, PoliciesTyped
    <2>3. EarnedBy(e.rules, e.seen)
        BY <2>1, <2>2, ApprovedIsEarned DEF EarnedBy
    <2>4. decision[d].version \notin contested => \A p \in policies[decision[d].version] : p = e.rules
        BY <2>1 DEF ReleaseInv, PoliciesTyped
    <2> QED
        BY <2>1, <2>3, <2>4
<1> QED
    BY <1>1, ReleaseStarts, ReleasePreserves, PTL DEF ReleaseSpec

-----------------------------------------------------------------------------
(* What is reported of decisions. *)

(* Every check says which rule it is of. *)
LEMMA RulesNamed ==
    ASSUME NEW p, NEW ev
    PROVE  /\ \A c \in Required("required_evaluation", p.reqEval, ev.eval.there) : c.rule = "required_evaluation"
           /\ \A c \in Required("required_benchmark", p.reqBench, ev.bench.there) : c.rule = "required_benchmark"
           /\ \A c \in Freshness(ev) : c.rule \in Sources
           /\ \A c \in DatasetRule(p, ev) : c.rule = "dataset_version_compatibility"
           /\ \A c \in ScoreRule(p, ev) : c.rule = "min_reliability_score"
           /\ \A c \in SeverityRule(p, ev) : c.rule = "max_regression_severity"
           /\ \A c \in GatesRule(p, ev) : c.rule = "required_quality_gates"
           /\ \A c \in AlertRule(p, ev) : c.rule = "critical_alerts"
           /\ \A c \in ErrorRule(p, ev) : c.rule = "max_error_rate"
           /\ \A c \in LatencyRule(p, ev) : c.rule = "max_p95_latency"
           /\ \A c \in SampleCheck(p, ev) : c.rule = "min_sample_size"
           /\ \A c \in ConfidenceCheck(p, ev) : c.rule = "min_statistical_confidence"
           /\ \A c \in AgentSafety(ev) : c.rule = "agent_safety"
<1>1. ASSUME NEW rule, NEW isSet, NEW have, NEW holds, NEW absent, NEW absentBlocks, NEW failBlocks,
             NEW c \in Judge(rule, isSet, have, holds, absent, absentBlocks, failBlocks)
      PROVE  c.rule = rule
    BY DEF Judge, Check
<1>2. \A c \in Freshness(ev) : c.rule \in Sources
    BY DEF Freshness, Check
<1>3. \A c \in SampleCheck(p, ev) : c.rule = "min_sample_size"
    BY DEF SampleCheck, Check
<1> QED
    BY <1>1, <1>2, <1>3, ZenonT(30) DEF Required, DatasetRule, ScoreRule, SeverityRule, GatesRule, AlertRule, ErrorRule,
       LatencyRule, ConfidenceCheck, AgentSafety

LEMMA RuleTells ==
    ASSUME NEW p, NEW ev, NEW c \in Checks(p, ev)
    PROVE  /\ c.rule = "required_evaluation" => c \in Required("required_evaluation", p.reqEval, ev.eval.there)
           /\ c.rule = "required_benchmark" => c \in Required("required_benchmark", p.reqBench, ev.bench.there)
           /\ c.rule = "min_reliability_score" => c \in ScoreRule(p, ev)
           /\ c.rule = "max_regression_severity" => c \in SeverityRule(p, ev)
           /\ c.rule = "max_error_rate" => c \in ErrorRule(p, ev)
           /\ c.rule = "max_p95_latency" => c \in LatencyRule(p, ev)
           /\ c.rule # "readiness"
<1> DEFINE evaluated == Required("required_evaluation", p.reqEval, ev.eval.there)
           benchmarked == Required("required_benchmark", p.reqBench, ev.bench.there)
           fresh == Freshness(ev)
           shown == DatasetRule(p, ev) \cup GatesRule(p, ev) \cup AlertRule(p, ev) \cup SampleCheck(p, ev)
                    \cup ConfidenceCheck(p, ev) \cup AgentSafety(ev)
           score == ScoreRule(p, ev)
           severity == SeverityRule(p, ev)
           errors == ErrorRule(p, ev)
           latency == LatencyRule(p, ev)
<1>1. c \in evaluated \cup benchmarked \cup fresh \cup shown \cup score \cup severity \cup errors \cup latency
    BY ChecksAre
<1>2. \A x \in shown : x.rule \in {"dataset_version_compatibility", "required_quality_gates", "critical_alerts",
                                 "min_sample_size", "min_statistical_confidence", "agent_safety"}
    <2>1. \A x \in DatasetRule(p, ev) : x.rule = "dataset_version_compatibility"
        BY RulesNamed
    <2>2. \A x \in GatesRule(p, ev) : x.rule = "required_quality_gates"
        BY RulesNamed
    <2>3. \A x \in AlertRule(p, ev) : x.rule = "critical_alerts"
        BY RulesNamed
    <2>4. \A x \in SampleCheck(p, ev) : x.rule = "min_sample_size"
        BY RulesNamed
    <2>5. \A x \in ConfidenceCheck(p, ev) : x.rule = "min_statistical_confidence"
        BY RulesNamed
    <2>6. \A x \in AgentSafety(ev) : x.rule = "agent_safety"
        BY RulesNamed
    <2> QED
        BY <2>1, <2>2, <2>3, <2>4, <2>5, <2>6
<1>3. /\ \A x \in evaluated : x.rule = "required_evaluation"
      /\ \A x \in benchmarked : x.rule = "required_benchmark"
      /\ \A x \in fresh : x.rule \in {"eval", "exp", "bench", "agent"}
      /\ \A x \in score : x.rule = "min_reliability_score"
      /\ \A x \in severity : x.rule = "max_regression_severity"
      /\ \A x \in errors : x.rule = "max_error_rate"
      /\ \A x \in latency : x.rule = "max_p95_latency"
    BY RulesNamed DEF Sources
<1> HIDE DEF evaluated, benchmarked, fresh, shown, score, severity, errors, latency
<1>4. /\ c.rule = "required_evaluation" => c \in evaluated
      /\ c.rule = "required_benchmark" => c \in benchmarked
      /\ c.rule = "min_reliability_score" => c \in score
      /\ c.rule = "max_regression_severity" => c \in severity
      /\ c.rule = "max_error_rate" => c \in errors
      /\ c.rule = "max_p95_latency" => c \in latency
      /\ c.rule # "readiness"
    BY <1>1, <1>2, <1>3
<1> QED
    BY <1>4 DEF evaluated, benchmarked, score, severity, errors, latency

(* Every outcome but an approval has its reason among the checks. *)
LEMMA OutcomeHasReason ==
    ASSUME NEW p \in PolicyRules, NEW ev
    PROVE  LET checks == Checks(p, ev)
               outcome == Outcome(p, ev)
           IN /\ outcome \in {"BLOCKED", "INSUFFICIENT_EVIDENCE", "REJECTED", "CONDITIONALLY_APPROVED", "APPROVED"}
              /\ outcome = "BLOCKED" => \E c \in checks : c.blocking /\ c.status \in {"FAIL", "MISSING"}
              /\ outcome = "INSUFFICIENT_EVIDENCE" => \E c \in checks : c.status = "MISSING"
              /\ outcome = "REJECTED" => \E c \in checks : c.status = "FAIL"
              /\ outcome = "CONDITIONALLY_APPROVED" => \E c \in checks : c.status \in {"WARNING", "STALE"}
<1> DEFINE checks == Checks(p, ev)
<1> HIDE DEF checks
<1>1. Outcome(p, ev) =
        IF \E c \in checks : c.blocking /\ c.status \in {"FAIL", "MISSING"} THEN "BLOCKED"
        ELSE IF (\E c \in checks : c.status = "MISSING") /\ (p.reqBench \/ p.reqEval) THEN "INSUFFICIENT_EVIDENCE"
        ELSE IF \E c \in checks : c.status = "FAIL" THEN "REJECTED"
        ELSE IF (\E c \in checks : c.status = "WARNING") \/ \E c \in checks : c.status = "STALE"
             THEN "CONDITIONALLY_APPROVED"
        ELSE "APPROVED"
    BY DEF Outcome, checks
<1> QED
    BY <1>1 DEF checks

ReasonsListed(outcome, checks) ==
    OverallStatus(outcome) = "READY" <=> BlockingIssues(outcome, checks) \cup OverviewWarnings(outcome, checks) = {}

LEMMA ReasonsAreListed ==
    ASSUME NEW p \in PolicyRules, NEW ev
    PROVE  ReasonsListed(Outcome(p, ev), Checks(p, ev))
<1> DEFINE checks == Checks(p, ev)
           outcome == Outcome(p, ev)
<1>1. /\ outcome \in {"BLOCKED", "INSUFFICIENT_EVIDENCE", "REJECTED", "CONDITIONALLY_APPROVED", "APPROVED"}
      /\ outcome = "BLOCKED" => \E c \in checks : c.blocking /\ c.status \in {"FAIL", "MISSING"}
      /\ outcome = "INSUFFICIENT_EVIDENCE" => \E c \in checks : c.status = "MISSING"
      /\ outcome = "REJECTED" => \E c \in checks : c.status = "FAIL"
      /\ outcome = "CONDITIONALLY_APPROVED" => \E c \in checks : c.status \in {"WARNING", "STALE"}
    BY OutcomeHasReason
<1> HIDE DEF checks, outcome
<1> SUFFICES ReasonsListed(outcome, checks)
    BY DEF checks, outcome
<1>2. OverallStatus(outcome) = "READY" <=> outcome = "APPROVED"
    BY <1>1 DEF OverallStatus
<1>3. CASE outcome = "APPROVED"
    BY <1>2, <1>3 DEF ReasonsListed, BlockingIssues, OverviewWarnings
<1>4. CASE outcome = "BLOCKED"
    BY <1>1, <1>2, <1>4 DEF ReasonsListed, BlockingIssues, Unmet
<1>5. CASE outcome \in {"INSUFFICIENT_EVIDENCE", "REJECTED"}
    BY <1>1, <1>2, <1>5 DEF ReasonsListed, BlockingIssues, Unmet
<1>6. CASE outcome = "CONDITIONALLY_APPROVED"
    BY <1>1, <1>2, <1>6 DEF ReasonsListed, OverviewWarnings
<1> QED
    BY <1>1, <1>3, <1>4, <1>5, <1>6

(* What asks for nothing. *)
LEMMA NothingAsked ==
    ASSUME NEW outcome, NEW checks, outcome # "NONE"
    PROVE  ProjectActions(outcome, checks) = {"NONE"} <=> \A c \in checks : Asked(c) = {}
<1>1. \A c \in checks : "NONE" \notin Asked(c)
    BY DEF Asked
<1>2. ProjectActions(outcome, checks)
      = IF UNION {Asked(c) : c \in checks} = {} THEN {"NONE"} ELSE UNION {Asked(c) : c \in checks}
    BY DEF ProjectActions
<1> QED
    BY <1>1, <1>2

LEMMA ApprovedAsksNothing ==
    ASSUME NEW p \in PolicyRules, NEW ev, Outcome(p, ev) = "APPROVED"
    PROVE  ProjectActions(Outcome(p, ev), Checks(p, ev)) = {"NONE"}
<1>1. ASSUME NEW c \in Checks(p, ev)
      PROVE  Asked(c) = {}
    <2>1. c.status \notin {"FAIL", "STALE"} /\ (c.status = "MISSING" => ~c.blocking)
        BY ApprovedHasPassed
    <2>2. c.rule \in {"required_evaluation", "required_benchmark"} /\ c.status = "MISSING" => c.blocking
        BY RuleTells DEF Required, Judge, Check
    <2>3. ~(c.status = "MISSING" /\ c.rule = "required_benchmark")
        BY <2>1, <2>2
    <2>4. ~(c.status = "MISSING" /\ c.rule = "required_evaluation")
        BY <2>1, <2>2
    <2> QED
        BY <2>1, <2>3, <2>4 DEF Asked
<1> QED
    BY <1>1, NothingAsked

LEMMA AllClearIsClear ==
    ASSUME NEW p \in PolicyRules, NEW ev \in EvidenceFacts,
           \A c \in Checks(p, ev) : Asked(c) = {}
    PROVE  /\ (p.reqEval => ev.eval.there) /\ (p.reqBench => ev.bench.there)
           /\ (\A s \in Sources : ev[s].there => ev[s].fresh)
           /\ ev.critical <= p.maxAlerts
<1>0. /\ Asked(Check("required_evaluation", "MISSING", TRUE)) # {}
      /\ Asked(Check("required_benchmark", "MISSING", TRUE)) # {}
      /\ Asked(Check("critical_alerts", "FAIL", TRUE)) # {}
    BY DEF Asked, Check
<1>1. p.reqEval => ev.eval.there
    <2>1. p.reqEval /\ ~ev.eval.there =>
              Check("required_evaluation", "MISSING", TRUE) \in Required("required_evaluation", p.reqEval, ev.eval.there)
        BY DEF Required, Judge
    <2> QED
        BY <1>0, <2>1, ChecksAre
<1>2. p.reqBench => ev.bench.there
    <2>1. p.reqBench /\ ~ev.bench.there =>
              Check("required_benchmark", "MISSING", TRUE) \in Required("required_benchmark", p.reqBench, ev.bench.there)
        BY DEF Required, Judge
    <2> QED
        BY <1>0, <2>1, ChecksAre
<1>3. ASSUME NEW s \in Sources, ev[s].there, ~ev[s].fresh
      PROVE  FALSE
    <2>1. Check(s, "STALE", FALSE) \in Freshness(ev)
        BY <1>3 DEF Freshness
    <2>2. Check(s, "STALE", FALSE).status = "STALE"
        BY DEF Check
    <2>3. Asked(Check(s, "STALE", FALSE)) = {"REFRESH_EVIDENCE"}
        BY <2>2 DEF Asked
    <2> QED
        BY <2>1, <2>3, ChecksAre
<1>4. ev.critical <= p.maxAlerts
    <2>1. ~(ev.critical <= p.maxAlerts) => Check("critical_alerts", "FAIL", TRUE) \in AlertRule(p, ev)
        BY DEF AlertRule, Judge
    <2> QED
        BY <1>0, <2>1, ChecksAre
<1> QED
    BY <1>1, <1>2, <1>3, <1>4

LEMMA ReportsConsistent ==
    ASSUME NEW p \in PolicyRules, NEW ev \in EvidenceFacts
    PROVE  Consistent(p, ev)
<1>1. Outcome(p, ev) # "NONE"
    BY OutcomeHasReason
<1> QED
    BY <1>1, ReasonsAreListed, ApprovedAsksNothing, NothingAsked, AllClearIsClear DEF Consistent, ReasonsListed

(* A comparison read the other way round. *)
Reversed(change) ==
    CASE change = "IMPROVED" -> "REGRESSED"
      [] change = "REGRESSED" -> "IMPROVED"
      [] OTHER -> change
Changes == {"IMPROVED", "REGRESSED", "UNCHANGED"}

LEMMA Mirrored ==
    ASSUME NEW metric, NEW change
    PROVE  Mirror(MetricChange(metric, change)) = MetricChange(metric, Reversed(change))
<1>1. MetricChange(metric, change).metric = metric /\ MetricChange(metric, change).change = change
    BY DEF MetricChange
<1> QED
    BY <1>1, Zenon DEF Mirror, Reversed

(* The rounded scores. *)
Tenths(ev) == (Readiness(ev) + 5) \div 10

LEMMA TenthsAreNumbers ==
    ASSUME NEW ev \in EvidenceFacts
    PROVE  Tenths(ev) \in Int
<1> DEFINE r == Readiness(ev)
<1>1. r \in 0 .. 10000
    BY ReadinessIsPercentage, SMTT(30)
<1> HIDE DEF r
<1>2. (r + 5) \div 10 \in Int
    BY <1>1
<1> QED
    BY <1>2 DEF Tenths, r

ChangeOf(x) ==
    CASE x = 0 -> {"UNCHANGED"}
      [] x > 0 -> {"IMPROVED"} \union IF x = 1 THEN {"UNCHANGED"} ELSE {}
      [] x < 0 -> {"REGRESSED"} \union IF x = -1 THEN {"UNCHANGED"} ELSE {}

LEMMA ChangeReversed ==
    ASSUME NEW x \in Int
    PROVE  ChangeOf(0 - x) = {Reversed(c) : c \in ChangeOf(x)}
<1>1. CASE x = 0
    <2>1. 0 - x = 0
        BY <1>1
    <2>2. ChangeOf(0) = {"UNCHANGED"} /\ Reversed("UNCHANGED") = "UNCHANGED"
        BY DEF ChangeOf, Reversed
    <2> QED
        BY <1>1, <2>1, <2>2
<1>2. CASE x > 0
    <2>1. ChangeOf(x) = {"IMPROVED"} \cup IF x = 1 THEN {"UNCHANGED"} ELSE {}
        BY <1>2 DEF ChangeOf
    <2>2. ChangeOf(0 - x) = {"REGRESSED"} \cup IF x = 1 THEN {"UNCHANGED"} ELSE {}
        BY <1>2 DEF ChangeOf
    <2> QED
        BY <2>1, <2>2 DEF Reversed
<1>3. CASE x < 0
    <2>1. ChangeOf(x) = {"REGRESSED"} \cup IF x = -1 THEN {"UNCHANGED"} ELSE {}
        BY <1>3 DEF ChangeOf
    <2>2. ChangeOf(0 - x) = {"IMPROVED"} \cup IF x = -1 THEN {"UNCHANGED"} ELSE {}
        BY <1>3 DEF ChangeOf
    <2> QED
        BY <2>1, <2>2 DEF Reversed
<1> QED
    BY <1>1, <1>2, <1>3

LEMMA ReadinessReversed ==
    ASSUME NEW ev \in EvidenceFacts, NEW old \in EvidenceFacts
    PROVE  ReadinessChange(old, ev) = {Reversed(c) : c \in ReadinessChange(ev, old)}
<1>1. PICK m \in Int, n \in Int : m = Tenths(ev) /\ n = Tenths(old)
    BY TenthsAreNumbers
<1>2. ReadinessChange(ev, old) = ChangeOf(m - n) /\ ReadinessChange(old, ev) = ChangeOf(n - m)
    BY <1>1 DEF ReadinessChange, ChangeOf, Tenths
<1>3. n - m = 0 - (m - n) /\ m - n \in Int
    OBVIOUS
<1> QED
    BY <1>2, <1>3, ChangeReversed

(* The rows of a comparison, one per metric but for the readiness. *)
RowFor(metric, compared, change, tolerance) ==
    IF compared THEN {MetricChange(metric, Shift(change, tolerance))} ELSE {}

LEMMA ComparedAre ==
    ASSUME NEW ev \in EvidenceFacts, NEW old \in EvidenceFacts
    PROVE  LET bench == ev.bench.there /\ old.bench.there
               obs == ev.obs.there /\ old.obs.there
           IN Compare(ev, old) =
                  {MetricChange("readiness", c) : c \in ReadinessChange(ev, old)}
                  \cup RowFor("max_regression_severity", TRUE, Severity(old) - Severity(ev), 1)
                  \cup RowFor("min_reliability_score", bench, ev.bench.score - old.bench.score, 1)
                  \cup RowFor("max_error_rate", obs, old.obs.error - ev.obs.error, 1)
                  \cup RowFor("max_p95_latency", obs, old.obs.p95 - ev.obs.p95, 5)
<1> DEFINE r == {MetricChange("readiness", c) : c \in ReadinessChange(ev, old)}
           s == MetricChange("max_regression_severity", Shift(Severity(old) - Severity(ev), 1))
           b == MetricChange("min_reliability_score", Shift(ev.bench.score - old.bench.score, 1))
           e == MetricChange("max_error_rate", Shift(old.obs.error - ev.obs.error, 1))
           l == MetricChange("max_p95_latency", Shift(old.obs.p95 - ev.obs.p95, 5))
<1>1. Compare(ev, old) =
        UNION {r, {s}, IF ~(ev.bench.there /\ old.bench.there) THEN {} ELSE {b},
               IF ~(ev.obs.there /\ old.obs.there) THEN {} ELSE {e, l}}
    BY DEF Compare
<1> HIDE DEF r, s, b, e, l
<1>2. Compare(ev, old) =
        r \cup {s} \cup (IF ev.bench.there /\ old.bench.there THEN {b} ELSE {})
        \cup (IF ev.obs.there /\ old.obs.there THEN {e} ELSE {})
        \cup (IF ev.obs.there /\ old.obs.there THEN {l} ELSE {})
    BY <1>1
<1> QED
    BY <1>2 DEF RowFor, r, s, b, e, l

RowBack(metric, compared, change, tolerance) ==
    {Mirror(row) : row \in RowFor(metric, compared, change, tolerance)}

LEMMA RowMirrored ==
    ASSUME NEW metric, NEW compared, NEW x \in Int, NEW y \in Int, y = 0 - x, NEW tolerance \in {1, 5}
    PROVE  RowFor(metric, compared, y, tolerance) = RowBack(metric, compared, x, tolerance)
<1>1. Shift(y, tolerance) = Reversed(Shift(x, tolerance))
    <2>1. CASE -tolerance < x /\ x < tolerance
        BY <2>1 DEF Shift, Reversed
    <2>2. CASE ~(-tolerance < x /\ x < tolerance) /\ x > 0
        BY <2>2 DEF Shift, Reversed
    <2>3. CASE ~(-tolerance < x /\ x < tolerance) /\ ~(x > 0)
        BY <2>3 DEF Shift, Reversed
    <2> QED
        BY <2>1, <2>2, <2>3
<1>2. MetricChange(metric, Shift(y, tolerance)) = Mirror(MetricChange(metric, Shift(x, tolerance)))
    BY <1>1, Mirrored
<1> QED
    BY <1>2 DEF RowFor, RowBack

LEMMA ComparisonMirrored ==
    ASSUME NEW ev \in EvidenceFacts, NEW old \in EvidenceFacts
    PROVE  {Mirror(row) : row \in Compare(ev, old)} = Compare(old, ev)
<1> DEFINE bench == ev.bench.there /\ old.bench.there
           obs == ev.obs.there /\ old.obs.there
           r(x, y) == {MetricChange("readiness", c) : c \in ReadinessChange(x, y)}
           s(x, y) == RowFor("max_regression_severity", TRUE, Severity(y) - Severity(x), 1)
           b(x, y) == RowFor("min_reliability_score", bench, x.bench.score - y.bench.score, 1)
           e(x, y) == RowFor("max_error_rate", obs, y.obs.error - x.obs.error, 1)
           l(x, y) == RowFor("max_p95_latency", obs, y.obs.p95 - x.obs.p95, 5)
<1>1. Compare(ev, old) = r(ev, old) \cup s(ev, old) \cup b(ev, old) \cup e(ev, old) \cup l(ev, old)
    BY ComparedAre
<1>2. Compare(old, ev) = r(old, ev) \cup s(old, ev) \cup b(old, ev) \cup e(old, ev) \cup l(old, ev)
    <2>1. bench = (old.bench.there /\ ev.bench.there) /\ obs = (old.obs.there /\ ev.obs.there)
        BY Zenon
    <2> QED
        BY <2>1, ComparedAre
<1>3. /\ ev.bench.score \in Int /\ old.bench.score \in Int /\ ev.obs.error \in Int /\ old.obs.error \in Int
      /\ ev.obs.p95 \in Int /\ old.obs.p95 \in Int /\ bench \in BOOLEAN /\ obs \in BOOLEAN
    BY DEF EvidenceFacts, BenchmarkFacts, OperationFacts
<1>4. Severity(ev) \in Int /\ Severity(old) \in Int
    BY DEF EvidenceFacts, ExperimentFacts, Severity
<1>5. r(old, ev) = {Mirror(row) : row \in r(ev, old)}
    BY ReadinessReversed, Mirrored
<1> HIDE DEF bench, obs
<1>6. s(old, ev) = {Mirror(row) : row \in s(ev, old)}
    <2>1. PICK x \in Int, y \in Int : x = Severity(old) - Severity(ev) /\ y = Severity(ev) - Severity(old)
        BY <1>4
    <2>2. y = 0 - x
        BY <1>4, <2>1
    <2>3. RowFor("max_regression_severity", TRUE, y, 1) = RowBack("max_regression_severity", TRUE, x, 1)
        BY <2>2, RowMirrored
    <2> QED
        BY <2>1, <2>3 DEF RowBack
<1>7. b(old, ev) = {Mirror(row) : row \in b(ev, old)}
    <2>1. PICK x \in Int, y \in Int : x = ev.bench.score - old.bench.score /\ y = old.bench.score - ev.bench.score
        BY <1>3
    <2>2. y = 0 - x
        BY <1>3, <2>1
    <2>3. RowFor("min_reliability_score", bench, y, 1) = RowBack("min_reliability_score", bench, x, 1)
        BY <2>2, RowMirrored
    <2> QED
        BY <2>1, <2>3 DEF RowBack
<1>8. e(old, ev) = {Mirror(row) : row \in e(ev, old)}
    <2>1. PICK x \in Int, y \in Int : x = old.obs.error - ev.obs.error /\ y = ev.obs.error - old.obs.error
        BY <1>3
    <2>2. y = 0 - x
        BY <1>3, <2>1
    <2>3. RowFor("max_error_rate", obs, y, 1) = RowBack("max_error_rate", obs, x, 1)
        BY <2>2, RowMirrored
    <2> QED
        BY <2>1, <2>3 DEF RowBack
<1>9. l(old, ev) = {Mirror(row) : row \in l(ev, old)}
    <2>1. PICK x \in Int, y \in Int : x = old.obs.p95 - ev.obs.p95 /\ y = ev.obs.p95 - old.obs.p95
        BY <1>3
    <2>2. y = 0 - x
        BY <1>3, <2>1
    <2>3. RowFor("max_p95_latency", obs, y, 5) = RowBack("max_p95_latency", obs, x, 5)
        BY <2>2, RowMirrored
    <2> QED
        BY <2>1, <2>3 DEF RowBack
<1> HIDE DEF r, s, b, e, l
<1> QED
    BY <1>1, <1>2, <1>5, <1>6, <1>7, <1>8, <1>9

(* What a rule that is met, or is not, says of its figure. *)
Met(p, ev, rule) == \E c \in Checks(p, ev) : c.rule = rule /\ c.status = "PASS"
Broken(p, ev, rule) == \E c \in Checks(p, ev) : c.rule = rule /\ c.status # "PASS"

LEMMA BrokenIsNotImproved ==
    ASSUME NEW p \in PolicyRules, NEW ev \in EvidenceFacts, NEW old \in EvidenceFacts, NEW row \in Compare(ev, old),
           Met(p, old, row.metric), Broken(p, ev, row.metric)
    PROVE  row.change # "IMPROVED"
<1>1. ASSUME NEW change \in Int, NEW tolerance \in {1, 5}, change <= 0
      PROVE  Shift(change, tolerance) # "IMPROVED"
    BY <1>1 DEF Shift
<1>2. \A metric, change : MetricChange(metric, change).metric = metric /\ MetricChange(metric, change).change = change
    BY DEF MetricChange
<1>3. PICK good \in Checks(p, old) : good.rule = row.metric /\ good.status = "PASS"
    BY DEF Met
<1>4. PICK bad \in Checks(p, ev) : bad.rule = row.metric /\ bad.status # "PASS"
    BY DEF Broken
<1>5. row.metric # "readiness"
    BY <1>4, RuleTells
<1>6. row \notin {MetricChange("readiness", c) : c \in ReadinessChange(ev, old)}
    BY <1>2, <1>5
<1> DEFINE bench == ev.bench.there /\ old.bench.there
           obs == ev.obs.there /\ old.obs.there
<1>7. row \in RowFor("max_regression_severity", TRUE, Severity(old) - Severity(ev), 1)
              \cup RowFor("min_reliability_score", bench, ev.bench.score - old.bench.score, 1)
              \cup RowFor("max_error_rate", obs, old.obs.error - ev.obs.error, 1)
              \cup RowFor("max_p95_latency", obs, old.obs.p95 - ev.obs.p95, 5)
    BY <1>6, ComparedAre, ZenonT(30)
<1> HIDE DEF bench, obs
<1>8. CASE row \in RowFor("max_regression_severity", TRUE, Severity(old) - Severity(ev), 1)
    <2>1. row.metric = "max_regression_severity" /\ row.change = Shift(Severity(old) - Severity(ev), 1)
        BY <1>2, <1>8 DEF RowFor
    <2>2. good \in SeverityRule(p, old) /\ bad \in SeverityRule(p, ev)
        BY <1>3, <1>4, <2>1, RuleTells
    <2>3. p.maxSeverity # Unset /\ Severity(old) <= p.maxSeverity /\ ~(Severity(ev) <= p.maxSeverity)
        BY <1>3, <1>4, <2>2 DEF SeverityRule, Judge, Check
    <2>4. Severity(old) \in Int /\ Severity(ev) \in Int /\ p.maxSeverity \in Int
        BY DEF EvidenceFacts, ExperimentFacts, Severity, PolicyRules, Unset
    <2>5. PICK change \in Int : change = Severity(old) - Severity(ev) /\ change <= 0
        BY <2>3, <2>4
    <2> QED
        BY <1>1, <2>1, <2>5
<1>9. CASE row \in RowFor("min_reliability_score", bench, ev.bench.score - old.bench.score, 1)
    <2>1. bench /\ row.metric = "min_reliability_score" /\ row.change = Shift(ev.bench.score - old.bench.score, 1)
        BY <1>2, <1>9 DEF RowFor
    <2>2. good \in ScoreRule(p, old) /\ bad \in ScoreRule(p, ev)
        BY <1>3, <1>4, <2>1, RuleTells
    <2>3. old.bench.score >= p.minScore /\ ~(ev.bench.there /\ ev.bench.score >= p.minScore)
        BY <1>3, <1>4, <2>2 DEF ScoreRule, Judge, Check
    <2>4. old.bench.score \in Int /\ ev.bench.score \in Int /\ p.minScore \in Int
        BY DEF EvidenceFacts, BenchmarkFacts, PolicyRules, Unset
    <2>5. ev.bench.there
        BY <2>1 DEF bench
    <2>6. PICK change \in Int : change = ev.bench.score - old.bench.score /\ change <= 0
        BY <2>3, <2>4, <2>5
    <2> QED
        BY <1>1, <2>1, <2>6
<1>10. CASE row \in RowFor("max_error_rate", obs, old.obs.error - ev.obs.error, 1)
    <2>1. obs /\ row.metric = "max_error_rate" /\ row.change = Shift(old.obs.error - ev.obs.error, 1)
        BY <1>2, <1>10 DEF RowFor
    <2>2. good \in ErrorRule(p, old) /\ bad \in ErrorRule(p, ev)
        BY <1>3, <1>4, <2>1, RuleTells
    <2>3. old.obs.error <= p.maxError /\ ~(ev.obs.there /\ ev.obs.error <= p.maxError)
        BY <1>3, <1>4, <2>2 DEF ErrorRule, Judge, Check
    <2>4. old.obs.error \in Int /\ ev.obs.error \in Int /\ p.maxError \in Int
        BY DEF EvidenceFacts, OperationFacts, PolicyRules, Unset
    <2>5. ev.obs.there
        BY <2>1 DEF obs
    <2>6. PICK change \in Int : change = old.obs.error - ev.obs.error /\ change <= 0
        BY <2>3, <2>4, <2>5
    <2> QED
        BY <1>1, <2>1, <2>6
<1>11. CASE row \in RowFor("max_p95_latency", obs, old.obs.p95 - ev.obs.p95, 5)
    <2>1. obs /\ row.metric = "max_p95_latency" /\ row.change = Shift(old.obs.p95 - ev.obs.p95, 5)
        BY <1>2, <1>11 DEF RowFor
    <2>2. good \in LatencyRule(p, old) /\ bad \in LatencyRule(p, ev)
        BY <1>3, <1>4, <2>1, RuleTells
    <2>3. old.obs.p95 <= p.maxP95 /\ ~(ev.obs.there /\ ev.obs.p95 <= p.maxP95)
        BY <1>3, <1>4, <2>2 DEF LatencyRule, Judge, Check
    <2>4. old.obs.p95 \in Int /\ ev.obs.p95 \in Int /\ p.maxP95 \in Int
        BY DEF EvidenceFacts, OperationFacts, PolicyRules, Unset
    <2>5. ev.obs.there
        BY <2>1 DEF obs
    <2>6. PICK change \in Int : change = old.obs.p95 - ev.obs.p95 /\ change <= 0
        BY <2>3, <2>4, <2>5
    <2> QED
        BY <1>1, <2>1, <2>6
<1> QED
    BY <1>7, <1>8, <1>9, <1>10, <1>11

LEMMA ReportsTruthful ==
    ASSUME NEW p \in PolicyRules, NEW ev \in EvidenceFacts, NEW old \in EvidenceFacts
    PROVE  Truthful(p, ev, old)
<1> DEFINE met == {c.rule : c \in {x \in Checks(p, old) : x.status = "PASS"}}
           broken == {c.rule : c \in {x \in Checks(p, ev) : x.status # "PASS"}}
<1>1. \A rule : (rule \in met => Met(p, old, rule)) /\ (rule \in broken => Broken(p, ev, rule))
    BY DEF Met, Broken
<1>2. \A row \in Compare(ev, old) : row.metric \in met \cap broken => row.change # "IMPROVED"
    <2> HIDE DEF met, broken
    <2> QED
        BY <1>1, BrokenIsNotImproved
<1> QED
    BY <1>2, ComparisonMirrored DEF Truthful

LEMMA EvidenceIsReported ==
    ASSUME NEW p \in PolicyRules, NEW w \in WorldRows
    PROVE  EvidenceReported(p, w)
<1>1. Aggregate(w) \in EvidenceFacts /\ Earlier \subseteq EvidenceFacts
    BY ReportsAssumption, AggregateKnown DEF Earlier
<1> QED
    BY <1>1, ReportsConsistent, ReportsTruthful DEF EvidenceReported

(* Evaluations take the times of their outcomes from one clock, and something that was
   decided stays decided until something else is. *)
TimesApart ==
    \A d, o \in Decisions :
        /\ decision[d].status = "DECIDED" => decision[d].outcome # "NONE" /\ decision[d].evaluated \in 1 .. clock
        /\ evaluation[d].at = "supersede" => evaluation[d].time \in 1 .. clock
        /\ d # o /\ evaluation[o].at = "supersede" =>
              /\ decision[d].status = "DECIDED" => evaluation[o].time # decision[d].evaluated
              /\ evaluation[d].at = "supersede" => evaluation[o].time # evaluation[d].time
        /\ d # o /\ decision[d].status = "DECIDED" /\ decision[o].status = "DECIDED" =>
              decision[d].evaluated # decision[o].evaluated

SomethingStands ==
    (\E d \in Decisions : decision[d].outcome # "NONE") => \E d \in Decisions : decision[d].status = "DECIDED"

OrderInv == TimesApart /\ SomethingStands

LEMMA OrderStarts == ReleaseInit => OrderInv
BY DEF ReleaseInit, OrderInv, TimesApart, SomethingStands, NoDecision, NoEvaluation

(* Unless one commits: what an evaluation may become. *)
LEMMA OrderKept ==
    ASSUME ReleaseInv, OrderInv, NEW d \in Decisions, NEW run,
           evaluation' = [evaluation EXCEPT ![d] = run], UNCHANGED <<decision, clock>>, run.at # "supersede"
    PROVE  OrderInv'
<1>1. PICK X : RowsTyped(X)
    BY DEF ReleaseInv
<1>2. evaluation'[d] = run /\ \A o \in Decisions \ {d} : evaluation'[o] = evaluation[o]
    BY <1>1 DEF RowsTyped
<1>3. TimesApart'
    BY <1>2 DEF OrderInv, TimesApart
<1>4. SomethingStands'
    BY DEF OrderInv, SomethingStands
<1> QED
    BY <1>3, <1>4 DEF OrderInv

LEMMA OrderStays ==
    ASSUME OrderInv, UNCHANGED <<decision, evaluation, clock>>
    PROVE  OrderInv'
BY DEF OrderInv, TimesApart, SomethingStands

LEMMA OrderFound ==
    ASSUME ReleaseInv, OrderInv, NEW d \in Decisions, FindSuperseded(d)
    PROVE  OrderInv'
<1>1. PICK X : RowsTyped(X)
    BY DEF ReleaseInv
<1>2. PICK old \in EvaluationRow(X) : old = evaluation[d]
    BY <1>1 DEF RowsTyped
<1>3. PICK n \in Nat : n = clock
    BY DEF ReleaseInv, PoliciesTyped
<1>4. PICK run : run = [old EXCEPT !.at = "supersede", !.marks = Supersedable(d), !.time = n + 1]
    OBVIOUS
<1>5. run.at = "supersede" /\ run.time = n + 1
    BY <1>4 DEF EvaluationRow
<1>6. evaluation' = [evaluation EXCEPT ![d] = run] /\ UNCHANGED decision /\ clock' = n + 1
    BY <1>1, <1>2, <1>3, <1>4 DEF FindSuperseded, RowsTyped
<1>7. evaluation'[d] = run /\ \A o \in Decisions \ {d} : evaluation'[o] = evaluation[o]
    BY <1>1, <1>6 DEF RowsTyped
<1>8. \A t \in 1 .. n : t \in 1 .. (n + 1) /\ t # n + 1
    OBVIOUS
<1>9. TimesApart'
    BY <1>3, <1>5, <1>6, <1>7, <1>8 DEF OrderInv, TimesApart
<1>10. SomethingStands'
    BY <1>6 DEF OrderInv, SomethingStands
<1> QED
    BY <1>9, <1>10 DEF OrderInv

LEMMA OrderCreated ==
    ASSUME ReleaseInv, OrderInv, NEW d \in Decisions, CreateDecision(d)
    PROVE  OrderInv'
<1>1. PICK X : RowsTyped(X)
    BY DEF ReleaseInv
<1>2. PICK row : row = [NoDecision EXCEPT !.status = "DRAFT", !.version = policy.version]
    OBVIOUS
<1>3. row.status = "DRAFT" /\ row.outcome = "NONE"
    BY <1>2 DEF NoDecision
<1>4. /\ decision[d].status = "NONE" /\ decision' = [decision EXCEPT ![d] = row]
      /\ UNCHANGED <<evaluation, clock>>
    BY <1>2 DEF CreateDecision
<1>5. decision'[d] = row /\ \A o \in Decisions \ {d} : decision'[o] = decision[o]
    BY <1>1, <1>4 DEF RowsTyped
<1>6. TimesApart'
    BY <1>3, <1>4, <1>5 DEF OrderInv, TimesApart
<1>7. SomethingStands'
    <2> SUFFICES ASSUME NEW o \in Decisions, (decision[o].outcome # "NONE")'
                 PROVE  (\E x \in Decisions : decision[x].status = "DECIDED")'
        BY DEF SomethingStands
    <2>1. o # d /\ decision[o].outcome # "NONE"
        BY <1>3, <1>5
    <2>2. PICK x \in Decisions : decision[x].status = "DECIDED"
        BY <2>1 DEF OrderInv, SomethingStands
    <2>3. x # d /\ decision'[x].status = "DECIDED"
        BY <1>4, <1>5, <2>2
    <2> QED
        BY <2>3
<1> QED
    BY <1>6, <1>7 DEF OrderInv

LEMMA OrderCommitted ==
    ASSUME ReleaseInv, OrderInv, NEW d \in Decisions, DecideRelease(d)
    PROVE  OrderInv'
<1>1. PICK X : RowsTyped(X)
    BY DEF ReleaseInv
<1>2. PICK row : row = Decided(d)
    OBVIOUS
<1>3. row.status = "DECIDED" /\ row.evaluated = evaluation[d].time
    BY <1>2 DEF Decided
<1>4. row.outcome # "NONE"
    <2>1. row.outcome = Outcome(CHOOSE p \in evaluation[d].rules : TRUE, CHOOSE ev \in evaluation[d].found : TRUE)
        BY <1>2 DEF Decided
    <2> QED
        BY <2>1 DEF Outcome
<1>5. PICK marks : marks = evaluation[d].marks
    OBVIOUS
<1>6. /\ evaluation[d].at = "supersede" /\ UNCHANGED clock
      /\ evaluation' = [evaluation EXCEPT ![d] = waiting[d]]
      /\ decision' = [o \in Decisions |->
             IF o = d THEN row
             ELSE IF o \in marks \cap Supersedable(d) THEN [decision[o] EXCEPT !.status = "SUPERSEDED"]
             ELSE decision[o]]
    BY <1>2, <1>5 DEF DecideRelease, CommitDecision, NextEvaluation
<1>7. decision'[d] = row
    BY <1>6
<1>8. ASSUME NEW o \in Decisions \ {d}
      PROVE  decision'[o].status = "DECIDED" => decision'[o] = decision[o]
    <2>1. CASE o \in marks \cap Supersedable(d)
        <3>1. decision[o] \in DecisionRow(X)
            BY <1>1 DEF RowsTyped
        <3>2. decision'[o] = [decision[o] EXCEPT !.status = "SUPERSEDED"]
            BY <1>6, <2>1
        <3>3. decision'[o].status = "SUPERSEDED"
            BY <3>1, <3>2 DEF DecisionRow
        <3> QED
            BY <3>3
    <2>2. CASE o \notin marks \cap Supersedable(d)
        BY <1>6, <2>2
    <2> QED
        BY <2>1, <2>2
<1>9. /\ evaluation'[d] = waiting[d] /\ waiting[d].at # "supersede"
      /\ \A o \in Decisions \ {d} : evaluation'[o] = evaluation[o]
    <2>1. evaluation'[d] = waiting[d] /\ \A o \in Decisions \ {d} : evaluation'[o] = evaluation[o]
        BY <1>1, <1>6 DEF RowsTyped
    <2>2. Waits(d, waiting[d])
        BY DEF ReleaseInv, DecisionSound
    <2> QED
        BY <2>1, <2>2 DEF Waits
<1>10. TimesApart'
    <2> SUFFICES ASSUME NEW x \in Decisions, NEW y \in Decisions
                 PROVE  (/\ decision[x].status = "DECIDED" =>
                               decision[x].outcome # "NONE" /\ decision[x].evaluated \in 1 .. clock
                         /\ evaluation[x].at = "supersede" => evaluation[x].time \in 1 .. clock
                         /\ x # y /\ evaluation[y].at = "supersede" =>
                               /\ decision[x].status = "DECIDED" => evaluation[y].time # decision[x].evaluated
                               /\ evaluation[x].at = "supersede" => evaluation[y].time # evaluation[x].time
                         /\ x # y /\ decision[x].status = "DECIDED" /\ decision[y].status = "DECIDED" =>
                               decision[x].evaluated # decision[y].evaluated)'
        BY DEF TimesApart
    <2>1. row.evaluated \in 1 .. clock
        BY <1>3, <1>6 DEF OrderInv, TimesApart
    <2>2. CASE x = d
        BY <1>3, <1>4, <1>6, <1>7, <1>8, <1>9, <2>1, <2>2 DEF OrderInv, TimesApart
    <2>3. CASE x # d /\ y = d
        BY <1>3, <1>4, <1>6, <1>7, <1>8, <1>9, <2>1, <2>3 DEF OrderInv, TimesApart
    <2>4. CASE x # d /\ y # d
        BY <1>6, <1>8, <1>9, <2>4 DEF OrderInv, TimesApart
    <2> QED
        BY <2>2, <2>3, <2>4
<1>11. SomethingStands'
    BY <1>3, <1>7 DEF SomethingStands
<1> QED
    BY <1>10, <1>11 DEF OrderInv

LEMMA OrderPreserves == ReleaseInv /\ OrderInv /\ [ReleaseNext]_releaseVars => OrderInv'
<1> SUFFICES ASSUME ReleaseInv, OrderInv, [ReleaseNext]_releaseVars
             PROVE  OrderInv'
    OBVIOUS
<1>1. CASE UpdatePolicy
    BY <1>1, OrderStays DEF UpdatePolicy, LoadPolicy, StorePolicy, decisionVars
<1>2. CASE WorldChanges
    BY <1>2, OrderStays DEF WorldChanges
<1>3. ASSUME NEW d \in Decisions, CreateDecision(d)
      PROVE  OrderInv'
    BY <1>3, OrderCreated
<1>4. ASSUME NEW d \in Decisions, NEW job \in BOOLEAN, StartEvaluating(d, job)
      PROVE  OrderInv'
    <2>1. CASE evaluation[d].at = "idle"
        <3>1. Snapshot(d, job).at = "collect"
            BY DEF Snapshot, NoEvaluation
        <3>2. evaluation' = [evaluation EXCEPT ![d] = Snapshot(d, job)] /\ UNCHANGED <<decision, clock>>
            BY <1>4, <2>1 DEF StartEvaluating
        <3> QED
            BY <3>1, <3>2, OrderKept
    <2>2. CASE evaluation[d].at # "idle"
        BY <1>4, <2>2, OrderStays DEF StartEvaluating
    <2> QED
        BY <2>1, <2>2
<1>5. ASSUME NEW d \in Decisions, NEW from, NEW to \in {"observe", "decide"}, NEW found, Collect(d, from, to, found)
      PROVE  OrderInv'
    <2>1. PICK X : RowsTyped(X)
        BY DEF ReleaseInv
    <2>2. PICK old \in EvaluationRow(X) : old = evaluation[d]
        BY <2>1 DEF RowsTyped
    <2>3. PICK run : run = [old EXCEPT !.at = to, !.found = {found}]
        OBVIOUS
    <2>4. run.at = to
        BY <2>3 DEF EvaluationRow
    <2>5. evaluation' = [evaluation EXCEPT ![d] = run] /\ UNCHANGED <<decision, clock>>
        BY <1>5, <2>1, <2>2, <2>3 DEF Collect, RowsTyped
    <2> QED
        BY <2>4, <2>5, OrderKept
<1>6. ASSUME NEW d \in Decisions, CollectRuns(d)
      PROVE  OrderInv'
    BY <1>5, <1>6 DEF CollectRuns
<1>7. ASSUME NEW d \in Decisions, CollectOperation(d)
      PROVE  OrderInv'
    BY <1>5, <1>7 DEF CollectOperation
<1>8. ASSUME NEW d \in Decisions, FindSuperseded(d)
      PROVE  OrderInv'
    BY <1>8, OrderFound
<1>9. ASSUME NEW d \in Decisions, DecideRelease(d)
      PROVE  OrderInv'
    BY <1>9, OrderCommitted
<1>10. ASSUME NEW d \in Decisions, AbortEvaluation(d)
       PROVE  OrderInv'
    <2>1. Waits(d, waiting[d])
        BY DEF ReleaseInv, DecisionSound
    <2>2. waiting[d].at # "supersede"
        BY <2>1 DEF Waits
    <2> QED
        BY <1>10, <2>2, OrderKept DEF AbortEvaluation, NextEvaluation
<1>11. ASSUME NEW d \in Decisions, VerifyEvidence(d)
       PROVE  OrderInv'
    BY <1>11, OrderStays DEF VerifyEvidence
<1>12. CASE UNCHANGED releaseVars
    BY <1>12, OrderStays DEF releaseVars
<1> QED
    BY <1>1, <1>2, <1>3, <1>4, <1>6, <1>7, <1>8, <1>9, <1>10, <1>11, <1>12 DEF ReleaseNext

(* Of what is decided, one was decided last. *)
LEMMA OneDecidedLast ==
    ASSUME ReleaseInv, OrderInv, NEW x \in Decisions, decision[x].status = "DECIDED"
    PROVE  \E d \in Decisions : decision[d].status = "DECIDED" /\ LatestDecided = {d}
<1> DEFINE among == {d \in Decisions : decision[d].status = "DECIDED"}
           Age(d) == clock - decision[d].evaluated
           T == {n \in Nat : \E d \in among : n = Age(d)}
<1>1. clock \in Nat /\ \A d \in among : decision[d].evaluated \in 1 .. clock
    BY DEF ReleaseInv, PoliciesTyped, OrderInv, TimesApart
<1>2. \A d \in among : decision[d].evaluated \in Nat /\ Age(d) \in Nat
    BY <1>1
<1>3. PICK m \in T : \A l \in T : m <= l
    <2>1. T \subseteq Nat /\ T # {}
        BY <1>2
    <2> HIDE DEF T
    <2> QED
        BY <2>1, LeastNumber
<1>4. PICK d \in among : m = Age(d)
    BY <1>3
<1>5. \A o \in among : decision[o].evaluated <= decision[d].evaluated
    <2>1. ASSUME NEW o \in among
          PROVE  decision[o].evaluated <= decision[d].evaluated
        <3>1. Age(o) \in T
            BY <1>2
        <3>2. Age(d) <= Age(o)
            BY <1>3, <1>4, <3>1
        <3> QED
            BY <1>1, <1>2, <3>2
    <2> QED
        BY <2>1
<1>6. LatestDecided = {o \in among : \A y \in among : decision[y].evaluated <= decision[o].evaluated}
    BY DEF LatestDecided, LastOf
<1>7. ASSUME NEW o \in LatestDecided
      PROVE  o = d
    <2>1. o \in among /\ decision[d].evaluated <= decision[o].evaluated
        BY <1>4, <1>6
    <2>2. decision[o].evaluated = decision[d].evaluated
        BY <1>2, <1>4, <1>5, <2>1
    <2> QED
        BY <1>4, <2>1, <2>2 DEF OrderInv, TimesApart
<1>8. d \in LatestDecided
    BY <1>4, <1>5, <1>6
<1> QED
    BY <1>4, <1>7, <1>8

LEMMA NothingLatest ==
    ASSUME LatestDecided = {}
    PROVE  ~(OverallStatus(ProjectOutcome) = "READY")
           /\ \A checks : BlockingIssues(ProjectOutcome, checks) # {}
<1>1. ProjectOutcome = "NONE"
    BY DEF ProjectOutcome
<1> QED
    BY <1>1 DEF OverallStatus, BlockingIssues

LEMMA DecisionsAreReported == ReleaseInv /\ OrderInv => DecisionsReported
<1> SUFFICES ASSUME ReleaseInv, OrderInv
             PROVE  DecisionsReported
    OBVIOUS
<1>1. LatestDecided = {} => \A d \in Decisions : decision[d].outcome = "NONE"
    BY OneDecidedLast DEF OrderInv, SomethingStands
<1> DEFINE checks == UNION {StoredChecks(d) : d \in LatestDecided}
           ready == OverallStatus(ProjectOutcome) = "READY"
<1>2. ASSUME LatestDecided \cap doubled = {}
      PROVE  /\ ready <=> BlockingIssues(ProjectOutcome, checks) \cup OverviewWarnings(ProjectOutcome, checks) = {}
             /\ ready => ProjectActions(ProjectOutcome, checks) = {"NONE"}
    <2>1. CASE LatestDecided = {}
        <3> HIDE DEF checks
        <3> QED
            BY <2>1, NothingLatest
    <2>2. CASE LatestDecided # {}
        <3>1. PICK x \in Decisions : decision[x].status = "DECIDED"
            BY <2>2 DEF LatestDecided, LastOf
        <3>2. PICK d \in Decisions : decision[d].status = "DECIDED" /\ LatestDecided = {d}
            BY <3>1, OneDecidedLast
        <3>3. d \notin doubled /\ decision[d].outcome # "NONE"
            BY <1>2, <3>2 DEF OrderInv, TimesApart
        <3>4. Explained(d, decision[d])
            BY DEF ReleaseInv, DecisionSound
        <3>5. PICK ev \in EvidenceFacts, p \in policies[decision[d].version] :
                  /\ decision[d].version \in 1 .. Len(policies)
                  /\ decision[d].evidence = EvidenceOf(ev, p)
                  /\ decision[d].outcome = Outcome(p, ev)
            BY <3>3, <3>4 DEF Explained
        <3>6. p \in PolicyRules
            BY <3>5 DEF ReleaseInv, PoliciesTyped
        <3>7. StoredChecks(d) = Checks(p, ev)
            BY <3>5, <3>6 DEF StoredChecks, EvidenceOf
        <3>8. checks = Checks(p, ev)
            BY <3>2, <3>7
        <3>9. ProjectOutcome = Outcome(p, ev)
            BY <3>2, <3>5, <3>6 DEF ProjectOutcome
        <3> HIDE DEF checks
        <3>10. ReasonsListed(ProjectOutcome, checks)
            BY <3>6, <3>8, <3>9, ReasonsAreListed
        <3>11. ready => ProjectOutcome = "APPROVED"
            BY <3>6, <3>9, OutcomeHasReason DEF OverallStatus
        <3> QED
            BY <3>6, <3>8, <3>9, <3>10, <3>11, ApprovedAsksNothing DEF ReasonsListed
    <2> QED
        BY <2>1, <2>2
<1>3. \A d \in LatestDecided : \A o \in PreviousDecided(d) : decision[o].status = "SUPERSEDED" \/ {d, o} \in crossed
    BY DEF LatestDecided, PreviousDecided, LastOf, ReleaseInv, SeenOrCrossed
<1> QED
    BY <1>1, <1>2, <1>3 DEF DecisionsReported

(* What is shown of the decisions that are stored, and would be shown of one made now,
   agrees with the policy and the evidence and reads the same in both directions:
   get_project_overview, get_project_actions and compare_decisions. *)
THEOREM ReportsStayTrue == ReleaseSpec => ReportsAgree
<1>1. InForce => EvidenceReported(policy.rules, world)
    BY EvidenceIsReported DEF InForce
<1>2. InForce' => [world' # world \/ policy' # policy => EvidenceReported(policy'.rules, world')]_releaseVars
    BY EvidenceIsReported DEF InForce
<1> QED
    BY <1>1, <1>2, AlwaysInForce, ReleaseStarts, ReleasePreserves, OrderStarts, OrderPreserves, DecisionsAreReported,
       PTL DEF ReleaseSpec, ReportsAgree

-----------------------------------------------------------------------------
(* Agents: what a definition names, and what its runs took from it. *)
AgentRunRow(X) ==
    [status : X, task : X, steps : X, fingerprint : X, version : Nat, config : X, edit : X]

Besides == {"clean", "nulled", "overlapped"}

EditRow ==
    [stage : {"idle", "loaded", "done"}, field : Fields \cup {""}, value : Texts \cup Targets \cup {Cleared},
     version : Nat, config : Configs \cup {<<>>}, beside : Besides]

Names(version, config, fingerprint, edit) ==
    \E named \in Configs :
        /\ fingerprint = ConfigFingerprint(version, named)
        /\ edit = "clean" => named = config
        /\ edit = "nulled" => NullsApart(named, config)

AgentTyped ==
    /\ agent.version \in Nat /\ agent.config \in Configs /\ lastEdit \in Besides
    /\ edits \in [Editors -> EditRow]
    /\ \E X : agentRuns \in [AgentRuns -> AgentRunRow(X)]

(* What an update under way loaded is what the definition is, but for what was deleted
   and until another one is stored beside it. *)
EditAgrees(e) ==
    e.stage = "loaded" =>
        /\ e.field \in Fields /\ e.config \in Configs /\ e.value \in FieldValues(e.field) \cup {Cleared}
        /\ e.beside = "clean" => e.config = agent.config
        /\ e.beside = "nulled" => \A f \in Fields : e.config[f] = agent.config[f] \/ agent.config[f] = Cleared

RunNamed(n) ==
    agentRuns[n].status # "absent" =>
        Names(agentRuns[n].version, agentRuns[n].config, agentRuns[n].fingerprint, agentRuns[n].edit)

AgentInv ==
    /\ AgentTyped /\ (\A u \in Editors : EditAgrees(edits[u]))
    /\ Names(agent.version, agent.config, agent.fingerprint, lastEdit)
    /\ \A n \in AgentRuns : RunNamed(n)

LEMMA AgentLoaded ==
    ASSUME AgentInv, NEW u \in Editors, LoadAgent(u)
    PROVE  AgentInv'
<1>1. PICK f \in Fields, v \in Texts \cup Targets \cup {Cleared} :
          /\ v \in FieldValues(f) \cup {Cleared}
          /\ edits' = [edits EXCEPT ![u] = [stage |-> "loaded", field |-> f, value |-> v, version |-> agent.version,
                                            config |-> agent.config, beside |-> "clean"]]
    BY DEF LoadAgent, FieldValues
<1>2. PICK version \in Nat, config \in Configs : version = agent.version /\ config = agent.config
    BY DEF AgentInv, AgentTyped
<1>3. PICK e : e = [stage |-> "loaded", field |-> f, value |-> v, version |-> version, config |-> config, beside |-> "clean"]
    OBVIOUS
<1>4. e \in EditRow /\ e.field = f /\ e.config = config /\ e.value = v /\ e.beside = "clean"
    BY <1>3 DEF EditRow, Besides
<1>5. edits' = [edits EXCEPT ![u] = e] /\ UNCHANGED <<agent, lastEdit, agentRuns>>
    BY <1>1, <1>2, <1>3 DEF LoadAgent
<1>6. edits'[u] = e /\ \A w \in Editors \ {u} : edits'[w] = edits[w]
    BY <1>5 DEF AgentInv, AgentTyped
<1>7. AgentTyped'
    BY <1>4, <1>5 DEF AgentInv, AgentTyped
<1>8. EditAgrees(e)'
    BY <1>1, <1>2, <1>4, <1>5 DEF EditAgrees
<1>9. \A w \in Editors : EditAgrees(edits[w])'
    BY <1>5, <1>6, <1>8 DEF AgentInv, EditAgrees
<1> QED
    BY <1>5, <1>7, <1>9 DEF AgentInv, RunNamed

(* A row of which only the note of what came beside it is written. *)
LEMMA BesideNoted ==
    ASSUME NEW r \in EditRow, NEW beside \in Besides
    PROVE  LET new == [r EXCEPT !.beside = beside]
           IN /\ new \in EditRow /\ new.stage = r.stage /\ new.field = r.field /\ new.config = r.config
              /\ new.value = r.value /\ new.beside = beside
BY DEF EditRow, Besides

LEMMA EditDone ==
    LET done == [NoEdit EXCEPT !.stage = "done"] IN done \in EditRow /\ done.stage = "done"
BY DEF NoEdit, EditRow, Besides

LEMMA AgentStored ==
    ASSUME AgentInv, NEW u \in Editors, StoreAgent(u)
    PROVE  AgentInv'
<1>1. PICK e \in EditRow : e = edits[u]
    BY DEF AgentInv, AgentTyped
<1>2. e.stage = "loaded" /\ EditAgrees(e)
    BY <1>1 DEF StoreAgent, Update, AgentInv
<1>21. e.field \in Fields /\ e.config \in Configs /\ e.value \in FieldValues(e.field) \cup {Cleared} /\ e.beside \in Besides
    BY <1>2 DEF EditAgrees, EditRow
<1>22. PICK f \in Fields, from \in Configs, beside \in Besides : f = e.field /\ from = e.config /\ beside = e.beside
    BY <1>21
<1>23. PICK v : v = e.value
    OBVIOUS
<1>3. /\ f = e.field /\ v = e.value /\ from = e.config /\ beside = e.beside
      /\ v \in FieldValues(f) \cup {Cleared} /\ v \in Texts \cup Targets \cup {Cleared}
    BY <1>21, <1>22, <1>23 DEF FieldValues
<1>19. PICK wanted : wanted = [from EXCEPT ![f] = v]
    OBVIOUS
<1>4. wanted \in Configs /\ wanted[f] = v /\ \A g \in Fields \ {f} : wanted[g] = from[g]
    BY <1>3, <1>19 DEF Configs
<1>5. PICK now \in Configs : now = agent.config
    BY DEF AgentInv, AgentTyped
<1>20. PICK config : config = IF Written(e) THEN [now EXCEPT ![f] = v] ELSE now
    OBVIOUS
<1>6. /\ config \in Configs /\ \A g \in Fields \ {f} : config[g] = now[g]
      /\ Written(e) => config[f] = v
      /\ ~Written(e) => config[f] = now[f]
    <2>1. CASE Written(e)
        <3>1. config = [now EXCEPT ![f] = v]
            BY <1>20, <2>1
        <3> QED
            BY <1>3, <2>1, <3>1 DEF Configs
    <2>2. CASE ~Written(e)
        BY <1>20, <2>2
    <2> QED
        BY <2>1, <2>2
<1>7. Written(e) <=> v # Cleared /\ v # from[f]
    BY <1>3 DEF Written
<1>8. PICK edit : edit = IF beside = "clean" /\ v = Cleared THEN "nulled" ELSE beside
    OBVIOUS
<1>9. edit \in Besides
    BY <1>8 DEF Besides
<1>10. edit = "clean" => wanted = config
    <2>1. SUFFICES ASSUME edit = "clean"
                   PROVE  wanted = config
        OBVIOUS
    <2>2. beside = "clean" /\ v # Cleared
        BY <1>8, <2>1
    <2>3. from = now
        BY <1>2, <1>3, <1>5, <2>2 DEF EditAgrees
    <2>4. \A g \in Fields : wanted[g] = config[g]
        BY <1>4, <1>6, <1>7, <2>2, <2>3
    <2>5. wanted = [g \in Fields |-> wanted[g]] /\ config = [g \in Fields |-> config[g]]
        BY <1>4, <1>6 DEF Configs
    <2> QED
        BY <2>4, <2>5
<1>11. edit = "nulled" => NullsApart(wanted, config)
    <2>1. SUFFICES ASSUME edit = "nulled"
                   PROVE  NullsApart(wanted, config)
        OBVIOUS
    <2>2. \A g \in Fields : from[g] = now[g] \/ now[g] = Cleared
        BY <1>2, <1>3, <1>5, <1>8, <2>1 DEF EditAgrees
    <2> QED
        BY <1>4, <1>6, <1>7, <2>2 DEF NullsApart
<1>12. PICK version \in Nat : version = e.version + 1
    <2>1. PICK k \in Nat : k = e.version
        BY DEF EditRow
    <2>2. k + 1 \in Nat /\ k + 1 = e.version + 1
        BY <2>1
    <2> QED
        BY <2>2, Zenon
<1>13. /\ agent' = [version |-> version, config |-> config, fingerprint |-> ConfigFingerprint(version, wanted)]
       /\ edits' = [w \in Editors |->
              IF w = u THEN [NoEdit EXCEPT !.stage = "done"]
              ELSE [edits[w] EXCEPT !.beside = IF edits[w].stage = "loaded" THEN "overlapped" ELSE @]]
       /\ lastEdit' = edit
       /\ UNCHANGED agentRuns
    BY <1>1, <1>3, <1>5, <1>8, <1>12, <1>19, <1>20 DEF StoreAgent, Update
<1>14. agent'.version = version /\ agent'.config = config /\ agent'.fingerprint = ConfigFingerprint(version, wanted)
    BY <1>13
<1>15. Names(agent.version, agent.config, agent.fingerprint, lastEdit)'
    BY <1>4, <1>10, <1>11, <1>13, <1>14 DEF Names
<1>16. ASSUME NEW w \in Editors
       PROVE  edits'[w] \in EditRow /\ EditAgrees(edits[w])'
    <2>1. CASE w = u
        <3>1. edits'[w] = [NoEdit EXCEPT !.stage = "done"]
            BY <1>13, <2>1
        <3>2. edits'[w] \in EditRow /\ edits'[w].stage = "done"
            BY <3>1, EditDone, Zenon
        <3> QED
            BY <3>2 DEF EditAgrees
    <2>2. CASE w # u
        <3>1. PICK r \in EditRow : r = edits[w]
            BY DEF AgentInv, AgentTyped
        <3>2. PICK note \in Besides : note = IF r.stage = "loaded" THEN "overlapped" ELSE r.beside
            BY DEF EditRow, Besides
        <3>3. edits'[w] = [r EXCEPT !.beside = note]
            BY <1>13, <2>2, <3>1, <3>2
        <3>4. /\ edits'[w] \in EditRow /\ edits'[w].stage = r.stage /\ edits'[w].field = r.field
              /\ edits'[w].config = r.config /\ edits'[w].value = r.value /\ edits'[w].beside = note
            BY <3>3, BesideNoted
        <3>5. EditAgrees(r)
            BY <3>1 DEF AgentInv
        <3> QED
            BY <3>2, <3>4, <3>5 DEF EditAgrees
    <2> QED
        BY <2>1, <2>2
<1>17. edits' \in [Editors -> EditRow]
    <2>1. edits' = [w \in Editors |-> edits'[w]]
        BY <1>13
    <2> QED
        BY <1>16, <2>1
<1>18. AgentTyped'
    BY <1>6, <1>9, <1>13, <1>14, <1>17 DEF AgentInv, AgentTyped
<1> QED
    BY <1>13, <1>15, <1>16, <1>18 DEF AgentInv, RunNamed

LEMMA AgentRefused ==
    ASSUME AgentInv, NEW u \in Editors, RefuseAgent(u)
    PROVE  AgentInv'
<1>1. PICK done \in EditRow : done = [NoEdit EXCEPT !.stage = "done"] /\ done.stage = "done"
    BY EditDone
<1>2. edits' = [edits EXCEPT ![u] = done] /\ UNCHANGED <<agent, lastEdit, agentRuns>>
    BY <1>1 DEF RefuseAgent
<1>3. edits'[u] = done /\ \A w \in Editors \ {u} : edits'[w] = edits[w]
    BY <1>2 DEF AgentInv, AgentTyped
<1>4. AgentTyped'
    BY <1>2 DEF AgentInv, AgentTyped
<1>5. \A w \in Editors : EditAgrees(edits[w])'
    BY <1>1, <1>2, <1>3 DEF AgentInv, EditAgrees
<1> QED
    BY <1>2, <1>4, <1>5 DEF AgentInv, RunNamed

(* A reference that is set to null takes it from the configuration alone. *)
LEMMA TargetDeleted ==
    ASSUME AgentInv, NEW m \in Targets, DeleteTarget(m)
    PROVE  AgentInv'
<1>1. CASE agent.config["model_id"] # m
    BY <1>1 DEF DeleteTarget, AgentInv, AgentTyped, EditAgrees, RunNamed
<1>2. CASE agent.config["model_id"] = m
    <2>1. PICK now \in Configs, edit \in Besides : now = agent.config /\ edit = lastEdit
        BY DEF AgentInv, AgentTyped
    <2>2. PICK f \in Fields : f = "model_id"
        BY DEF Fields
    <2>13. PICK config : config = [now EXCEPT ![f] = Cleared]
        OBVIOUS
    <2>3. config \in Configs /\ config[f] = Cleared /\ \A g \in Fields \ {f} : config[g] = now[g]
        BY <2>13 DEF Configs
    <2>4. /\ agent' = [agent EXCEPT !.config[f] = Cleared]
          /\ edits' = [w \in Editors |->
                 [edits[w] EXCEPT !.beside = IF edits[w].stage = "loaded" THEN Nulled(@) ELSE @]]
          /\ lastEdit' = Nulled(edit) /\ UNCHANGED agentRuns
        BY <1>2, <2>1, <2>2 DEF DeleteTarget
    <2>5. agent'.version = agent.version /\ agent'.fingerprint = agent.fingerprint /\ agent'.config = config
        BY <2>1, <2>4, <2>13 DEF AgentInv, AgentTyped
    <2>6. lastEdit' \in Besides /\ lastEdit' # "clean" /\ (lastEdit' = "nulled" => edit # "overlapped")
        BY <2>4 DEF Nulled, Besides
    <2>7. PICK named \in Configs :
              /\ agent.fingerprint = ConfigFingerprint(agent.version, named)
              /\ edit = "clean" => named = now
              /\ edit = "nulled" => NullsApart(named, now)
        BY <2>1 DEF AgentInv, Names
    <2>8. edit # "overlapped" => NullsApart(named, config)
        BY <2>3, <2>7 DEF NullsApart, Besides
    <2>9. Names(agent.version, agent.config, agent.fingerprint, lastEdit)'
        BY <2>5, <2>6, <2>7, <2>8 DEF Names
    <2>10. ASSUME NEW w \in Editors
           PROVE  edits'[w] \in EditRow /\ EditAgrees(edits[w])'
        <3>1. PICK r \in EditRow : r = edits[w]
            BY DEF AgentInv, AgentTyped
        <3>2. PICK note \in Besides : note = IF r.stage = "loaded" THEN Nulled(r.beside) ELSE r.beside
            BY DEF EditRow, Besides, Nulled
        <3>3. edits'[w] = [r EXCEPT !.beside = note]
            BY <2>4, <3>1, <3>2
        <3>4. /\ edits'[w] \in EditRow /\ edits'[w].stage = r.stage /\ edits'[w].field = r.field
              /\ edits'[w].config = r.config /\ edits'[w].value = r.value /\ edits'[w].beside = note
            BY <3>3, BesideNoted
        <3>5. EditAgrees(r)
            BY <3>1 DEF AgentInv
        <3>6. r.stage = "loaded" => note # "clean" /\ (note = "nulled" => r.beside # "overlapped")
            BY <3>2 DEF Nulled
        <3>7. r.beside \in Besides
            BY DEF EditRow
        <3>8. ASSUME r.stage = "loaded", r.beside # "overlapped"
              PROVE  \A g \in Fields : r.config[g] = config[g] \/ config[g] = Cleared
            BY <2>1, <2>3, <3>5, <3>7, <3>8 DEF EditAgrees, Besides
        <3> QED
            BY <2>5, <3>4, <3>5, <3>6, <3>8 DEF EditAgrees
    <2>11. edits' \in [Editors -> EditRow]
        <3>1. edits' = [w \in Editors |-> edits'[w]]
            BY <2>4
        <3> QED
            BY <2>10, <3>1
    <2>12. AgentTyped'
        BY <2>3, <2>4, <2>5, <2>6, <2>11 DEF AgentInv, AgentTyped
    <2> QED
        BY <2>4, <2>9, <2>10, <2>12 DEF AgentInv, RunNamed
<1> QED
    BY <1>1, <1>2

(* A run keeps all it took from the definition. *)
LEMMA RunWritten ==
    ASSUME AgentInv, NEW X, NEW n \in AgentRuns, NEW row \in AgentRunRow(X),
           agentRuns \in [AgentRuns -> AgentRunRow(X)], agentRuns' = [agentRuns EXCEPT ![n] = row],
           row.status # "absent" => Names(row.version, row.config, row.fingerprint, row.edit),
           UNCHANGED <<agent, edits, lastEdit>>
    PROVE  AgentInv'
<1>1. agentRuns' \in [AgentRuns -> AgentRunRow(X)] /\ agentRuns'[n] = row
    OBVIOUS
<1>2. \A m \in AgentRuns \ {n} : agentRuns'[m] = agentRuns[m]
    OBVIOUS
<1>3. AgentTyped'
    BY <1>1 DEF AgentInv, AgentTyped
<1>4. \A u \in Editors : EditAgrees(edits[u])'
    BY DEF AgentInv, EditAgrees
<1>5. \A m \in AgentRuns : RunNamed(m)'
    BY <1>1, <1>2 DEF AgentInv, RunNamed
<1> QED
    BY <1>3, <1>4, <1>5 DEF AgentInv

LEMMA RunRowsGrow ==
    ASSUME NEW X, NEW Y, X \subseteq Y
    PROVE  AgentRunRow(X) \subseteq AgentRunRow(Y)
BY DEF AgentRunRow

LEMMA AgentRunStarted ==
    ASSUME AgentInv, NEW n \in AgentRuns, StartAgentRun(n)
    PROVE  AgentInv'
<1>1. PICK status, task, steps :
          agentRuns' = [agentRuns EXCEPT ![n] =
              [status |-> status, task |-> task, steps |-> steps, fingerprint |-> agent.fingerprint,
               version |-> agent.version, config |-> agent.config, edit |-> lastEdit]]
    BY DEF StartAgentRun
<1>2. PICK fingerprint, config, version, edit :
          /\ fingerprint = agent.fingerprint /\ config = agent.config /\ version = agent.version /\ edit = lastEdit
          /\ version \in Nat
    BY DEF AgentInv, AgentTyped
<1>3. PICK Z : agentRuns \in [AgentRuns -> AgentRunRow(Z)]
    BY DEF AgentInv, AgentTyped
<1> DEFINE X == Z \cup {status, task, steps, fingerprint, config, edit}
           row == [status |-> status, task |-> task, steps |-> steps, fingerprint |-> fingerprint,
                   version |-> version, config |-> config, edit |-> edit]
<1>4. /\ row \in AgentRunRow(X) /\ row.edit = edit /\ row.version = version /\ row.config = config
      /\ row.fingerprint = fingerprint
    BY <1>2 DEF AgentRunRow
<1>5. AgentRunRow(Z) \subseteq AgentRunRow(X)
    BY RunRowsGrow
<1>6. agentRuns \in [AgentRuns -> AgentRunRow(X)]
    BY <1>3, <1>5
<1>7. agentRuns' = [agentRuns EXCEPT ![n] = row] /\ UNCHANGED <<agent, edits, lastEdit>>
    BY <1>1, <1>2 DEF StartAgentRun
<1> HIDE DEF row, X
<1>8. Names(row.version, row.config, row.fingerprint, row.edit)
    BY <1>2, <1>4 DEF AgentInv
<1> QED
    BY <1>4, <1>6, <1>7, <1>8, RunWritten

LEMMA AgentRunEvaluated ==
    ASSUME AgentInv, NEW n \in AgentRuns, EvaluateRun(n)
    PROVE  AgentInv'
<1>1. PICK status : agentRuns' = [agentRuns EXCEPT ![n].status = status]
    BY DEF EvaluateRun
<1>2. PICK Z : agentRuns \in [AgentRuns -> AgentRunRow(Z)]
    BY DEF AgentInv, AgentTyped
<1> DEFINE X == Z \cup {status}
<1>3. AgentRunRow(Z) \subseteq AgentRunRow(X) /\ status \in X
    BY RunRowsGrow
<1>4. agentRuns \in [AgentRuns -> AgentRunRow(X)]
    BY <1>2, <1>3
<1> HIDE DEF X
<1>5. PICK old \in AgentRunRow(X) : old = agentRuns[n]
    BY <1>4
<1> DEFINE row == [old EXCEPT !.status = status]
<1>6. /\ row \in AgentRunRow(X) /\ row.edit = old.edit /\ row.version = old.version /\ row.config = old.config
      /\ row.fingerprint = old.fingerprint
    BY <1>3 DEF AgentRunRow
<1>7. agentRuns' = [agentRuns EXCEPT ![n] = row] /\ old.status # "absent" /\ UNCHANGED <<agent, edits, lastEdit>>
    BY <1>1, <1>5 DEF EvaluateRun
<1> HIDE DEF row
<1>8. Names(row.version, row.config, row.fingerprint, row.edit)
    BY <1>5, <1>6, <1>7 DEF AgentInv, RunNamed
<1> QED
    BY <1>4, <1>6, <1>7, <1>8, RunWritten

LEMMA AgentStays ==
    ASSUME AgentInv, UNCHANGED <<agent, edits, lastEdit, agentRuns>>
    PROVE  AgentInv'
BY DEF AgentInv, AgentTyped, EditAgrees, RunNamed

LEMMA AgentStarts == AgentInit => AgentInv
<1> SUFFICES ASSUME AgentInit
             PROVE  AgentInv
    OBVIOUS
<1>1. PICK c \in Configs : agent = [version |-> 1, config |-> c, fingerprint |-> ConfigFingerprint(1, c)]
    BY DEF AgentInit
<1>2. agent.version = 1 /\ agent.config = c /\ Names(agent.version, agent.config, agent.fingerprint, lastEdit)
    BY <1>1 DEF Names, AgentInit
<1>3. NoEdit \in EditRow /\ NoEdit.stage = "idle"
    BY DEF NoEdit, EditRow, Besides
<1>4. NoRun \in AgentRunRow({"absent", 0, <<>>, "clean"}) /\ NoRun.status = "absent"
    BY DEF NoRun, AgentRunRow
<1>5. AgentTyped
    <2>1. agentRuns \in [AgentRuns -> AgentRunRow({"absent", 0, <<>>, "clean"})]
        BY <1>4 DEF AgentInit
    <2>2. edits = [u \in Editors |-> NoEdit]
        BY DEF AgentInit
    <2> QED
        <3>1. agent.version \in Nat /\ agent.config \in Configs /\ lastEdit \in Besides
            BY <1>2 DEF AgentInit, Besides
        <3>2. edits \in [Editors -> EditRow]
            BY <1>3, <2>2, Zenon
        <3> QED
            BY <2>1, <3>1, <3>2, Zenon DEF AgentTyped
<1>6. \A u \in Editors : EditAgrees(edits[u])
    BY <1>3 DEF AgentInit, EditAgrees
<1>7. \A n \in AgentRuns : RunNamed(n)
    BY <1>4 DEF AgentInit, RunNamed
<1> QED
    BY <1>2, <1>5, <1>6, <1>7 DEF AgentInv

LEMMA AgentPreserves == AgentInv /\ [AgentNext]_agentVars => AgentInv'
<1> SUFFICES ASSUME AgentInv, [AgentNext]_agentVars
             PROVE  AgentInv'
    OBVIOUS
<1>1. ASSUME NEW u \in Editors, LoadAgent(u) \/ StoreAgent(u) \/ RefuseAgent(u)
      PROVE  AgentInv'
    BY <1>1, AgentLoaded, AgentStored, AgentRefused
<1>6. ASSUME NEW m \in Targets, DeleteTarget(m)
      PROVE  AgentInv'
    BY <1>6, TargetDeleted
<1>2. ASSUME NEW n \in AgentRuns, StartAgentRun(n) \/ EvaluateRun(n)
      PROVE  AgentInv'
    BY <1>2, AgentRunStarted, AgentRunEvaluated
<1>3. ASSUME NEW t \in Tools, CreateTool(t)
      PROVE  AgentInv'
    BY <1>3, AgentStays DEF CreateTool
<1>4. CASE AddTrajectoryStep
    BY <1>4, AgentStays DEF AddTrajectoryStep
<1>5. CASE UNCHANGED agentVars
    BY <1>5, AgentStays DEF agentVars
<1> QED
    BY <1>1, <1>2, <1>3, <1>4, <1>5, <1>6 DEF AgentNext

(* Of any number of updates that overlap, clear fields and store one version twice, and
   of models deleted at any moment, the fingerprint a run records names its version and
   the configuration it executed: exactly, but for nulls, or not at all, as the update
   before it was clean, met nulls or overlapped another (AgentService.update_agent,
   start_run and ON DELETE SET NULL). *)
THEOREM FingerprintsTell == AgentSpec => []FingerprintTellsConfiguration
<1>1. AgentInv => FingerprintTellsConfiguration
    BY DEF AgentInv, RunNamed, Names, FingerprintTellsConfiguration
<1> QED
    BY <1>1, AgentStarts, AgentPreserves, PTL DEF AgentSpec

-----------------------------------------------------------------------------
(* The verdicts of a comparison: samples are bags, and their sums are integers. *)
Samples == [ObservedValues -> Nat]
SamplesInv == baseline \in Samples /\ candidate \in Samples

LEMMA SamplesStay == ComparisonSpec => []SamplesInv
<1>1. ComparisonInit => SamplesInv
    BY DEF ComparisonInit, SamplesInv, Samples
<1>2. SamplesInv /\ [Observe]_comparisonVars => SamplesInv'
    BY DEF SamplesInv, Samples, Observe, comparisonVars
<1> QED
    BY <1>1, <1>2, PTL DEF ComparisonSpec

LEMMA Sums ==
    ASSUME NEW s \in Samples
    PROVE  Size(s) \in Nat /\ Total(s) \in Int /\ Spread(s) \in Int
<1>1. /\ ObservedValues \subseteq Int /\ IsFiniteSet(ObservedValues)
      /\ DOMAIN s = ObservedValues /\ \A v \in ObservedValues : s[v] \in Nat
    BY ComparisonAssumption DEF Samples
<1>2. /\ 0 \in Nat /\ \A a, b \in Nat : a + b \in Nat
      /\ 0 \in Int /\ \A a, b \in Int : a + b \in Int
    OBVIOUS
<1>3. Size(s) \in Nat
    <2>1. [v \in DOMAIN s |-> s[v] * 1] \in [ObservedValues -> Nat]
        BY <1>1
    <2>2. FoldFunction(+, 0, [v \in DOMAIN s |-> s[v] * 1]) \in Nat
        BY <1>1, <1>2, <2>1, SumIn
    <2> QED
        BY <2>2 DEF Size, SumOver
<1>4. Total(s) \in Int
    <2>1. [v \in DOMAIN s |-> s[v] * v] \in [ObservedValues -> Int]
        BY <1>1
    <2>2. FoldFunction(+, 0, [v \in DOMAIN s |-> s[v] * v]) \in Int
        BY <1>1, <1>2, <2>1, SumIn
    <2> QED
        BY <2>2 DEF Total, SumOver
<1>5. Spread(s) \in Int
    <2> DEFINE g == [v \in DOMAIN s |-> s[v] * (v * v)]
               square == FoldFunction(+, 0, g)
               n == Size(s)
               t == Total(s)
    <2>1. \A v \in ObservedValues : s[v] * (v * v) \in Int
        BY <1>1
    <2>2. g \in [ObservedValues -> Int]
        BY <1>1, <2>1
    <2>3. square \in Int
        <3> HIDE DEF g
        <3> QED
            BY <1>1, <1>2, <2>2, SumIn
    <2>4. Spread(s) = n * square - t * t
        BY DEF Spread, SumOver
    <2> HIDE DEF square, n, t
    <2>5. n \in Int /\ t \in Int
        BY <1>3, <1>4 DEF n, t
    <2> QED
        BY <2>3, <2>4, <2>5
<1> QED
    BY <1>3, <1>4, <1>5

(* A variance is not negative: it is the sum of squares of the distances to the mean. *)
LEMMA DistanceSquared ==
    ASSUME NEW w \in Nat, NEW v \in Int, NEW n \in Int, NEW t \in Int
    PROVE  /\ w * ((n * v - t) * (n * v - t)) \in Nat
           /\ w * ((n * v - t) * (n * v - t))
                = (n * n) * (w * (v * v)) + (- (2 * (n * t))) * (w * v) + (t * t) * (w * 1)
<1>1. n * v - t \in Int /\ (n * v - t) * (n * v - t) \in Int
    OBVIOUS
<1>2. (n * v - t) * (n * v - t) >= 0
    <2> DEFINE x == n * v - t
    <2> HIDE DEF x
    <2>1. x \in Int
        BY <1>1 DEF x
    <2>2. x * x >= 0
        BY <2>1
    <2> QED
        BY <2>2 DEF x
<1>3. w * ((n * v - t) * (n * v - t)) >= 0
    <2> DEFINE u == (n * v - t) * (n * v - t)
    <2>1. u \in Int /\ u >= 0
        BY <1>1, <1>2
    <2> HIDE DEF u
    <2>2. w * u >= 0 /\ w * u \in Int
        BY <2>1
    <2> QED
        BY <2>2 DEF u
<1> QED
    BY <1>1, <1>3

LEMMA VarianceNotNegative ==
    ASSUME NEW s \in Samples, Size(s) > 0
    PROVE  Spread(s) \in Int /\ Spread(s) >= 0
<1> DEFINE n == Size(s)
           t == Total(s)
           square == [v \in ObservedValues |-> s[v] * (v * v)]
           value == [v \in ObservedValues |-> s[v] * v]
           one == [v \in ObservedValues |-> s[v] * 1]
           distance == [v \in ObservedValues |-> s[v] * ((n * v - t) * (n * v - t))]
           q == FoldFunction(+, 0, square)
<1>1. /\ ObservedValues \subseteq Int /\ IsFiniteSet(ObservedValues)
      /\ DOMAIN s = ObservedValues /\ \A v \in ObservedValues : s[v] \in Nat
    BY ComparisonAssumption DEF Samples
<1>2. t = FoldFunction(+, 0, value) /\ n = FoldFunction(+, 0, one) /\ Spread(s) = n * q - t * t
    BY <1>1 DEF Total, Size, Spread, SumOver
<1>3. n \in Nat /\ n > 0 /\ t \in Int /\ Spread(s) \in Int
    BY Sums
<1> HIDE DEF n, t
<1>4. \A v \in ObservedValues :
          /\ distance[v] \in Nat
          /\ distance[v] = (n * n) * square[v] + (- (2 * (n * t))) * value[v] + (t * t) * one[v]
    BY <1>1, <1>3, DistanceSquared
<1>5. /\ square \in [ObservedValues -> Int] /\ value \in [ObservedValues -> Int]
      /\ one \in [ObservedValues -> Int]
    BY <1>1
<1>6. distance \in [ObservedValues -> Nat] /\ distance \in [ObservedValues -> Int]
    BY <1>4
<1>7. n * n \in Int /\ - (2 * (n * t)) \in Int /\ t * t \in Int
    BY <1>3
<1> HIDE DEF distance, square, value, one
<1>8. FoldFunction(+, 0, distance) \in Nat
    <2>1. 0 \in Nat /\ \A a, b \in Nat : a + b \in Nat
        OBVIOUS
    <2> QED
        BY <1>1, <1>6, <2>1, SumIn
<1>9. q \in Int
    <2>1. 0 \in Int /\ \A a, b \in Int : a + b \in Int
        OBVIOUS
    <2> QED
        BY <1>1, <1>5, <2>1, SumIn
<1>10. FoldFunction(+, 0, distance) = (n * n) * q + (- (2 * (n * t))) * t + (t * t) * n
    <2> DEFINE i == n * n
               j == - (2 * (n * t))
               k == t * t
    <2>1. i \in Int /\ j \in Int /\ k \in Int
        BY <1>7
    <2>2. \A v \in ObservedValues : distance[v] = i * square[v] + j * value[v] + k * one[v]
        BY <1>4
    <2> HIDE DEF i, j, k
    <2>3. Combines(ObservedValues, distance, i, square, j, value, k, one)
        BY <1>5, <1>6, <2>1, <2>2 DEF Combines
    <2>4. SumIs(distance, i, square, j, value, k, one)
        BY <1>1, <2>3, SumCombines
    <2> QED
        BY <1>2, <2>4 DEF SumIs, i, j, k
<1> HIDE DEF q
<1>11. (n * n) * q + (- (2 * (n * t))) * t + (t * t) * n = n * (n * q - t * t)
    BY <1>3, <1>9
<1>12. n * Spread(s) >= 0
    <2> DEFINE sum == FoldFunction(+, 0, distance)
               x == Spread(s)
    <2>1. sum = n * (n * q - t * t)
        BY <1>10, <1>11
    <2>2. x = n * q - t * t
        BY <1>2
    <2>3. sum = n * x
        BY <2>1, <2>2
    <2>4. sum \in Nat /\ x \in Int
        BY <1>3, <1>8
    <2> HIDE DEF sum, x
    <2>5. n * x >= 0
        BY <2>3, <2>4
    <2> QED
        BY <2>5 DEF x
<1>13. Spread(s) >= 0
    <2> DEFINE x == Spread(s)
    <2>1. x \in Int /\ n * x >= 0
        BY <1>3, <1>12
    <2> HIDE DEF x
    <2>2. x >= 0
        BY <1>3, <2>1
    <2> QED
        BY <2>2 DEF x
<1> QED
    BY <1>3, <1>13

(* The sides swapped: the difference changes its sign, its significance stays. *)
LEMMA SwappedMeans ==
    ASSUME NEW b \in Samples, NEW c \in Samples
    PROVE  /\ MeanChange(b, c) \in Int /\ MeanChange(c, b) \in Int
           /\ MeanChange(c, b) = - MeanChange(b, c)
<1> DEFINE x == Total(c) * Size(b)
           y == Total(b) * Size(c)
<1>1. x \in Int /\ y \in Int
    BY Sums
<1>2. MeanChange(b, c) = x - y /\ MeanChange(c, b) = y - x
    BY DEF MeanChange
<1> HIDE DEF x, y
<1> QED
    BY <1>1, <1>2

LEMMA SwappedSignificance ==
    ASSUME NEW b \in Samples, NEW c \in Samples
    PROVE  Significant(b, c) <=> Significant(c, b)
<1> DEFINE n == Size(b)
           m == Size(c)
           p == Spread(b) * m * m * (m - 1)
           q == Spread(c) * n * n * (n - 1)
           x == MeanChange(b, c)
           y == MeanChange(c, b)
           there == x * x * (n - 1) * (m - 1)
           back == y * y * (m - 1) * (n - 1)
<1>1. n \in Int /\ m \in Int /\ x \in Int /\ y \in Int /\ y = -x
    BY Sums, SwappedMeans
<1>2. p \in Int /\ q \in Int
    BY Sums
<1>3. there = back
    <2> HIDE DEF n, m, x, y
    <2> DEFINE k == n - 1
               l == m - 1
    <2>1. k \in Int /\ l \in Int /\ there = x * x * k * l /\ back = y * y * l * k
        BY <1>1
    <2>2. y * y = x * x /\ x * x \in Int
        BY <1>1
    <2> DEFINE u == x * x
    <2>3. there = u * k * l /\ back = u * l * k
        BY <2>1, <2>2
    <2> HIDE DEF k, l, u, there, back
    <2>4. u \in Int
        BY <2>2 DEF u
    <2> QED
        BY <2>1, <2>3, <2>4
<1>4. Significant(b, c) <=> there > 3 * (p + q) + (526 * (p + q)) \div 625
    BY DEF Significant
<1>5. Significant(c, b) <=> back > 3 * (q + p) + (526 * (q + p)) \div 625
    BY DEF Significant
<1>6. p + q = q + p
    <2> HIDE DEF p, q
    <2> QED
        BY <1>2
<1> HIDE DEF p, q, there, back
<1> QED
    BY <1>3, <1>4, <1>5, <1>6

(* Equal means never differ significantly. *)
LEMMA EqualMeans ==
    ASSUME NEW b \in Samples, NEW c \in Samples, HasStatistics(b, c), MeanChange(b, c) = 0
    PROVE  ~Significant(b, c)
<1> DEFINE n == Size(b)
           m == Size(c)
           sb == Spread(b)
           sc == Spread(c)
           p == sb * m * m * (m - 1)
           q == sc * n * n * (n - 1)
           error == p + q
           change == MeanChange(b, c) * MeanChange(b, c) * (n - 1) * (m - 1)
<1>1. n \in Nat /\ m \in Nat /\ n >= 5 /\ m >= 5
    BY Sums DEF HasStatistics
<1>2. sb \in Nat /\ sc \in Nat
    BY <1>1, VarianceNotNegative
<1> HIDE DEF n, m, sb, sc
<1>3. p \in Nat
    <2>1. sb * m \in Nat /\ m - 1 \in Nat
        BY <1>1, <1>2
    <2>2. sb * m * m \in Nat
        BY <1>1, <2>1
    <2> QED
        BY <2>1, <2>2
<1>4. q \in Nat
    <2>1. sc * n \in Nat /\ n - 1 \in Nat
        BY <1>1, <1>2
    <2>2. sc * n * n \in Nat
        BY <1>1, <2>1
    <2> QED
        BY <2>1, <2>2
<1> HIDE DEF p, q
<1>5. error \in Nat
    BY <1>3, <1>4
<1>6. change = 0
    BY <1>1
<1>7. Significant(b, c) <=> change > 3 * error + (526 * error) \div 625
    BY DEF Significant, p, q, n, m, sb, sc
<1> HIDE DEF error, change
<1> QED
    BY <1>5, <1>6, <1>7

(* An improvement is a regression seen from the other side. *)
LEMMA SwappedClasses ==
    ASSUME NEW b \in Samples, NEW c \in Samples, NEW d \in Directions
    PROVE  (Classify(d, b, c) = "REGRESSED") <=> (Classify(d, c, b) = "IMPROVED")
<1> DEFINE x == MeanChange(b, c)
           y == MeanChange(c, b)
           same == IF HasStatistics(b, c) THEN ~Significant(b, c) ELSE x = 0
           back == IF HasStatistics(c, b) THEN ~Significant(c, b) ELSE y = 0
<1>1. x \in Int /\ y \in Int /\ y = -x
    BY SwappedMeans
<1>2. same <=> back
    <2>1. HasStatistics(b, c) <=> HasStatistics(c, b)
        BY DEF HasStatistics
    <2>2. x = 0 <=> y = 0
        BY <1>1
    <2> HIDE DEF x, y
    <2> QED
        BY <2>1, <2>2, SwappedSignificance, Zenon
<1>3. ~same => x # 0
    BY EqualMeans
<1>4. /\ Classify(d, b, c) = "REGRESSED" <=> ~same /\ ~((x > 0) = (d = "HIGHER_IS_BETTER"))
      /\ Classify(d, c, b) = "IMPROVED" <=> ~back /\ (y > 0) = (d = "HIGHER_IS_BETTER")
    BY DEF Classify
<1>5. x # 0 => (y > 0 <=> ~(x > 0))
    BY <1>1
<1> HIDE DEF same, back, x, y
<1> QED
    BY <1>2, <1>3, <1>4, <1>5

(* Gates that tolerate a change: the required one decides. *)
Tolerances(d, percent) == {Tolerated(d, percent, TRUE), Tolerated(d, 0, FALSE)}

LEMMA GateFails ==
    ASSUME NEW b \in Samples, NEW c \in Samples, Size(b) > 0, Size(c) > 0, NEW d \in Directions, NEW p \in Int
    PROVE  Overall(Tolerances(d, p), b, c) = "FAIL" <=> ~DegradedAtMost(d, b, c, p)
<1> DEFINE g == Tolerated(d, p, TRUE)
           o == Tolerated(d, 0, FALSE)
<1>1. g.required /\ ~o.required
    BY DEF Tolerated, Gate
<1>2. GateStatus(g, b, c) = IF Passes(g, b, c) THEN "PASS" ELSE "FAIL"
    <2>1. Size(b) # 0 /\ Size(c) # 0
        BY Sums
    <2> HIDE DEF g
    <2> QED
        BY <2>1 DEF GateStatus
<1>3. Passes(g, b, c) <=> DegradedAtMost(d, b, c, p)
    <2>1. CASE d = "HIGHER_IS_BETTER"
        <3>1. g.operator = "GTE" /\ g.percent = -p
            BY <2>1 DEF Tolerated, Gate
        <3>2. DegradedAtMost(d, b, c, p) <=> RelativeAtLeast(b, c, -p)
            BY <2>1 DEF DegradedAtMost
        <3>3. Passes(g, b, c) <=> RelativeAtLeast(b, c, g.percent)
            <4> HIDE DEF g
            <4> QED
                BY <3>1 DEF Passes
        <3> HIDE DEF g
        <3> QED
            BY <3>1, <3>2, <3>3
    <2>2. CASE d = "LOWER_IS_BETTER"
        <3>1. g.operator = "LTE" /\ g.percent = p
            BY <2>2 DEF Tolerated, Gate
        <3>2. DegradedAtMost(d, b, c, p) <=> RelativeAtMost(b, c, p)
            BY <2>2 DEF DegradedAtMost
        <3>3. Passes(g, b, c) <=> RelativeAtMost(b, c, g.percent)
            <4> HIDE DEF g
            <4> QED
                BY <3>1 DEF Passes
        <3> HIDE DEF g
        <3> QED
            BY <3>1, <3>2, <3>3
    <2> QED
        BY <2>1, <2>2 DEF Directions
<1> HIDE DEF g, o
<1>4. {GateStatus(h, b, c) : h \in {x \in Tolerances(d, p) : x.required}} = {GateStatus(g, b, c)}
    BY <1>1 DEF Tolerances, g, o
<1>5. Overall(Tolerances(d, p), b, c) = "FAIL" <=> GateStatus(g, b, c) = "FAIL"
    BY <1>2, <1>4 DEF Overall
<1> QED
    BY <1>2, <1>3, <1>5

(* Both relative differences, as a product of integers. *)
Scales(b, c, x, k, l) ==
    /\ MeanChange(b, c) = x /\ MeanChange(c, b) = -x
    /\ Total(b) > 0 <=> k > 0
    /\ Total(c) > 0 <=> l > 0
    /\ \A p \in Int : p * Total(b) * Size(c) = p * k /\ p * Total(c) * Size(b) = p * l

LEMMA Scaled ==
    ASSUME NEW b \in Samples, NEW c \in Samples, Size(b) > 0, Size(c) > 0
    PROVE  \E x \in Int, k \in Int, l \in Int : Scales(b, c, x, k, l)
<1> DEFINE x == MeanChange(b, c)
           n == Size(b)
           m == Size(c)
           t == Total(b)
           u == Total(c)
<1>1. /\ x \in Int /\ MeanChange(c, b) = -x
      /\ n \in Nat /\ m \in Nat /\ n > 0 /\ m > 0 /\ t \in Int /\ u \in Int
    BY Sums, SwappedMeans
<1> HIDE DEF x, n, m, t, u
<1>2. t * m \in Int /\ u * n \in Int
    BY <1>1
<1>3. t > 0 <=> t * m > 0
    BY <1>1
<1>4. u > 0 <=> u * n > 0
    BY <1>1
<1>5. \A p \in Int : p * t * m = p * (t * m) /\ p * u * n = p * (u * n)
    BY <1>1
<1>6. Scales(b, c, x, t * m, u * n)
    BY <1>1, <1>3, <1>4, <1>5 DEF x, n, m, t, u, Scales
<1> QED
    BY <1>1, <1>2, <1>6

LEMMA ToleranceGrows ==
    ASSUME NEW b \in Samples, NEW c \in Samples, Size(b) > 0, Size(c) > 0, NEW d \in Directions,
           NEW p \in Nat, NEW r \in Nat, p <= r, DegradedAtMost(d, b, c, p)
    PROVE  DegradedAtMost(d, b, c, r)
<1>0. PICK x \in Int, k \in Int, l \in Int : Scales(b, c, x, k, l)
    BY Scaled
<1>1. /\ MeanChange(b, c) = x
      /\ Total(b) > 0 <=> k > 0
      /\ \A i \in Int : i * Total(b) * Size(c) = i * k
    BY <1>0 DEF Scales
<1>2. -p \in Int /\ -r \in Int /\ p \in Int /\ r \in Int
    OBVIOUS
<1>3. k > 0 => p * k <= r * k /\ (-r) * k <= (-p) * k
    BY <1>1
<1>4. CASE d = "HIGHER_IS_BETTER"
    <2>1. /\ IF k > 0 THEN 100 * x >= (-p) * k ELSE 0 >= -p
        BY <1>1, <1>2, <1>4 DEF DegradedAtMost, RelativeAtLeast
    <2>2. /\ IF k > 0 THEN 100 * x >= (-r) * k ELSE 0 >= -r
        BY <1>1, <1>3, <2>1
    <2> QED
        BY <1>1, <1>2, <1>4, <2>2 DEF DegradedAtMost, RelativeAtLeast
<1>5. CASE d = "LOWER_IS_BETTER"
    <2>1. /\ IF k > 0 THEN 100 * x <= p * k ELSE 0 <= p
        BY <1>1, <1>2, <1>5 DEF DegradedAtMost, RelativeAtMost
    <2>2. /\ IF k > 0 THEN 100 * x <= r * k ELSE 0 <= r
        BY <1>1, <1>3, <2>1
    <2> QED
        BY <1>1, <1>2, <1>5, <2>2 DEF DegradedAtMost, RelativeAtMost
<1> QED
    BY <1>4, <1>5 DEF Directions

(* A change of more than the tolerance goes one way. *)
LEMMA OneWay ==
    ASSUME NEW b \in Samples, NEW c \in Samples, Size(b) > 0, Size(c) > 0, NEW d \in Directions,
           NEW p \in Nat
    PROVE  DegradedAtMost(d, b, c, p) \/ DegradedAtMost(d, c, b, p)
<1>0. PICK x \in Int, k \in Int, l \in Int : Scales(b, c, x, k, l)
    BY Scaled
<1>1. /\ MeanChange(b, c) = x /\ MeanChange(c, b) = -x
      /\ Total(b) > 0 <=> k > 0
      /\ Total(c) > 0 <=> l > 0
      /\ \A i \in Int : i * Total(b) * Size(c) = i * k /\ i * Total(c) * Size(b) = i * l
    BY <1>0 DEF Scales
<1>2. -p \in Int /\ p \in Int
    OBVIOUS
<1>3. (k > 0 => p * k >= 0 /\ (-p) * k <= 0) /\ (l > 0 => p * l >= 0 /\ (-p) * l <= 0)
    BY <1>1
<1>4. /\ p * k \in Int /\ (-p) * k \in Int /\ p * l \in Int /\ (-p) * l \in Int
    BY <1>1
<1>5. CASE d = "HIGHER_IS_BETTER"
    <2>1. /\ (IF k > 0 THEN 100 * x >= (-p) * k ELSE 0 >= -p) => DegradedAtMost(d, b, c, p)
          /\ (IF l > 0 THEN 100 * (-x) >= (-p) * l ELSE 0 >= -p) => DegradedAtMost(d, c, b, p)
        BY <1>1, <1>2, <1>5 DEF DegradedAtMost, RelativeAtLeast
    <2>2. x >= 0 \/ -x >= 0
        OBVIOUS
    <2>3. /\ x >= 0 => 100 * x >= 0
          /\ -x >= 0 => 100 * (-x) >= 0
          /\ 100 * x \in Int /\ 100 * (-x) \in Int
        OBVIOUS
    <2> QED
        BY <1>3, <1>4, <2>1, <2>2, <2>3
<1>6. CASE d = "LOWER_IS_BETTER"
    <2>1. /\ (IF k > 0 THEN 100 * x <= p * k ELSE 0 <= p) => DegradedAtMost(d, b, c, p)
          /\ (IF l > 0 THEN 100 * (-x) <= p * l ELSE 0 <= p) => DegradedAtMost(d, c, b, p)
        BY <1>1, <1>2, <1>6 DEF DegradedAtMost, RelativeAtMost
    <2>2. x <= 0 \/ -x <= 0
        OBVIOUS
    <2>3. /\ x <= 0 => 100 * x <= 0
          /\ -x <= 0 => 100 * (-x) <= 0
          /\ 100 * x \in Int /\ 100 * (-x) \in Int
        OBVIOUS
    <2> QED
        BY <1>3, <1>4, <2>1, <2>2, <2>3
<1> QED
    BY <1>5, <1>6 DEF Directions

(* The verdicts of every pair of samples: a regression is an improvement with the
   sides swapped, no required gate fails both ways, and the severity agrees with
   the gates.  For any observed integers and any number of them. *)
THEOREM VerdictsFit == ComparisonSpec => []VerdictsAgree
<1>1. SamplesInv => VerdictsAgree
    <2> SUFFICES ASSUME SamplesInv, Size(baseline) > 0, Size(candidate) > 0, NEW d \in Directions
                 PROVE  /\ (Classify(d, baseline, candidate) = "REGRESSED")
                             = (Classify(d, candidate, baseline) = "IMPROVED")
                        /\ ~ /\ Overall(Tolerances(d, 2), baseline, candidate) = "FAIL"
                             /\ Overall(Tolerances(d, 2), candidate, baseline) = "FAIL"
                        /\ Classify(d, baseline, candidate) = "REGRESSED" =>
                             /\ (RegressionSeverity(d, baseline, candidate) = "NONE")
                                  = ~ (Overall(Tolerances(d, 2), baseline, candidate) = "FAIL")
                             /\ (RegressionSeverity(d, baseline, candidate) = "CRITICAL")
                                  = (Overall(Tolerances(d, 30), baseline, candidate) = "FAIL")
        BY DEF VerdictsAgree, Tolerances
    <2>1. baseline \in Samples /\ candidate \in Samples
        BY DEF SamplesInv
    <2>2. \A p \in {2, 30} :
              /\ Overall(Tolerances(d, p), baseline, candidate) = "FAIL" <=> ~DegradedAtMost(d, baseline, candidate, p)
              /\ Overall(Tolerances(d, p), candidate, baseline) = "FAIL" <=> ~DegradedAtMost(d, candidate, baseline, p)
        BY <2>1, GateFails
    <2>3. Classify(d, baseline, candidate) = "REGRESSED" <=> Classify(d, candidate, baseline) = "IMPROVED"
        BY <2>1, SwappedClasses
    <2>4. DegradedAtMost(d, baseline, candidate, 2) \/ DegradedAtMost(d, candidate, baseline, 2)
        BY <2>1, OneWay
    <2>5. /\ DegradedAtMost(d, baseline, candidate, 2) => DegradedAtMost(d, baseline, candidate, 30)
          /\ DegradedAtMost(d, baseline, candidate, 5) => DegradedAtMost(d, baseline, candidate, 30)
          /\ DegradedAtMost(d, baseline, candidate, 15) => DegradedAtMost(d, baseline, candidate, 30)
        BY <2>1, ToleranceGrows
    <2>6. ASSUME Classify(d, baseline, candidate) = "REGRESSED"
          PROVE  /\ RegressionSeverity(d, baseline, candidate) = "NONE" <=> DegradedAtMost(d, baseline, candidate, 2)
                 /\ RegressionSeverity(d, baseline, candidate) = "CRITICAL" <=> ~DegradedAtMost(d, baseline, candidate, 30)
        BY <2>5, <2>6 DEF RegressionSeverity
    <2> QED
        BY <2>2, <2>3, <2>4, <2>6
<1> QED
    BY <1>1, SamplesStay, PTL

-----------------------------------------------------------------------------
(* Graded cases: a row is an error without scores, or has the score of every
   enabled evaluator and the status they earn under the policy. *)
Sound(config, row) ==
    \/ row.status = "ERROR" /\ row.scores = <<>>
    \/ /\ row.status \in {"PASS", "FAIL"}
       /\ DOMAIN row.scores = Enabled(config)
       /\ \A i \in Enabled(config) : /\ row.scores[i].evaluator = config.evaluators[i].type
                                     /\ row.scores[i].score \in Int
       /\ row.status = "PASS" <=> PolicyPasses(config, row.scores)

GradingInv ==
    /\ runConfig \in RunConfigs /\ IsFiniteSet(DOMAIN outcomes)
    /\ \A c \in DOMAIN outcomes : Sound(runConfig, outcomes[c])

LEMMA RowsAreSound ==
    ASSUME NEW config, NEW reply \in Replies
    PROVE  Sound(config, Row(config, reply))
<1> DEFINE scores == [i \in Enabled(config) |-> Entry(config.evaluators[i], reply)]
<1>1. \A i \in Enabled(config) : /\ Entry(config.evaluators[i], reply).evaluator = config.evaluators[i].type
                                 /\ Entry(config.evaluators[i], reply).score \in Int
    BY GradingAssumption DEF Entry
<1>2. \A failure : Sound(config, ErrorRow(failure))
    BY DEF Sound, ErrorRow
<1>3. Sound(config, [status |-> "PASS", failure |-> "", scores |-> scores]) \/ ~PolicyPasses(config, scores)
    BY <1>1 DEF Sound
<1>4. Sound(config, [status |-> "FAIL", failure |-> "ASSERTION_FAILED", scores |-> scores])
      \/ PolicyPasses(config, scores)
    BY <1>1 DEF Sound
<1> QED
    BY <1>2, <1>3, <1>4 DEF Row

LEMMA GradingStays == GradingSpec => []GradingInv
<1>1. GradingInit => GradingInv
    <2>1. DOMAIN <<>> = {}
        OBVIOUS
    <2> QED
        BY <2>1, FS_EmptySet DEF GradingInit, GradingInv
<1>2. ASSUME GradingInv, [GradingNext]_gradingVars
      PROVE  GradingInv'
    <2>1. ASSUME NEW c, NEW row, Sound(runConfig, row), UNCHANGED runConfig,
                 outcomes' = [d \in DOMAIN outcomes \union {c} |-> IF d = c THEN row ELSE outcomes[d]]
          PROVE  GradingInv'
        <3>1. DOMAIN outcomes' = DOMAIN outcomes \union {c} /\ IsFiniteSet(DOMAIN outcomes')
            BY <1>2, <2>1, FS_AddElement DEF GradingInv
        <3>2. \A d \in DOMAIN outcomes' : outcomes'[d] = IF d = c THEN row ELSE outcomes[d]
            BY <2>1
        <3> QED
            BY <1>2, <2>1, <3>1, <3>2 DEF GradingInv
    <2>2. ASSUME NEW c \in GradedCases, GradeReply(c)
          PROVE  GradingInv'
        <3>1. PICK reply \in Replies :
                  IF Raises(runConfig, reply) THEN UNCHANGED outcomes
                  ELSE outcomes' = [d \in DOMAIN outcomes \union {c} |->
                                        IF d = c THEN Row(runConfig, reply) ELSE outcomes[d]]
            BY <2>2 DEF GradeReply
        <3>2. UNCHANGED runConfig
            BY <2>2 DEF GradeReply
        <3>3. CASE UNCHANGED outcomes
            BY <1>2, <3>2, <3>3 DEF GradingInv
        <3> QED
            BY <2>1, <3>1, <3>2, <3>3, RowsAreSound
    <2>3. ASSUME NEW c \in GradedCases, ProviderFails(c)
          PROVE  GradingInv'
        <3>1. PICK failure \in {"TIMEOUT", "PROVIDER_ERROR"} :
                  outcomes' = [d \in DOMAIN outcomes \union {c} |->
                                   IF d = c THEN ErrorRow(failure) ELSE outcomes[d]]
            BY <2>3 DEF ProviderFails
        <3>2. UNCHANGED runConfig
            BY <2>3 DEF ProviderFails
        <3>3. Sound(runConfig, ErrorRow(failure))
            BY DEF Sound, ErrorRow
        <3> QED
            BY <2>1, <3>1, <3>2, <3>3
    <2>4. CASE UNCHANGED gradingVars
        BY <1>2, <2>4 DEF GradingInv, gradingVars
    <2> QED
        BY <1>2, <2>2, <2>3, <2>4 DEF GradingNext
<1> QED
    BY <1>1, <1>2, PTL DEF GradingSpec

(* Counting pairs of a case and an evaluator. *)
LEMMA StatusesPartition ==
    ASSUME GradingInv
    PROVE  /\ IsFiniteSet(RowsWith("PASS"))
           /\ RunMetrics.passed + RunMetrics.failed + RunMetrics.errors = RunMetrics.total
           /\ IsFiniteSet({c \in DOMAIN outcomes : WasGraded(c)})
           /\ Cardinality({c \in DOMAIN outcomes : WasGraded(c)}) = RunMetrics.total - RunMetrics.errors
           /\ RunMetrics.passed \in Nat /\ RunMetrics.total \in Nat /\ RunMetrics.errors \in Nat
<1> DEFINE D == DOMAIN outcomes
           P == RowsWith("PASS")
           F == RowsWith("FAIL")
           X == RowsWith("ERROR")
           G == {c \in DOMAIN outcomes : WasGraded(c)}
<1>1. IsFiniteSet(D) /\ \A c \in D : outcomes[c].status \in {"PASS", "FAIL", "ERROR"}
    BY DEF GradingInv, Sound
<1>2. P \subseteq D /\ F \subseteq D /\ X \subseteq D /\ G = D \ X /\ G = P \union F /\ P \intersect F = {}
    BY <1>1 DEF RowsWith, WasGraded
<1>3. /\ RunMetrics.total = Cardinality(D) /\ RunMetrics.passed = Cardinality(P)
      /\ RunMetrics.failed = Cardinality(F) /\ RunMetrics.errors = Cardinality(X)
    BY DEF RunMetrics
<1> HIDE DEF D, P, F, X, G
<1>4. /\ IsFiniteSet(P) /\ IsFiniteSet(F) /\ IsFiniteSet(X) /\ IsFiniteSet(G)
    BY <1>1, <1>2, FS_Subset
<1>5. /\ Cardinality(D) \in Nat /\ Cardinality(P) \in Nat /\ Cardinality(F) \in Nat
      /\ Cardinality(X) \in Nat /\ Cardinality(G) \in Nat
    BY <1>1, <1>4, FS_CardinalityType
<1>6. Cardinality(G) = Cardinality(P) + Cardinality(F)
    <2>1. Cardinality(P \union F) = Cardinality(P) + Cardinality(F) - Cardinality(P \intersect F)
        BY <1>4, FS_Union
    <2>2. Cardinality(P \intersect F) = 0
        BY <1>2, FS_EmptySet
    <2>3. Cardinality(G) = Cardinality(P \union F)
        BY <1>2
    <2> QED
        BY <1>5, <2>1, <2>2, <2>3
<1>7. Cardinality(G) = Cardinality(D) - Cardinality(X)
    <2>1. D \intersect X = X
        BY <1>2
    <2> QED
        BY <1>1, <1>2, <2>1, FS_Difference
<1> QED
    BY <1>3, <1>4, <1>5, <1>6, <1>7 DEF P, G

Positions(name) == {i \in Enabled(runConfig) : runConfig.evaluators[i].type = name}

LEMMA PositionsCounted ==
    ASSUME GradingInv, NEW name
    PROVE  IsFiniteSet(Positions(name)) /\ Cardinality(Positions(name)) \in Nat
<1>1. IsFiniteSet(DOMAIN runConfig.evaluators)
    BY GradingAssumption DEF GradingInv
<1>2. Positions(name) \subseteq DOMAIN runConfig.evaluators
    BY DEF Positions, Enabled
<1> QED
    BY <1>1, <1>2, FS_Subset, FS_CardinalityType

LEMMA EntriesCounted ==
    ASSUME GradingInv, NEW name
    PROVE  /\ EntriesOf(name) = {c \in DOMAIN outcomes : WasGraded(c)} \X Positions(name)
           /\ EvaluatorMetrics(name).count = Cardinality(Positions(name)) * (RunMetrics.total - RunMetrics.errors)
<1> DEFINE G == {c \in DOMAIN outcomes : WasGraded(c)}
           I == Positions(name)
<1>1. ASSUME NEW c \in DOMAIN outcomes, NEW i \in Enabled(runConfig)
      PROVE  i \in DOMAIN outcomes[c].scores /\ outcomes[c].scores[i].evaluator = name <=> c \in G /\ i \in I
    <2>1. Sound(runConfig, outcomes[c])
        BY DEF GradingInv
    <2>2. CASE outcomes[c].status = "ERROR"
        <3>1. outcomes[c].scores = <<>>
            BY <2>1, <2>2 DEF Sound
        <3>2. i \notin DOMAIN outcomes[c].scores
            BY <3>1
        <3> QED
            BY <2>2, <3>2 DEF WasGraded
    <2>3. CASE outcomes[c].status # "ERROR"
        <3>1. DOMAIN outcomes[c].scores = Enabled(runConfig)
              /\ outcomes[c].scores[i].evaluator = runConfig.evaluators[i].type
            BY <2>1, <2>3 DEF Sound
        <3> QED
            BY <2>3, <3>1 DEF WasGraded, Positions
    <2> QED
        BY <2>2, <2>3
<1>2. EntriesOf(name) = G \X I
    <2>1. G \subseteq DOMAIN outcomes /\ I \subseteq Enabled(runConfig)
        BY DEF Positions
    <2> HIDE DEF G, I
    <2> QED
        BY <1>1, <2>1 DEF EntriesOf
<1>3. Cardinality(G \X I) = Cardinality(G) * Cardinality(I)
    <2>1. IsFiniteSet(G) /\ IsFiniteSet(I)
        BY StatusesPartition, PositionsCounted
    <2> HIDE DEF G, I
    <2> QED
        BY <2>1, FS_Product
<1>4. EvaluatorMetrics(name).count = Cardinality(EntriesOf(name))
    BY DEF EvaluatorMetrics
<1>5. /\ Cardinality(G) = RunMetrics.total - RunMetrics.errors /\ Cardinality(I) \in Nat
      /\ RunMetrics.total \in Nat /\ RunMetrics.errors \in Nat
    BY StatusesPartition, PositionsCounted
<1> DEFINE n == Cardinality(I)
           m == RunMetrics.total - RunMetrics.errors
<1>6. EvaluatorMetrics(name).count = m * n /\ n \in Nat /\ m \in Int
    BY <1>2, <1>3, <1>4, <1>5
<1>7. EvaluatorMetrics(name).count = n * m
    <2> HIDE DEF n, m
    <2> QED
        BY <1>6
<1> QED
    BY <1>2, <1>7

LEMMA PassesCounted ==
    ASSUME GradingInv, NEW name
    PROVE  /\ runConfig.policy = "ALL" =>
                Cardinality(Positions(name)) * RunMetrics.passed <= EvaluatorMetrics(name).passed
           /\ runConfig.policy = "ANY" =>
                EvaluatorMetrics(name).passed <= Cardinality(Positions(name)) * RunMetrics.passed
<1> DEFINE G == {c \in DOMAIN outcomes : WasGraded(c)}
           P == RowsWith("PASS")
           I == Positions(name)
           E == {p \in EntriesOf(name) : outcomes[p[1]].scores[p[2]].passed}
<1>1. EvaluatorMetrics(name).passed = Cardinality(E)
    BY DEF EvaluatorMetrics
<1>2. /\ RunMetrics.passed = Cardinality(P) /\ Cardinality(P) \in Nat /\ Cardinality(I) \in Nat
      /\ IsFiniteSet(P) /\ IsFiniteSet(I) /\ IsFiniteSet(G)
    BY StatusesPartition, PositionsCounted DEF RunMetrics
<1>3. P \subseteq G /\ I \subseteq Enabled(runConfig) /\ G \subseteq DOMAIN outcomes
    BY DEF RowsWith, WasGraded, Positions
<1>4. \A c \in G : /\ DOMAIN outcomes[c].scores = Enabled(runConfig)
                   /\ c \in P <=> PolicyPasses(runConfig, outcomes[c].scores)
    BY DEF GradingInv, Sound, WasGraded, RowsWith
<1>5. \A p : p \in E <=> p \in G \X I /\ outcomes[p[1]].scores[p[2]].passed
    BY EntriesCounted
<1> HIDE DEF G, P, I, E
<1>6. /\ IsFiniteSet(P \X I) /\ Cardinality(P \X I) = Cardinality(P) * Cardinality(I)
      /\ IsFiniteSet(E) /\ Cardinality(E) \in Nat
    <2>1. E \subseteq G \X I /\ IsFiniteSet(G \X I)
        BY <1>2, <1>5, FS_Product
    <2> QED
        BY <1>2, <2>1, FS_Product, FS_Subset, FS_CardinalityType
<1>7. Cardinality(P \X I) = Cardinality(I) * RunMetrics.passed
    <2> DEFINE m == Cardinality(P)
               n == Cardinality(I)
    <2>1. Cardinality(P \X I) = m * n /\ m \in Nat /\ n \in Nat /\ RunMetrics.passed = m
        BY <1>2, <1>6
    <2> HIDE DEF m, n
    <2>2. m * n = n * m
        BY <2>1
    <2> QED
        BY <2>1, <2>2 DEF n
<1>8. ASSUME runConfig.policy = "ALL"
      PROVE  P \X I \subseteq E
    <2>1. \A c \in G : PolicyPasses(runConfig, outcomes[c].scores) =>
              \A i \in DOMAIN outcomes[c].scores : outcomes[c].scores[i].passed
        BY <1>8 DEF PolicyPasses
    <2>2. \A c \in P, i \in I : outcomes[c].scores[i].passed
        BY <1>3, <1>4, <2>1
    <2> QED
        BY <1>3, <1>5, <2>2
<1>9. ASSUME runConfig.policy = "ANY"
      PROVE  E \subseteq P \X I
    <2>1. \A c \in G : (\E i \in DOMAIN outcomes[c].scores : outcomes[c].scores[i].passed)
              => PolicyPasses(runConfig, outcomes[c].scores)
        BY <1>9 DEF PolicyPasses
    <2>2. \A c \in G, i \in I : outcomes[c].scores[i].passed => c \in P
        BY <1>3, <1>4, <2>1
    <2> QED
        BY <1>5, <2>2
<1>10. runConfig.policy = "ALL" => Cardinality(P \X I) <= Cardinality(E)
    BY <1>6, <1>8, FS_Subset
<1>11. runConfig.policy = "ANY" => Cardinality(E) <= Cardinality(P \X I)
    BY <1>6, <1>9, FS_Subset
<1> QED
    BY <1>1, <1>7, <1>10, <1>11 DEF I

(* The weighted mean: the evaluators with a weight decide when they are of one mind. *)
LEMMA WeightedMean ==
    ASSUME NEW config \in RunConfigs, NEW scores, DOMAIN scores = Enabled(config),
           \A i \in Enabled(config) : scores[i].score \in Int,
           NEW k \in Enabled(config), config.evaluators[k].weight # 0
    PROVE  /\ (\A i \in Enabled(config) : config.evaluators[i].weight # 0 => scores[i].score = 100)
                => ReachesThreshold(config, scores)
           /\ (\A i \in Enabled(config) : config.evaluators[i].weight # 0 => scores[i].score = 0)
              /\ config.threshold # 0 => ~ReachesThreshold(config, scores)
<1> DEFINE S == Enabled(config)
           t == IF config.threshold = Omitted THEN 50 ELSE config.threshold
           weights == [i \in S |-> WeightAt(config, i)]
           total == FoldFunction(+, 0, weights)
           terms == [i \in S |-> (scores[i].score - t) * weights[i]]
           loss == [i \in S |-> t * weights[i]]
           sum == FoldFunction(+, 0, terms)
           deficit == FoldFunction(+, 0, loss)
<1>1. IsFiniteSet(S)
    <2>1. IsFiniteSet(DOMAIN config.evaluators) /\ S \subseteq DOMAIN config.evaluators
        BY GradingAssumption DEF Enabled
    <2> HIDE DEF S
    <2> QED
        BY <2>1, FS_Subset
<1>2. t \in 0 .. 100 /\ (config.threshold # 0 => t > 0)
    BY GradingAssumption DEF Omitted
<1>3. \A i \in S : /\ weights[i] \in Nat
                   /\ config.evaluators[i].weight # 0 => weights[i] > 0
                   /\ config.evaluators[i].weight = 0 => weights[i] = 0
    BY GradingAssumption DEF WeightAt, Weights, Enabled, Omitted
<1>4. weights \in [S -> Nat]
    BY <1>3
<1>5. total > 0
    <2>1. k \in S /\ weights[k] > 0
        BY <1>3
    <2> HIDE DEF weights, S
    <2> QED
        BY <1>1, <1>4, <2>1, SumPositive
<1>6. ReachesThreshold(config, scores) <=> sum >= 0
    <2> DEFINE used == [i \in DOMAIN scores |->
                            (scores[i].score - t) * (IF total > 0 THEN WeightAt(config, i) ELSE 1)]
    <2>1. [i \in DOMAIN scores |-> WeightAt(config, i)] = weights
        OBVIOUS
    <2>2. ReachesThreshold(config, scores) <=> FoldFunction(+, 0, used) >= 0
        BY <2>1 DEF ReachesThreshold
    <2>3. used = terms
        BY <1>5
    <2> QED
        BY <2>2, <2>3
<1>7. \A i \in S : scores[i].score \in Int /\ terms[i] = (scores[i].score - t) * weights[i]
                   /\ loss[i] = t * weights[i]
    OBVIOUS
<1>8. S = DOMAIN terms /\ terms = [i \in S |-> terms[i]] /\ loss = [i \in S |-> loss[i]]
    OBVIOUS
<1>9. k \in S
    OBVIOUS
<1> HIDE DEF t, weights, total, terms, loss, sum, deficit
<1>10. ASSUME \A i \in S : config.evaluators[i].weight # 0 => scores[i].score = 100
       PROVE  ReachesThreshold(config, scores)
    <2>1. \A i \in S : terms[i] \in Nat
        <3> SUFFICES ASSUME NEW i \in S
                     PROVE  terms[i] \in Nat
            OBVIOUS
        <3>1. CASE config.evaluators[i].weight = 0
            <4>1. weights[i] = 0 /\ scores[i].score - t \in Int
                BY <1>2, <1>3, <1>7, <3>1
            <4> QED
                BY <1>7, <4>1
        <3>2. CASE config.evaluators[i].weight # 0
            <4>1. terms[i] = (100 - t) * weights[i] /\ 100 - t \in Nat /\ weights[i] \in Nat
                BY <1>2, <1>3, <1>7, <1>10, <3>2
            <4> QED
                BY <4>1
        <3> QED
            BY <3>1, <3>2
    <2>2. terms \in [S -> Nat] /\ 0 \in Nat /\ \A a, b \in Nat : a + b \in Nat
        BY <1>8, <2>1
    <2>3. sum \in Nat
        <3> HIDE DEF S
        <3> QED
            BY <1>1, <2>2, SumIn DEF sum
    <2> QED
        BY <1>6, <2>3
<1>11. ASSUME \A i \in S : config.evaluators[i].weight # 0 => scores[i].score = 0, config.threshold # 0
       PROVE  ~ReachesThreshold(config, scores)
    <2>1. \A i \in S : loss[i] \in Nat /\ loss[i] \in Int
        BY <1>2, <1>3, <1>7
    <2>2. loss[k] > 0
        <3>1. t \in Int /\ t > 0 /\ weights[k] \in Int /\ weights[k] > 0 /\ loss[k] = t * weights[k]
            BY <1>2, <1>3, <1>7, <1>9, <1>11
        <3> QED
            BY <3>1
    <2>3. \A i \in S : terms[i] \in Int /\ terms[i] = (-1) * loss[i] + 0 * loss[i] + 0 * loss[i]
        <3> SUFFICES ASSUME NEW i \in S
                     PROVE  terms[i] \in Int /\ terms[i] = (-1) * loss[i] + 0 * loss[i] + 0 * loss[i]
            OBVIOUS
        <3>1. terms[i] = - loss[i]
            <4>1. CASE config.evaluators[i].weight = 0
                <5>1. weights[i] = 0 /\ scores[i].score - t \in Int /\ t \in Int
                    BY <1>2, <1>3, <1>7, <4>1
                <5> QED
                    BY <1>7, <5>1
            <4>2. CASE config.evaluators[i].weight # 0
                <5>1. terms[i] = (0 - t) * weights[i] /\ loss[i] = t * weights[i] /\ t \in Int /\ weights[i] \in Int
                    BY <1>2, <1>3, <1>7, <1>11, <4>2
                <5> QED
                    BY <5>1
            <4> QED
                BY <4>1, <4>2
        <3> QED
            BY <2>1, <3>1
    <2>4. loss \in [S -> Nat] /\ loss \in [S -> Int] /\ terms \in [S -> Int]
        BY <1>8, <2>1, <2>3
    <2>5. Combines(S, terms, -1, loss, 0, loss, 0, loss)
        <3> HIDE DEF S
        <3>1. -1 \in Int /\ 0 \in Int
            OBVIOUS
        <3> QED
            BY <2>3, <2>4, <3>1 DEF Combines
    <2>6. SumIs(terms, -1, loss, 0, loss, 0, loss)
        <3> HIDE DEF S
        <3> QED
            BY <1>1, <2>5, SumCombines
    <2>7. deficit \in Nat
        <3>1. 0 \in Nat /\ \A a, b \in Nat : a + b \in Nat
            OBVIOUS
        <3> HIDE DEF S
        <3> QED
            BY <1>1, <2>4, <3>1, SumIn DEF deficit
    <2>8. deficit > 0
        <3> HIDE DEF S
        <3> QED
            BY <1>1, <1>9, <2>2, <2>4, SumPositive DEF deficit
    <2>9. sum = (-1) * deficit + 0 * deficit + 0 * deficit
        BY <2>6 DEF SumIs, sum, deficit
    <2> QED
        BY <1>6, <2>7, <2>8, <2>9
<1> QED
    BY <1>10, <1>11

(* The figures of a run and of its evaluators are about the same cases, for any
   evaluators, weights, thresholds, policies, cases and replies. *)
THEOREM GradesFit == GradingSpec => []GradesAddUp
<1>1. GradingInv => GradesAddUp
    <2> SUFFICES ASSUME GradingInv
                 PROVE  GradesAddUp
        OBVIOUS
    <2>1. RunMetrics.passed + RunMetrics.failed + RunMetrics.errors = RunMetrics.total
        BY StatusesPartition
    <2>2. \A name \in Registered :
              LET m == EvaluatorMetrics(name)
                  n == Cardinality(Positions(name))
              IN /\ m.count = n * (RunMetrics.total - RunMetrics.errors)
                 /\ runConfig.policy = "ALL" => n * RunMetrics.passed <= m.passed
                 /\ runConfig.policy = "ANY" => m.passed <= n * RunMetrics.passed
        BY EntriesCounted, PassesCounted
    <2>3. ASSUME runConfig.policy = "WEIGHTED", NEW k \in Influential,
                 NEW c \in {d \in DOMAIN outcomes : WasGraded(d)}
          PROVE  /\ (\A i \in Influential : outcomes[c].scores[i].score = 100) => outcomes[c].status = "PASS"
                 /\ (\A i \in Influential : outcomes[c].scores[i].score = 0) /\ runConfig.threshold # 0
                       => outcomes[c].status = "FAIL"
        <3> DEFINE scores == outcomes[c].scores
        <3>1. /\ outcomes[c].status \in {"PASS", "FAIL"}
              /\ DOMAIN scores = Enabled(runConfig)
              /\ \A i \in Enabled(runConfig) : scores[i].score \in Int
              /\ outcomes[c].status = "PASS" <=> PolicyPasses(runConfig, scores)
            BY DEF GradingInv, Sound, WasGraded
        <3>2. PolicyPasses(runConfig, scores) <=> ReachesThreshold(runConfig, scores)
            BY <2>3 DEF PolicyPasses
        <3>3. runConfig \in RunConfigs
            BY DEF GradingInv
        <3>4. /\ k \in Enabled(runConfig) /\ runConfig.evaluators[k].weight # 0
              /\ \A i : i \in Influential <=> i \in Enabled(runConfig) /\ runConfig.evaluators[i].weight # 0
            BY DEF Influential
        <3> HIDE DEF scores
        <3>5. /\ (\A i \in Enabled(runConfig) : runConfig.evaluators[i].weight # 0 => scores[i].score = 100)
                   => ReachesThreshold(runConfig, scores)
              /\ (\A i \in Enabled(runConfig) : runConfig.evaluators[i].weight # 0 => scores[i].score = 0)
                 /\ runConfig.threshold # 0 => ~ReachesThreshold(runConfig, scores)
            BY <3>1, <3>3, <3>4, WeightedMean
        <3> QED
            BY <3>1, <3>2, <3>4, <3>5 DEF scores
    <2> QED
        BY <2>1, <2>2, <2>3 DEF GradesAddUp, Positions
<1> QED
    BY <1>1, GradingStays, PTL

-----------------------------------------------------------------------------
(* Loops: the calls of a trajectory, prefix by prefix. *)
NextCalls(steps, n, calls) == IF IsCall(steps[n]) THEN Append(calls, steps[n]) ELSE calls
CallsUpTo(f, steps, m) ==
    f = [n \in 0 .. m |-> IF n = 0 THEN <<>> ELSE NextCalls(steps, n, f[n - 1])]

LEMMA CallsUnfold ==
    ASSUME NEW steps
    PROVE  CallsOf(steps) = (CHOOSE f : CallsUpTo(f, steps, Len(steps)))[Len(steps)]
BY DEF CallsOf, CallsUpTo, NextCalls

LEMMA CallsExist ==
    ASSUME NEW steps, NEW k \in Nat
    PROVE  \E f : CallsUpTo(f, steps, k)
<1> DEFINE T == {n \in Nat : ~ \E f : CallsUpTo(f, steps, n)}
<1>1. T = {}
    <2> SUFFICES ASSUME T # {}
                 PROVE  FALSE
        OBVIOUS
    <2>1. PICK m \in T : \A l \in T : m <= l
        <3>1. T \subseteq Nat
            OBVIOUS
        <3> HIDE DEF T
        <3> QED
            BY <3>1, LeastNumber
    <2>2. m # 0
        <3>1. CallsUpTo([n \in 0 .. 0 |-> <<>>], steps, 0)
            BY DEF CallsUpTo
        <3> QED
            BY <2>1, <3>1
    <2>3. m \in Nat /\ m - 1 \in Nat
        BY <2>1, <2>2
    <2>4. PICK f : CallsUpTo(f, steps, m - 1)
        BY <2>1, <2>3
    <2> DEFINE h == [n \in 0 .. m |-> IF n = 0 THEN <<>> ELSE NextCalls(steps, n, f[n - 1])]
    <2>5. \A n \in 0 .. m - 1 : h[n] = f[n]
        BY <2>3, <2>4 DEF CallsUpTo
    <2>6. CallsUpTo(h, steps, m)
        <3>1. h = [n \in 0 .. m |-> IF n = 0 THEN <<>> ELSE NextCalls(steps, n, f[n - 1])]
            OBVIOUS
        <3> HIDE DEF h
        <3>2. \A n \in 0 .. m : n # 0 => n - 1 \in 0 .. m - 1
            BY <2>3
        <3>3. \A n \in 0 .. m : n # 0 => h[n - 1] = f[n - 1]
            BY <2>5, <3>2
        <3>4. h = [n \in 0 .. m |-> IF n = 0 THEN <<>> ELSE NextCalls(steps, n, h[n - 1])]
            BY <3>1, <3>3
        <3> QED
            BY <3>4 DEF CallsUpTo
    <2> QED
        BY <2>1, <2>6
<1> QED
    BY <1>1

(* A longer trajectory has the same calls up to where it was. *)
LEMMA CallsOfPrefix ==
    ASSUME NEW s, NEW r, NEW m \in Nat, NEW k \in Nat, m <= k, \A n \in 1 .. m : r[n] = s[n],
           NEW f, CallsUpTo(f, s, m), NEW g, CallsUpTo(g, r, k)
    PROVE  \A n \in 0 .. m : f[n] = g[n]
<1> DEFINE T == {n \in Nat : n <= m /\ f[n] # g[n]}
<1>1. T = {}
    <2> SUFFICES ASSUME T # {}
                 PROVE  FALSE
        OBVIOUS
    <2>1. PICK l \in T : \A o \in T : l <= o
        <3>1. T \subseteq Nat
            OBVIOUS
        <3> HIDE DEF T
        <3> QED
            BY <3>1, LeastNumber
    <2>2. l \in 0 .. m /\ l \in 0 .. k /\ f[l] # g[l]
        BY <2>1
    <2>3. /\ f[l] = IF l = 0 THEN <<>> ELSE NextCalls(s, l, f[l - 1])
          /\ g[l] = IF l = 0 THEN <<>> ELSE NextCalls(r, l, g[l - 1])
        BY <2>2 DEF CallsUpTo
    <2>4. l # 0
        BY <2>2, <2>3
    <2>5. l - 1 \in Nat /\ l - 1 <= m /\ l - 1 < l /\ r[l] = s[l]
        BY <2>2, <2>4
    <2>6. f[l - 1] = g[l - 1]
        <3>1. l - 1 \notin T
            <4> HIDE DEF T
            <4> QED
                BY <2>1, <2>2, <2>5
        <3> QED
            BY <2>5, <3>1
    <2> QED
        BY <2>2, <2>3, <2>4, <2>5, <2>6 DEF NextCalls
<1> QED
    BY <1>1

LEMMA CallsGrow ==
    ASSUME NEW s \in Seq(StepKinds), NEW x \in StepKinds
    PROVE  CallsOf(Append(s, x)) = IF IsCall(x) THEN Append(CallsOf(s), x) ELSE CallsOf(s)
<1> DEFINE k == Len(s)
           r == Append(s, x)
           f == CHOOSE f : CallsUpTo(f, s, k)
           g == CHOOSE g : CallsUpTo(g, r, k + 1)
<1>1. k \in Nat /\ Len(r) = k + 1 /\ r[k + 1] = x /\ \A n \in 1 .. k : r[n] = s[n]
    OBVIOUS
<1>2. CallsOf(s) = f[k] /\ CallsOf(r) = g[k + 1]
    BY <1>1, CallsUnfold
<1> HIDE DEF r, k
<1>3. CallsUpTo(f, s, k) /\ CallsUpTo(g, r, k + 1)
    <2>1. k + 1 \in Nat
        BY <1>1
    <2>2. (\E h : CallsUpTo(h, s, k)) /\ \E h : CallsUpTo(h, r, k + 1)
        BY <1>1, <2>1, CallsExist
    <2> QED
        BY <2>2
<1> HIDE DEF f, g
<1>4. f[k] = g[k]
    BY <1>1, <1>3, CallsOfPrefix, SMTT(30)
<1>5. g[k + 1] = NextCalls(r, k + 1, g[k])
    BY <1>1, <1>3 DEF CallsUpTo
<1> QED
    BY <1>1, <1>2, <1>4, <1>5 DEF NextCalls, r

LEMMA CallsType ==
    ASSUME NEW s \in Seq(StepKinds)
    PROVE  CallsOf(s) \in Seq(StepKinds)
<1> DEFINE k == Len(s)
           f == CHOOSE f : CallsUpTo(f, s, k)
           T == {n \in Nat : n <= k /\ f[n] \notin Seq(StepKinds)}
<1>1. k \in Nat /\ CallsOf(s) = f[k]
    BY CallsUnfold
<1>2. CallsUpTo(f, s, k)
    <2>1. \E g : CallsUpTo(g, s, k)
        BY <1>1, CallsExist
    <2> QED
        BY <2>1
<1> HIDE DEF f
<1>3. T = {}
    <2> SUFFICES ASSUME T # {}
                 PROVE  FALSE
        OBVIOUS
    <2>1. PICK m \in T : \A l \in T : m <= l
        <3>1. T \subseteq Nat
            OBVIOUS
        <3> HIDE DEF T
        <3> QED
            BY <3>1, LeastNumber
    <2>2. m \in 0 .. k /\ f[m] \notin Seq(StepKinds)
        BY <2>1
    <2>3. f[m] = IF m = 0 THEN <<>> ELSE NextCalls(s, m, f[m - 1])
        BY <2>2, <1>2 DEF CallsUpTo
    <2>4. m # 0
        BY <2>2, <2>3
    <2>5. m - 1 \in Nat /\ m - 1 <= k /\ m - 1 < m /\ s[m] \in StepKinds
        BY <1>1, <2>2, <2>4
    <2>6. f[m - 1] \in Seq(StepKinds)
        <3>1. m - 1 \notin T
            <4> HIDE DEF T
            <4> QED
                BY <2>1, <2>2, <2>5
        <3> QED
            BY <2>5, <3>1
    <2> QED
        BY <2>2, <2>3, <2>4, <2>5, <2>6 DEF NextCalls
<1> QED
    BY <1>1, <1>3

(* A repetition of calls stays where it was, and so does a cycle unless it is a
   twofold one and more than eight calls were made. *)
LEMMA LoopsStay ==
    ASSUME NEW s \in Seq(StepKinds), NEW x \in StepKinds,
           Detect(s), ~Detect(Append(s, x))
    PROVE  Len(CallsOf(s)) = 8 /\ ~Repeated(CallsOf(s))
<1> DEFINE c == CallsOf(s)
           d == CallsOf(Append(s, x))
<1>1. c \in Seq(StepKinds) /\ d = IF IsCall(x) THEN Append(c, x) ELSE c
    BY CallsGrow, CallsType
<1>2. /\ Len(c) >= 3 /\ (Repeated(c) \/ Cyclic(c))
      /\ ~(Len(d) >= 3 /\ (Repeated(d) \/ Cyclic(d)))
    BY DEF Detect
<1> HIDE DEF c, d
<1>3. /\ Len(c) \in Nat /\ Len(d) = Len(c) + 1
      /\ \A i \in 1 .. Len(c) : d[i] = c[i]
    BY <1>1, <1>2
<1>4. ~Repeated(c)
    <2> SUFFICES ASSUME Repeated(c)
                 PROVE  FALSE
        OBVIOUS
    <2>1. PICK i \in 1 .. Len(c) - 2 : c[i] = c[i + 1] /\ c[i] = c[i + 2]
        BY DEF Repeated
    <2>2. i \in 1 .. Len(c) /\ i + 1 \in 1 .. Len(c) /\ i + 2 \in 1 .. Len(c) /\ i \in 1 .. Len(d) - 2
        BY <1>3, <2>1
    <2>3. d[i] = d[i + 1] /\ d[i] = d[i + 2]
        BY <1>3, <2>1, <2>2
    <2>4. Repeated(d)
        BY <2>2, <2>3 DEF Repeated
    <2> QED
        BY <1>2, <1>3, <2>4
<1>5. PICK len \in {2, 3}, times \in {2, 3} : \E start \in 0 .. Len(c) - len * times :
          /\ times = 3 \/ Len(c) <= 8
          /\ \A i \in 1 .. len * (times - 1) : c[start + i].tool = c[start + len + i].tool
    BY <1>2, <1>4 DEF Cyclic
<1>6. PICK start \in 0 .. Len(c) - len * times :
          /\ times = 3 \/ Len(c) <= 8
          /\ \A i \in 1 .. len * (times - 1) : c[start + i].tool = c[start + len + i].tool
    BY <1>5
<1>7. ASSUME NEW i \in 1 .. len * (times - 1)
      PROVE  d[start + i].tool = d[start + len + i].tool
    <2>1. start + i \in 1 .. Len(c) /\ start + len + i \in 1 .. Len(c)
        <3>1. len * times = len + len * (times - 1) /\ len \in Nat /\ times \in Nat /\ len * (times - 1) \in Nat
            BY <1>5
        <3> QED
            BY <1>3, <1>6, <3>1
    <2> QED
        BY <1>3, <1>6, <2>1
<1>8. start \in 0 .. Len(d) - len * times
    <2>1. len * times \in Nat
        BY <1>5
    <2> QED
        BY <1>3, <1>6, <2>1
<1>9. ~(times = 3 \/ Len(d) <= 8)
    <2>1. times = 3 \/ Len(d) <= 8 => Cyclic(d)
        BY <1>5, <1>7, <1>8 DEF Cyclic
    <2> QED
        BY <1>2, <1>3, <2>1
<1>10. Len(c) = 8
    <2> DEFINE a == Len(c)
               b == Len(d)
    <2>1. a <= 8 /\ ~(b <= 8)
        BY <1>6, <1>9
    <2>2. a \in Nat /\ b = a + 1
        BY <1>3
    <2>3. b <= 8 \/ b > 8
        BY <2>2
    <2>4. a = 8
        <3> HIDE DEF a, b
        <3> QED
            BY <2>1, <2>2, <2>3
    <2> QED
        BY <2>4
<1> QED
    BY <1>4, <1>10 DEF c

(* A loop once found is found for the rest of the trajectory, whatever the agent
   does next and however long it is; only twofold cycles are forgotten. *)
THEOREM LoopsAreKept == AgentSpec => LoopsStayFound
<1> DEFINE Typed == trajectory \in Seq(StepKinds)
<1>1. AgentInit => Typed
    BY DEF AgentInit
<1>2. ASSUME Typed, [AgentNext]_agentVars
      PROVE  UNCHANGED trajectory \/ \E x \in StepKinds : trajectory' = Append(trajectory, x)
    BY <1>2 DEF AgentNext, agentVars, LoadAgent, StoreAgent, RefuseAgent, DeleteTarget, Update, StartAgentRun, EvaluateRun, CreateTool,
                AddTrajectoryStep
<1>3. Typed /\ [AgentNext]_agentVars => Typed'
    BY <1>2
<1>4. Typed /\ [AgentNext]_agentVars =>
          [Detect(trajectory) /\ ~Detect(trajectory')
             => Len(CallsOf(trajectory)) = 8 /\ ~Repeated(CallsOf(trajectory))]_agentVars
    <2> SUFFICES ASSUME Typed, [AgentNext]_agentVars, Detect(trajectory), ~Detect(trajectory')
                 PROVE  Len(CallsOf(trajectory)) = 8 /\ ~Repeated(CallsOf(trajectory))
        OBVIOUS
    <2>1. PICK x \in StepKinds : trajectory' = Append(trajectory, x)
        BY <1>2
    <2> QED
        BY <2>1, LoopsStay
<1> HIDE DEF Typed
<1> QED
    BY <1>1, <1>3, <1>4, PTL DEF AgentSpec, LoopsStayFound

-----------------------------------------------------------------------------
(* The figures of the dashboards. *)

(* Sorted values.  A place has a value: as many are below it as its place at most,
   and more than that are not above it. *)
Under(values, v) == {i \in DOMAIN values : values[i] < v}
UpTo(values, v) == {i \in DOMAIN values : values[i] <= v}

LEMMA ValuesFinite ==
    ASSUME NEW D, IsFiniteSet(D), NEW values \in [D -> Int]
    PROVE  /\ IsFiniteSet(Range(values)) /\ Range(values) \subseteq Int
           /\ D # {} => Range(values) # {}
           /\ \A v : IsFiniteSet(Under(values, v)) /\ Cardinality(Under(values, v)) \in Nat
           /\ \A v : IsFiniteSet(UpTo(values, v)) /\ Cardinality(UpTo(values, v)) \in Nat
<1>1. values \in Surjection(D, Range(values))
    BY DEF Surjection, Range
<1>2. IsFiniteSet(Range(values))
    BY <1>1, FS_Surjection
<1>3. Range(values) \subseteq Int /\ (D # {} => Range(values) # {})
    BY DEF Range
<1>4. \A v : IsFiniteSet(Under(values, v)) /\ Cardinality(Under(values, v)) \in Nat
    <2>1. \A v : Under(values, v) \subseteq D
        BY DEF Under
    <2> QED
        BY <2>1, FS_Subset, FS_CardinalityType
<1>5. \A v : IsFiniteSet(UpTo(values, v)) /\ Cardinality(UpTo(values, v)) \in Nat
    <2>1. \A v : UpTo(values, v) \subseteq D
        BY DEF UpTo
    <2> QED
        BY <2>1, FS_Subset, FS_CardinalityType
<1> QED
    BY <1>2, <1>3, <1>4, <1>5

LEMMA SortedIs ==
    ASSUME NEW D, IsFiniteSet(D), NEW values \in [D -> Int], NEW place \in Nat, place < Cardinality(D)
    PROVE  /\ Sorted(values, place) \in Range(values)
           /\ Cardinality(Under(values, Sorted(values, place))) <= place
           /\ Cardinality(UpTo(values, Sorted(values, place))) > place
<1>0. D # {} /\ Cardinality(D) \in Nat
    BY FS_EmptySet, FS_CardinalityType
<1> DEFINE V == Range(values)
           C == {v \in V : Cardinality(UpTo(values, v)) > place}
<1>1. IsFiniteSet(V) /\ V \subseteq Int /\ V # {}
    BY <1>0, ValuesFinite
<1>2. \A i \in D : values[i] \in V
    BY DEF Range
<1>3. \A v \in V : \E i \in D : values[i] = v
    BY DEF Range
<1> HIDE DEF V
<1>4. Max(V) \in C
    <2>1. Max(V) \in V /\ \A x \in V : x <= Max(V)
        BY <1>1, Greatest
    <2>2. UpTo(values, Max(V)) = D
        BY <1>2, <2>1 DEF UpTo
    <2> QED
        BY <2>1, <2>2
<1>5. IsFiniteSet(C) /\ C \subseteq Int /\ C # {}
    BY <1>1, <1>4, FS_Subset
<1>6. PICK v \in C : \A x \in C : v <= x
    <2> HIDE DEF C
    <2> QED
        BY <1>5, Lowest
<1>7. v \in V /\ v \in Int /\ Cardinality(UpTo(values, v)) > place
    BY <1>1, <1>6
<1>8. Cardinality(Under(values, v)) <= place
    <2> SUFFICES ASSUME Cardinality(Under(values, v)) > place
                 PROVE  FALSE
        BY ValuesFinite
    <2> DEFINE L == {x \in V : x < v}
    <2>1. Under(values, v) # {}
        BY FS_EmptySet
    <2>2. L # {}
        BY <1>2, <2>1 DEF Under
    <2>3. IsFiniteSet(L) /\ L \subseteq Int
        BY <1>1, FS_Subset
    <2>4. PICK u \in L : \A x \in L : x <= u
        <3> HIDE DEF L
        <3> QED
            BY <2>2, <2>3, Greatest
    <2>5. u \in V /\ u \in Int /\ u < v
        BY <1>1, <2>4
    <2>6. \A i \in D : values[i] \in Int /\ (values[i] < v <=> values[i] <= u)
        BY <1>2, <1>7, <2>4, <2>5
    <2>7. UpTo(values, u) = Under(values, v)
        BY <2>6 DEF UpTo, Under
    <2>8. u \in C
        BY <2>5, <2>7
    <2> QED
        BY <1>6, <1>7, <2>5, <2>8
<1> QED
    BY <1>7, <1>8 DEF Sorted, Under, UpTo, V

(* What stands further up is no less. *)
LEMMA SortedGrows ==
    ASSUME NEW D, IsFiniteSet(D), NEW values \in [D -> Int], NEW j \in Nat, NEW k \in Nat, j <= k, k < Cardinality(D)
    PROVE  /\ Sorted(values, j) \in Int /\ Sorted(values, k) \in Int
           /\ Sorted(values, j) <= Sorted(values, k)
<1>0. Cardinality(D) \in Nat
    BY FS_CardinalityType
<1>1. PICK u : u = Sorted(values, j)
    OBVIOUS
<1>2. PICK v : v = Sorted(values, k)
    OBVIOUS
<1>3. u \in Range(values) /\ Cardinality(Under(values, u)) <= j
    BY <1>0, <1>1, SortedIs
<1>4. v \in Range(values) /\ Cardinality(UpTo(values, v)) > k
    BY <1>0, <1>2, SortedIs
<1>5. u \in Int /\ v \in Int
    BY <1>3, <1>4, ValuesFinite
<1>6. u <= v
    <2> SUFFICES ASSUME v < u
                 PROVE  FALSE
        BY <1>5
    <2>1. UpTo(values, v) \subseteq Under(values, u)
        BY <1>5 DEF UpTo, Under
    <2>2. /\ IsFiniteSet(Under(values, u)) /\ Cardinality(Under(values, u)) \in Nat
          /\ Cardinality(UpTo(values, v)) \in Nat
        BY ValuesFinite
    <2>3. Cardinality(UpTo(values, v)) <= Cardinality(Under(values, u))
        BY <2>1, <2>2, FS_Subset
    <2> QED
        BY <1>3, <1>4, <2>2, <2>3
<1> QED
    BY <1>1, <1>2, <1>5, <1>6

LEMMA SortedBetween ==
    ASSUME NEW D, IsFiniteSet(D), NEW values \in [D -> Int], NEW place \in Nat, place < Cardinality(D)
    PROVE  /\ Min(Range(values)) <= Sorted(values, place) /\ Sorted(values, place) <= Max(Range(values))
           /\ Min(Range(values)) \in Int /\ Max(Range(values)) \in Int
<1>0. D # {}
    BY FS_EmptySet
<1>1. IsFiniteSet(Range(values)) /\ Range(values) \subseteq Int /\ Range(values) # {}
    BY <1>0, ValuesFinite
<1>2. Sorted(values, place) \in Range(values)
    BY SortedIs
<1> QED
    BY <1>1, <1>2, Greatest, Lowest

(* Products and places. *)
LEMMA ProductGrows ==
    ASSUME NEW d \in Nat, NEW r \in Nat, NEW s \in Nat, r <= s
    PROVE  d * r \in Nat /\ d * s \in Nat /\ d * r <= d * s
<1>1. PICK t \in Nat : s = r + t
    <2>1. s - r \in Nat /\ s = r + (s - r)
        OBVIOUS
    <2> QED
        BY <2>1
<1>2. d * (r + t) = d * r + d * t /\ d * r \in Int /\ d * t \in Int
    BY Distributes
<1>3. \A x, y \in Nat : x * y \in Nat
    OBVIOUS
<1>4. d * t \in Nat /\ d * r \in Nat /\ d * s \in Nat
    BY <1>3
<1> QED
    BY <1>1, <1>2, <1>4

LEMMA Neighbours ==
    ASSUME NEW m \in Nat, NEW place \in Nat, place <= 99 * m
    PROVE  /\ place \div 100 \in Nat /\ (place + 99) \div 100 \in Nat /\ place % 100 \in 0..99
           /\ place = 100 * (place \div 100) + (place % 100)
           /\ (place + 99) \div 100 <= m /\ place \div 100 <= (place + 99) \div 100
           /\ (place + 99) \div 100 = IF place % 100 = 0 THEN place \div 100 ELSE place \div 100 + 1
<1>1. PICK q \in Nat, r \in 0..99 : place = 100 * q + r
    <2>1. place \div 100 \in Nat /\ place % 100 \in 0..99 /\ place = 100 * (place \div 100) + (place % 100)
        OBVIOUS
    <2> QED
        BY <2>1
<1>2. place \div 100 = q /\ place % 100 = r
    BY <1>1
<1>3. CASE r = 0
    <2>1. (place + 99) \div 100 = q
        BY <1>1, <1>3
    <2> QED
        BY <1>1, <1>2, <1>3, <2>1
<1>4. CASE r # 0
    <2>1. (place + 99) \div 100 = q + 1
        BY <1>1, <1>4
    <2> QED
        BY <1>1, <1>2, <1>4, <2>1
<1> QED
    BY <1>3, <1>4

(* Between two values, and further with a greater share of the second. *)
Between(x, y, share) == x * (100 - share) + y * share

LEMMA Interpolates ==
    ASSUME NEW x \in Int, NEW y \in Int, x <= y, NEW r \in 0..99, NEW s \in 0..99, r <= s
    PROVE  /\ Between(x, y, r) \in Int /\ Between(x, y, s) \in Int
           /\ 100 * x <= Between(x, y, r) /\ Between(x, y, r) <= Between(x, y, s)
           /\ Between(x, y, s) <= 100 * y
<1>1. PICK d \in Nat : y = x + d
    <2>1. y - x \in Nat /\ y = x + (y - x)
        OBVIOUS
    <2> QED
        BY <2>1
<1>2. \A t \in 0..100 : Between(x, y, t) = 100 * x + d * t
    <2> TAKE t \in 0..100
    <2>1. PICK o \in Nat : o = 100 - t
        OBVIOUS
    <2>2. x * (o + t) = x * o + x * t /\ x * o \in Int /\ x * t \in Int
        BY Distributes
    <2>3. t * (x + d) = t * x + t * d /\ t * x \in Int /\ t * d \in Int
        BY Distributes
    <2>4. t * x = x * t /\ t * d = d * t /\ y * t = t * y /\ o + t = 100 /\ x * 100 = 100 * x
        BY <2>1
    <2>5. Between(x, y, t) = x * o + t * (x + d)
        BY <1>1, <2>1, <2>4 DEF Between
    <2> QED
        BY <2>2, <2>3, <2>4, <2>5
<1>3. d * r \in Nat /\ d * s \in Nat /\ d * r <= d * s /\ d * s <= d * 100
    BY ProductGrows
<1>4. Between(x, y, r) = 100 * x + d * r /\ Between(x, y, s) = 100 * x + d * s
    <2>1. r \in 0..100 /\ s \in 0..100
        OBVIOUS
    <2> QED
        BY <1>2, <2>1, Zenon
<1> QED
    BY <1>1, <1>3, <1>4

(* What a percentile is made of. *)
AtPlaces(D, values, percent, low, high, share, x, y) ==
    /\ PercentileOf(values, percent) = Between(x, y, share)
    /\ low <= high /\ high < Cardinality(D) /\ x <= y
    /\ (Cardinality(D) - 1) * percent = 100 * low + share
    /\ high = IF share = 0 THEN low ELSE low + 1
    /\ x = Sorted(values, low) /\ y = Sorted(values, high)

LEMMA PercentileAt ==
    ASSUME NEW D, IsFiniteSet(D), NEW values \in [D -> Int], D # {}, NEW percent \in 0..99
    PROVE  \E low \in Nat, high \in Nat, share \in 0..99, x \in Int, y \in Int :
               AtPlaces(D, values, percent, low, high, share, x, y)
<1>1. Cardinality(D) \in Nat /\ Cardinality(D) # 0
    BY FS_EmptySet, FS_CardinalityType
<1>2. PICK m \in Nat : Cardinality(D) = m + 1
    <2>1. Cardinality(D) - 1 \in Nat /\ Cardinality(D) = (Cardinality(D) - 1) + 1
        BY <1>1
    <2> QED
        BY <2>1
<1>3. PICK place \in Nat : place = m * percent /\ place <= 99 * m
    <2>1. m * percent \in Nat /\ m * percent <= m * 99
        BY ProductGrows
    <2> QED
        BY <2>1
<1>4. PICK low \in Nat, high \in Nat, share \in 0..99 :
          /\ low = place \div 100 /\ high = (place + 99) \div 100 /\ share = place % 100
          /\ place = 100 * low + share /\ high <= m /\ low <= high
          /\ high = IF share = 0 THEN low ELSE low + 1
    <2>1. PICK low \in Nat : low = place \div 100
        BY <1>3, Neighbours
    <2>2. PICK high \in Nat : high = (place + 99) \div 100
        BY <1>3, Neighbours
    <2>3. PICK share \in 0..99 : share = place % 100
        BY <1>3, Neighbours
    <2>4. place = 100 * low + share /\ high <= m /\ low <= high /\ high = IF share = 0 THEN low ELSE low + 1
        BY <1>3, <2>1, <2>2, <2>3, Neighbours
    <2> QED
        BY <2>1, <2>2, <2>3, <2>4, ZenonT(30)
<1>5. PICK x \in Int, y \in Int : x = Sorted(values, low) /\ y = Sorted(values, high) /\ x <= y
    BY <1>2, <1>4, SortedGrows
<1>6. (Cardinality(DOMAIN values) - 1) * percent = place
    BY <1>2, <1>3
<1>7. PercentileOf(values, percent) = x * (100 - share) + y * share
    BY <1>4, <1>5, <1>6 DEF PercentileOf
<1>8. high < Cardinality(D)
    BY <1>2, <1>4
<1>9. (Cardinality(D) - 1) * percent = 100 * low + share
    BY <1>4, <1>6
<1>10. AtPlaces(D, values, percent, low, high, share, x, y)
    BY <1>4, <1>5, <1>7, <1>8, <1>9 DEF AtPlaces, Between
<1> QED
    BY <1>10

LEMMA PercentilesInOrder ==
    ASSUME NEW D, IsFiniteSet(D), NEW values \in [D -> Int], D # {},
           NEW p \in 0..99, NEW q \in 0..99, p <= q
    PROVE  PercentileOf(values, p) <= PercentileOf(values, q)
<1>0. Cardinality(D) \in Nat /\ Cardinality(D) - 1 \in Nat
    BY FS_EmptySet, FS_CardinalityType
<1>1. PICK low \in Nat, high \in Nat, share \in 0..99, x \in Int, y \in Int :
          AtPlaces(D, values, p, low, high, share, x, y)
    BY PercentileAt
<1>2. PICK low2 \in Nat, high2 \in Nat, share2 \in 0..99, x2 \in Int, y2 \in Int :
          AtPlaces(D, values, q, low2, high2, share2, x2, y2)
    BY PercentileAt
<1>3. 100 * low + share <= 100 * low2 + share2
    <2>1. (Cardinality(D) - 1) * p <= (Cardinality(D) - 1) * q
        BY <1>0, ProductGrows
    <2> QED
        BY <1>1, <1>2, <2>1 DEF AtPlaces
<1>4. /\ Between(x, y, share) \in Int /\ 100 * x <= Between(x, y, share) /\ Between(x, y, share) <= 100 * y
      /\ Between(x2, y2, share2) \in Int /\ 100 * x2 <= Between(x2, y2, share2)
    <2>1. share <= share /\ share2 <= share2
        OBVIOUS
    <2> QED
        BY <1>1, <1>2, <2>1, Interpolates, ZenonT(30) DEF AtPlaces
<1>5. CASE low < low2
    <2>1. high <= low2 /\ low2 < Cardinality(D)
        BY <1>0, <1>1, <1>2, <1>5 DEF AtPlaces
    <2>2. y <= x2
        BY <1>1, <1>2, <2>1, SortedGrows DEF AtPlaces
    <2>3. PICK v \in Int : v = Between(x, y, share)
        BY <1>4
    <2>4. PICK w \in Int : w = Between(x2, y2, share2)
        BY <1>4
    <2>5. v <= 100 * y /\ 100 * x2 <= w
        BY <1>4, <2>3, <2>4
    <2>6. v <= w
        BY <2>2, <2>5
    <2> QED
        BY <1>1, <1>2, <2>3, <2>4, <2>6 DEF AtPlaces
<1>6. CASE ~(low < low2)
    <2>1. low = low2 /\ share <= share2
        BY <1>3, <1>6
    <2>2. x = x2
        BY <1>1, <1>2, <2>1 DEF AtPlaces
    <2>3. CASE share = 0
        <3>1. y = x
            BY <1>1, <2>3 DEF AtPlaces
        <3>2. Between(x, y, share) <= 100 * x
            BY <1>4, <3>1
        <3>3. PICK v \in Int : v = Between(x, y, share)
            BY <1>4
        <3>4. PICK w \in Int : w = Between(x2, y2, share2)
            BY <1>4
        <3>5. v <= 100 * x /\ 100 * x <= w
            BY <1>4, <2>2, <3>2, <3>3, <3>4
        <3>6. v <= w
            BY <3>5
        <3> QED
            BY <1>1, <1>2, <3>3, <3>4, <3>6 DEF AtPlaces
    <2>4. CASE share # 0
        <3>1. high = high2
            BY <1>1, <1>2, <2>1, <2>4 DEF AtPlaces
        <3>2. y = y2
            BY <1>1, <1>2, <3>1 DEF AtPlaces
        <3>3. Between(x, y, share) <= Between(x, y, share2)
            BY <1>1, <2>1, Interpolates DEF AtPlaces
        <3> QED
            BY <1>1, <1>2, <2>2, <3>2, <3>3 DEF AtPlaces
    <2> QED
        BY <2>3, <2>4
<1> QED
    BY <1>5, <1>6

LEMMA PercentileBounded ==
    ASSUME NEW D, IsFiniteSet(D), NEW values \in [D -> Int], D # {}, NEW p \in 0..99
    PROVE  /\ 100 * Min(Range(values)) <= PercentileOf(values, p)
           /\ PercentileOf(values, p) <= 100 * Max(Range(values))
<1>0. Cardinality(D) \in Nat
    BY FS_CardinalityType
<1>1. PICK low \in Nat, high \in Nat, share \in 0..99, x \in Int, y \in Int :
          AtPlaces(D, values, p, low, high, share, x, y)
    BY PercentileAt
<1>2. low < Cardinality(D)
    BY <1>0, <1>1 DEF AtPlaces
<1>3. PICK lowest \in Int : lowest = Min(Range(values)) /\ lowest <= x
    BY <1>1, <1>2, SortedBetween DEF AtPlaces
<1>4. PICK greatest \in Int : greatest = Max(Range(values)) /\ y <= greatest
    BY <1>1, SortedBetween DEF AtPlaces
<1>5. PICK v \in Int : v = Between(x, y, share) /\ 100 * x <= v /\ v <= 100 * y
    <2>1. share <= share
        OBVIOUS
    <2> QED
        BY <1>1, <2>1, Interpolates, ZenonT(30) DEF AtPlaces
<1>6. 100 * lowest <= v /\ v <= 100 * greatest
    BY <1>3, <1>4, <1>5
<1> QED
    BY <1>1, <1>3, <1>4, <1>5, <1>6 DEF AtPlaces

(* The average lies between the least and the greatest value. *)
LEMMA AverageBetween ==
    ASSUME NEW S, IsFiniteSet(S), NEW A, A \subseteq S, NEW g \in [S -> Int], NEW lowest \in Int, NEW greatest \in Int,
           \A x \in A : lowest <= g[x] /\ g[x] <= greatest, \A x \in S \ A : g[x] = 0
    PROVE  /\ Cardinality(A) * lowest <= SumOf(g) /\ SumOf(g) <= Cardinality(A) * greatest
<1> DEFINE ones == Ones(S, A)
<1>1. ones \in [S -> Int] /\ \A x \in S : ones[x] = IF x \in A THEN 1 ELSE 0
    BY DEF Ones
<1>2. SumOf(ones) = Cardinality(A)
    BY OnesCount
<1>3. Cardinality(A) \in Nat
    BY FS_Subset, FS_CardinalityType
<1> HIDE DEF ones
<1>4. ASSUME NEW b \in Int
      PROVE  /\ [x \in S |-> b * ones[x]] \in [S -> Int]
             /\ SumOf([x \in S |-> b * ones[x]]) = Cardinality(A) * b
    <2> DEFINE h == [x \in S |-> b * ones[x]]
    <2>1. \A x, y \in Int : x * y \in Int
        OBVIOUS
    <2>2. h \in [S -> Int] /\ \A x \in S : h[x] = b * ones[x] /\ ones[x] \in Int /\ h[x] \in Int
        BY <1>1, <2>1
    <2> HIDE DEF h
    <2>3. \A x \in S : h[x] = b * ones[x] + 0 * ones[x] + 0 * ones[x]
        <3> TAKE x \in S
        <3>1. PICK o \in Int : o = ones[x]
            BY <2>2
        <3>2. PICK v \in Int : v = h[x]
            BY <2>2
        <3>3. v = b * o
            BY <2>2, <3>1, <3>2
        <3>4. v = v + 0 * o + 0 * o
            OBVIOUS
        <3> QED
            BY <3>1, <3>2, <3>3, <3>4
    <2>4. Combines(S, h, b, ones, 0, ones, 0, ones)
        BY <1>1, <2>2, <2>3 DEF Combines
    <2>5. SumOf(h) = b * SumOf(ones) + 0 * SumOf(ones) + 0 * SumOf(ones)
        BY <2>4, TotalCombines
    <2>6. PICK n \in Nat : n = Cardinality(A)
        BY <1>3
    <2>7. SumOf(h) = b * n + 0 * n + 0 * n
        BY <1>2, <2>5, <2>6
    <2>8. PICK w \in Int : w = b * n /\ w = n * b
        BY <2>1
    <2>9. SumOf(h) = w
        BY <2>7, <2>8
    <2> QED
        BY <2>2, <2>6, <2>8, <2>9 DEF h
<1>5. ASSUME NEW b \in Int, NEW x \in S
      PROVE  b * ones[x] = IF x \in A THEN b ELSE 0
    BY <1>1
<1>6. SumOf([x \in S |-> lowest * ones[x]]) <= SumOf(g)
    <2> DEFINE h == [x \in S |-> lowest * ones[x]]
    <2>1. h \in [S -> Int] /\ \A x \in S : h[x] = IF x \in A THEN lowest ELSE 0
        BY <1>4, <1>5
    <2> HIDE DEF h
    <2>2. \A x \in S : h[x] <= g[x]
        BY <2>1
    <2>3. SumOf(h) <= SumOf(g)
        BY <2>1, <2>2, SumGrows
    <2> QED
        BY <2>3 DEF h
<1>7. SumOf(g) <= SumOf([x \in S |-> greatest * ones[x]])
    <2> DEFINE h == [x \in S |-> greatest * ones[x]]
    <2>1. h \in [S -> Int] /\ \A x \in S : h[x] = IF x \in A THEN greatest ELSE 0
        BY <1>4, <1>5
    <2> HIDE DEF h
    <2>2. \A x \in S : g[x] <= h[x]
        BY <2>1
    <2>3. SumOf(g) <= SumOf(h)
        BY <2>1, <2>2, SumGrows
    <2> QED
        BY <2>3 DEF h
<1> QED
    BY <1>4, <1>6, <1>7

(* Rows of the project are rows of the clients, and a span is of a trace that is
   there. *)
StatRows ==
    /\ statTraces \in Seq(TraceForms)
    /\ statSpans \in Seq([trace : Nat, row : SpanForms])
    /\ \A s \in DOMAIN statSpans : statSpans[s].trace \in DOMAIN statTraces

LEMMA StatRowsHold == TraceStatisticsSpec => []StatRows
<1>1. TraceStatisticsInit => StatRows
    BY DEF TraceStatisticsInit, StatRows
<1>2. StatRows /\ [TraceStatisticsNext]_statVars => StatRows'
    <2> SUFFICES ASSUME StatRows, [TraceStatisticsNext]_statVars
                 PROVE  StatRows'
        OBVIOUS
    <2>1. CASE StoreTrace
        BY <2>1 DEF StoreTrace, StatRows
    <2>2. CASE StoreSpan
        <3>1. PICK form \in SpanForms, t \in DOMAIN statTraces :
                  statSpans' = Append(statSpans, [trace |-> t, row |-> form])
            BY <2>2 DEF StoreSpan
        <3>2. t \in Nat /\ [trace |-> t, row |-> form] \in [trace : Nat, row : SpanForms]
            BY DEF StatRows
        <3>3. statTraces' = statTraces
            BY <2>2 DEF StoreSpan
        <3> QED
            BY <3>1, <3>2, <3>3 DEF StatRows
    <2>3. CASE UNCHANGED statVars
        BY <2>3 DEF statVars, StatRows
    <2> QED
        BY <2>1, <2>2, <2>3 DEF TraceStatisticsNext
<1> QED
    BY <1>1, <1>2, PTL DEF TraceStatisticsSpec

(* The rows as the sums see them. *)
LEMMA FiguresTyped ==
    ASSUME StatRows
    PROVE  /\ IsFiniteSet(DOMAIN statTraces) /\ IsFiniteSet(DOMAIN statSpans)
           /\ DOMAIN DurationOfTrace = DOMAIN statTraces /\ DOMAIN CostOfSpan = DOMAIN statSpans
           /\ \A t \in DOMAIN statTraces : DurationOfTrace[t] \in Int \union {Absent}
           /\ \A s \in DOMAIN statSpans : CostOfSpan[s] \in Int \union {Absent}
           /\ \A s \in DOMAIN statSpans : statSpans[s].trace \in DOMAIN statTraces
           /\ \A env : ShownTraces(env) \subseteq DOMAIN statTraces /\ IsFiniteSet(ShownTraces(env))
           /\ \A env : SpansShown(env) \subseteq DOMAIN statSpans
           /\ IsFiniteSet(Named)
<1>1. DOMAIN statTraces = 1..Len(statTraces) /\ DOMAIN statSpans = 1..Len(statSpans)
      /\ Len(statTraces) \in Nat /\ Len(statSpans) \in Nat
    BY DEF StatRows
<1>2. IsFiniteSet(DOMAIN statTraces) /\ IsFiniteSet(DOMAIN statSpans)
    BY <1>1, FS_Interval
<1>3. \A t \in DOMAIN statTraces : DurationOfTrace[t] \in Int \union {Absent}
    BY TraceStatisticsAssumption DEF StatRows, DurationOfTrace, TraceStatisticsAssumption
<1>4. \A s \in DOMAIN statSpans : CostOfSpan[s] \in Int \union {Absent}
    <2> TAKE s \in DOMAIN statSpans
    <2>1. statSpans[s].row \in SpanForms
        <3>1. PICK R : R = [trace : Nat, row : SpanForms]
            OBVIOUS
        <3>2. statSpans \in Seq(R)
            BY <3>1 DEF StatRows
        <3>3. statSpans[s] \in R
            BY <3>2
        <3> QED
            BY <3>1, <3>3
    <2>2. statSpans[s].row.cost \in Int \union {Absent}
        BY <2>1, TraceStatisticsAssumption DEF TraceStatisticsAssumption
    <2> QED
        BY <2>2 DEF CostOfSpan
<1>5. \A env : ShownTraces(env) \subseteq DOMAIN statTraces
    BY DEF ShownTraces
<1>6. \A env : IsFiniteSet(ShownTraces(env))
    BY <1>2, <1>5, FS_Subset
<1>7. \A env : SpansShown(env) \subseteq DOMAIN statSpans
    BY DEF SpansShown
<1>8. IsFiniteSet(Named)
    <2> DEFINE all == {statTraces[t].env : t \in DOMAIN statTraces}
               f == [t \in DOMAIN statTraces |-> statTraces[t].env]
    <2>1. f \in Surjection(DOMAIN statTraces, all)
        BY DEF Surjection
    <2> HIDE DEF f, all
    <2>2. IsFiniteSet(all)
        BY <1>2, <2>1, FS_Surjection
    <2>3. Named \subseteq all
        BY DEF Named, all
    <2> QED
        BY <2>2, <2>3, FS_Subset
<1>9. DOMAIN DurationOfTrace = DOMAIN statTraces /\ DOMAIN CostOfSpan = DOMAIN statSpans
    BY DEF DurationOfTrace, CostOfSpan
<1> QED
    BY <1>2, <1>3, <1>4, <1>5, <1>6, <1>7, <1>8, <1>9 DEF StatRows

(* Costs, with nothing for a span that is not shown or has none. *)
ShownCosts(spans) == [s \in DOMAIN statSpans |-> IF s \in Given(spans, CostOfSpan) THEN CostOfSpan[s] ELSE 0]

LEMMA CostsTyped ==
    ASSUME StatRows, NEW spans, spans \subseteq DOMAIN statSpans
    PROVE  /\ ShownCosts(spans) \in [DOMAIN statSpans -> Int]
           /\ Added(spans, CostOfSpan) = SumOf(ShownCosts(spans))
           /\ \A s \in DOMAIN statSpans :
                  ShownCosts(spans)[s] = IF s \in spans /\ CostOfSpan[s] # Absent THEN CostOfSpan[s] ELSE 0
<1>1. \A s \in DOMAIN statSpans : ShownCosts(spans)[s] = IF s \in spans /\ CostOfSpan[s] # Absent THEN CostOfSpan[s] ELSE 0
    BY DEF ShownCosts, Given
<1>2. \A s \in DOMAIN statSpans : ShownCosts(spans)[s] \in Int
    BY <1>1, FiguresTyped
<1>3. ShownCosts(spans) \in [DOMAIN statSpans -> Int]
    BY <1>2 DEF ShownCosts
<1>4. Added(spans, CostOfSpan) = SumOf(ShownCosts(spans))
    BY FiguresTyped DEF Added, ShownCosts
<1> QED
    BY <1>1, <1>3, <1>4

LEMMA StatisticsAre ==
    ASSUME NEW env
    PROVE  /\ Statistics(env).total = Cardinality(ShownTraces(env))
           /\ Statistics(env).cost = IF ShownTraces(env) = {} THEN Absent ELSE Added(SpansShown(env), CostOfSpan)
           /\ DOMAIN Statistics(env).percentiles = {50, 90, 95, 99}
           /\ \A p \in {50, 90, 95, 99} : Statistics(env).percentiles[p] = PercentileOf(Durations(env), p)
           /\ Statistics(env).average = Average(ShownTraces(env), DurationOfTrace)
           /\ Statistics(env).most = IF DOMAIN Durations(env) = {} THEN Absent ELSE Max(Range(Durations(env)))
           /\ Statistics(env).models = Breakdown("model", SpansShown(env))
           /\ Statistics(env).providers = Breakdown("provider", SpansShown(env))
           /\ Statistics(env).environments = Breakdown("environment", SpansShown(env))
BY DEF Statistics

(* The pages of the environments show every trace that has one, and each once. *)
LEMMA TotalsAddUp ==
    ASSUME StatRows
    PROVE  Statistics("").total = Cardinality(Nameless) + SumOf([env \in Named |-> Statistics(env).total])
<1> DEFINE D == DOMAIN statTraces
           g == Ones(D, ShownTraces(""))
           key == [t \in D |-> statTraces[t].env]
           rest == ShownTraces("") \ Nameless
<1>1. /\ IsFiniteSet(D) /\ IsFiniteSet(Named) /\ \A env : ShownTraces(env) \subseteq D
      /\ Nameless \subseteq D /\ rest \subseteq D /\ Nameless \subseteq ShownTraces("")
    BY FiguresTyped DEF Nameless
<1>2. g \in [D -> Int] /\ Ones(D, Nameless) \in [D -> Int] /\ Ones(D, rest) \in [D -> Int]
    BY DEF Ones
<1>3. SumOf(g) = Cardinality(ShownTraces(""))
    BY <1>1, OnesCount
<1>4. SumOf(g) = SumOf(Ones(D, Nameless)) + SumOf(Ones(D, rest))
    <2>1. PICK a : a = Ones(D, Nameless)
        OBVIOUS
    <2>2. PICK b : b = Ones(D, rest)
        OBVIOUS
    <2>3. ASSUME NEW t \in D
          PROVE  g[t] = a[t] + b[t]
        <3>1. t \in ShownTraces("") <=> t \in Nameless \/ t \in rest
            BY <1>1
        <3>2. ~(t \in Nameless /\ t \in rest)
            OBVIOUS
        <3>3. a[t] = IF t \in Nameless THEN 1 ELSE 0
            BY <2>1 DEF Ones
        <3>4. b[t] = IF t \in rest THEN 1 ELSE 0
            BY <2>2 DEF Ones
        <3>5. g[t] = IF t \in ShownTraces("") THEN 1 ELSE 0
            BY DEF Ones
        <3> HIDE DEF g, rest, D
        <3>6. CASE t \in Nameless
            <4>1. a[t] = 1 /\ b[t] = 0 /\ g[t] = 1
                BY <3>1, <3>2, <3>3, <3>4, <3>5, <3>6, Zenon
            <4> QED
                BY <4>1
        <3>7. CASE t \notin Nameless /\ t \in rest
            <4>1. a[t] = 0 /\ b[t] = 1 /\ g[t] = 1
                BY <3>1, <3>3, <3>4, <3>5, <3>7, Zenon
            <4> QED
                BY <4>1
        <3>8. CASE t \notin Nameless /\ t \notin rest
            <4>1. a[t] = 0 /\ b[t] = 0 /\ g[t] = 0
                BY <3>1, <3>3, <3>4, <3>5, <3>8, Zenon
            <4> QED
                BY <4>1
        <3> QED
            BY <3>6, <3>7, <3>8
    <2> HIDE DEF g, rest, D
    <2>4. a \in [D -> Int] /\ b \in [D -> Int]
        BY <1>2, <2>1, <2>2
    <2>5. IsFiniteSet(D) /\ g \in [D -> Int] /\ \A t \in D : g[t] = a[t] + b[t]
        BY <1>1, <1>2, <2>3
    <2>6. SumOf(g) = SumOf(a) + SumOf(b)
        BY <2>4, <2>5, Adds
    <2> QED
        BY <2>1, <2>2, <2>6
<1>5. SumOf(Ones(D, Nameless)) = Cardinality(Nameless)
    BY <1>1, OnesCount
<1>6. Ones(D, rest) = Groups(D, g, key, Named)
    <2>1. \A t \in D : t \in rest <=> t \in ShownTraces("") /\ key[t] \in Named
        BY DEF Nameless, Named, ShownTraces
    <2> HIDE DEF rest, key
    <2> QED
        BY <2>1 DEF Ones, Groups
<1>7. GroupSums(D, g, key, Named) = [env \in Named |-> Statistics(env).total]
    <2>1. ASSUME NEW env \in Named
          PROVE  SumOf(Group(D, g, key, env)) = Statistics(env).total
        <3>1. env # ""
            BY DEF Named
        <3>2. \A t \in D : t \in ShownTraces(env) <=> t \in ShownTraces("") /\ key[t] = env
            BY <3>1 DEF ShownTraces
        <3>3. Group(D, g, key, env) = Ones(D, ShownTraces(env))
            <4> HIDE DEF key
            <4> QED
                BY <3>2 DEF Group, Ones
        <3>4. SumOf(Ones(D, ShownTraces(env))) = Cardinality(ShownTraces(env))
            BY <1>1, OnesCount
        <3> QED
            BY <3>3, <3>4, StatisticsAre
    <2> HIDE DEF g, key, D
    <2> QED
        BY <2>1 DEF GroupSums
<1>8. SumOf(GroupSums(D, g, key, Named)) = SumOf(Groups(D, g, key, Named))
    <2> HIDE DEF g, key, D
    <2> QED
        BY <1>1, <1>2, Grouped
<1> HIDE DEF g, key, rest, D
<1> QED
    BY <1>3, <1>4, <1>5, <1>6, <1>7, <1>8, StatisticsAre

(* Of the costs shown, each key of a breakdown has those of its spans. *)
With(kind, spans, k) == {s \in spans : KeyOf(kind, s) = k}
KeyIn(kind) == [s \in DOMAIN statSpans |-> KeyOf(kind, s)]

LEMMA BreakdownCosts ==
    ASSUME StatRows, NEW kind, NEW spans, spans \subseteq DOMAIN statSpans
    PROVE  /\ CostOfAll(Breakdown(kind, spans)) =
                  SumOf(Groups(DOMAIN statSpans, ShownCosts(spans), KeyIn(kind), DOMAIN Breakdown(kind, spans)))
           /\ DOMAIN Breakdown(kind, spans) = {KeyOf(kind, s) : s \in spans} \ {""}
           /\ \A k \in DOMAIN Breakdown(kind, spans) :
                  Breakdown(kind, spans)[k].cost = Added(With(kind, spans, k), CostOfSpan)
<1> DEFINE D == DOMAIN statSpans
           K == {KeyOf(kind, s) : s \in spans} \ {""}
           b == Breakdown(kind, spans)
           g == ShownCosts(spans)
           of(k) == With(kind, spans, k)
<1>1. DOMAIN b = K /\ \A k \in K : b[k].cost = Added(of(k), CostOfSpan)
    BY DEF Breakdown, Slice, With
<1>2. IsFiniteSet(D) /\ IsFiniteSet(spans)
    BY FiguresTyped, FS_Subset
<1>3. IsFiniteSet(K)
    <2> DEFINE all == {KeyOf(kind, s) : s \in spans}
    <2>1. [s \in spans |-> KeyOf(kind, s)] \in Surjection(spans, all)
        BY DEF Surjection
    <2> HIDE DEF all
    <2>2. IsFiniteSet(all)
        BY <1>2, <2>1, FS_Surjection
    <2>3. K \subseteq all
        BY DEF all
    <2> QED
        BY <2>2, <2>3, FS_Subset
<1>4. g \in [D -> Int]
    BY CostsTyped
<1>5. ASSUME NEW k \in K
      PROVE  Added(of(k), CostOfSpan) = SumOf(Group(D, g, KeyIn(kind), k))
    <2>1. of(k) \subseteq D
        BY DEF With
    <2>2. PICK h : h = ShownCosts(of(k))
        OBVIOUS
    <2>3. ASSUME NEW s \in D
          PROVE  h[s] = IF KeyIn(kind)[s] = k THEN g[s] ELSE 0
        <3>1. h[s] = IF s \in of(k) /\ CostOfSpan[s] # Absent THEN CostOfSpan[s] ELSE 0
            <4> HIDE DEF of
            <4> QED
                BY <2>1, <2>2, CostsTyped
        <3>2. g[s] = IF s \in spans /\ CostOfSpan[s] # Absent THEN CostOfSpan[s] ELSE 0
            BY CostsTyped
        <3>3. s \in of(k) <=> s \in spans /\ KeyIn(kind)[s] = k
            BY DEF KeyIn, With
        <3> HIDE DEF of, g
        <3> QED
            BY <3>1, <3>2, <3>3
    <2>4. DOMAIN h = D
        BY <2>2 DEF ShownCosts
    <2>5. h = [s \in D |-> h[s]]
        BY <2>2 DEF ShownCosts
    <2>6. h = Group(D, g, KeyIn(kind), k)
        <3> HIDE DEF g, D
        <3> QED
            BY <2>3, <2>5 DEF Group
    <2>7. Added(of(k), CostOfSpan) = SumOf(ShownCosts(of(k)))
        <3> HIDE DEF of
        <3> QED
            BY <2>1, CostsTyped
    <2> HIDE DEF of, g, D
    <2> QED
        BY <2>2, <2>6, <2>7
<1>6. [k \in DOMAIN b |-> b[k].cost] = GroupSums(D, g, KeyIn(kind), K)
    <2> HIDE DEF b, K, of, g, D
    <2> QED
        BY <1>1, <1>5 DEF GroupSums
<1>7. SumOf(GroupSums(D, g, KeyIn(kind), K)) = SumOf(Groups(D, g, KeyIn(kind), K))
    <2> HIDE DEF K, g, D
    <2> QED
        BY <1>2, <1>3, <1>4, Grouped
<1>8. CostOfAll(b) = SumOf(Groups(D, g, KeyIn(kind), K))
    BY <1>6, <1>7 DEF CostOfAll
<1> QED
    BY <1>1, <1>8

(* The costs of the spans whose key is in a set that has every key, and of those that
   have none, are the total. *)
KeysIn(kind, spans, K) == \A s \in spans : KeyOf(kind, s) \in K <=> KeyOf(kind, s) # ""

LEMMA CostsSplit ==
    ASSUME StatRows, NEW kind, NEW spans, spans \subseteq DOMAIN statSpans, NEW K,
           KeysIn(kind, spans, K)
    PROVE  Added(spans, CostOfSpan) =
               Added(With(kind, spans, ""), CostOfSpan) + SumOf(Groups(DOMAIN statSpans, ShownCosts(spans), KeyIn(kind), K))
<1>1. PICK D : D = DOMAIN statSpans
    OBVIOUS
<1>2. PICK rest : rest = With(kind, spans, "")
    OBVIOUS
<1>3. PICK g : g = ShownCosts(spans)
    OBVIOUS
<1>4. PICK none : none = ShownCosts(rest)
    OBVIOUS
<1>5. PICK key : key = KeyIn(kind)
    OBVIOUS
<1>6. PICK h : h = Groups(D, g, key, K)
    OBVIOUS
<1>7. rest \subseteq D /\ spans \subseteq D /\ IsFiniteSet(D)
    BY <1>1, <1>2, FiguresTyped DEF With
<1>8. Added(spans, CostOfSpan) = SumOf(g) /\ Added(rest, CostOfSpan) = SumOf(none)
    BY <1>1, <1>3, <1>4, <1>7, CostsTyped
<1>9. g \in [D -> Int] /\ none \in [D -> Int]
    BY <1>1, <1>3, <1>4, <1>7, CostsTyped
<1>10. \A s \in D : (s \notin spans => g[s] = 0) /\ (s \notin rest => none[s] = 0) /\ (s \in rest => none[s] = g[s])
    <2>1. ASSUME NEW s \in D
          PROVE  /\ g[s] = IF s \in spans /\ CostOfSpan[s] # Absent THEN CostOfSpan[s] ELSE 0
                 /\ none[s] = IF s \in rest /\ CostOfSpan[s] # Absent THEN CostOfSpan[s] ELSE 0
        BY <1>1, <1>3, <1>4, <1>7, CostsTyped
    <2>2. rest \subseteq spans
        BY <1>2 DEF With
    <2> QED
        BY <2>1, <2>2, Zenon
<1>11. \A s \in D : s \in rest <=> s \in spans /\ key[s] = ""
    BY <1>1, <1>2, <1>5, <1>7 DEF KeyIn, With
<1>12. \A s \in spans : key[s] \in K <=> key[s] # ""
    BY <1>1, <1>5, <1>7 DEF KeyIn, KeysIn
<1>13. h \in [D -> Int] /\ \A s \in D : h[s] = IF key[s] \in K THEN g[s] ELSE 0
    BY <1>6, <1>9 DEF Groups
<1>14. ASSUME NEW s \in D
       PROVE  g[s] = none[s] + h[s]
    <2>1. g[s] \in Int /\ none[s] \in Int
        BY <1>9
    <2>2. CASE s \notin spans
        <3>1. g[s] = 0 /\ none[s] = 0 /\ h[s] = 0
            BY <1>10, <1>11, <1>13, <2>2, Zenon
        <3> QED
            BY <3>1
    <2>3. CASE s \in rest
        <3>1. none[s] = g[s] /\ h[s] = 0
            BY <1>10, <1>11, <1>12, <1>13, <2>3, Zenon
        <3> QED
            BY <2>1, <3>1
    <2>4. CASE s \in spans /\ s \notin rest
        <3>1. none[s] = 0 /\ h[s] = g[s]
            BY <1>10, <1>11, <1>12, <1>13, <2>4, Zenon
        <3> QED
            BY <2>1, <3>1
    <2> QED
        BY <2>2, <2>3, <2>4
<1>15. SumOf(g) = SumOf(none) + SumOf(h)
    BY <1>7, <1>9, <1>13, <1>14, Adds
<1> QED
    BY <1>1, <1>2, <1>3, <1>5, <1>6, <1>8, <1>15

(* A breakdown and what has no key account for the total. *)
LEMMA BreakdownsAccount ==
    ASSUME StatRows, NEW kind, NEW spans, spans \subseteq DOMAIN statSpans
    PROVE  Added(spans, CostOfSpan) =
               Added(With(kind, spans, ""), CostOfSpan) + CostOfAll(Breakdown(kind, spans))
<1>1. PICK K : K = DOMAIN Breakdown(kind, spans)
    OBVIOUS
<1>2. K = {KeyOf(kind, s) : s \in spans} \ {""}
    BY <1>1, BreakdownCosts
<1>3. KeysIn(kind, spans, K)
    BY <1>2 DEF KeysIn
<1>4. CostOfAll(Breakdown(kind, spans)) = SumOf(Groups(DOMAIN statSpans, ShownCosts(spans), KeyIn(kind), K))
    BY <1>1, BreakdownCosts
<1> QED
    BY <1>3, <1>4, CostsSplit

(* The page of an environment shows the spans of the unfiltered page whose trace is
   there. *)
LEMMA PagesOfEnvironments ==
    ASSUME StatRows
    PROVE  /\ \A env : env # "" => SpansShown(env) = {s \in SpansShown("") : KeyOf("environment", s) = env}
           /\ \A env : env # "" => ShownTraces(env) = {t \in ShownTraces("") : statTraces[t].env = env}
           /\ \A env : ShownTraces(env) = {} => SpansShown(env) = {}
           /\ \A s \in SpansShown("") : KeyOf("environment", s) \in Named \union {""}
<1>1. \A s : KeyOf("environment", s) = statTraces[statSpans[s].trace].env
    BY DEF KeyOf, EnvironmentOf
<1>2. \A s \in DOMAIN statSpans : statSpans[s].trace \in DOMAIN statTraces
    BY FiguresTyped
<1>3. \A env : env # "" => ShownTraces(env) = {t \in ShownTraces("") : statTraces[t].env = env}
    BY DEF ShownTraces
<1>4. \A env : env # "" => SpansShown(env) = {s \in SpansShown("") : KeyOf("environment", s) = env}
    <2> SUFFICES ASSUME NEW env, env # ""
                 PROVE  SpansShown(env) = {s \in SpansShown("") : KeyOf("environment", s) = env}
        OBVIOUS
    <2>1. ShownTraces(env) = {t \in ShownTraces("") : statTraces[t].env = env}
        BY <1>3
    <2>2. ASSUME NEW s \in DOMAIN statSpans
          PROVE  statSpans[s].trace \in ShownTraces(env) <=>
                     statSpans[s].trace \in ShownTraces("") /\ KeyOf("environment", s) = env
        BY <1>1, <2>1
    <2> QED
        BY <2>2 DEF SpansShown
<1>5. \A env : ShownTraces(env) = {} => SpansShown(env) = {}
    BY DEF SpansShown
<1>6. \A s \in SpansShown("") : KeyOf("environment", s) \in Named \union {""}
    BY <1>1, <1>2 DEF SpansShown, Named
<1> QED
    BY <1>3, <1>4, <1>5, <1>6

(* A trace shown is a count other than zero. *)
LEMMA TotalsEmpty ==
    ASSUME StatRows, NEW env
    PROVE  Statistics(env).total = 0 <=> ShownTraces(env) = {}
<1>1. IsFiniteSet(ShownTraces(env))
    BY FiguresTyped
<1> QED
    BY <1>1, FS_EmptySet, StatisticsAre

CostOn(env) == IF Statistics(env).total = 0 THEN 0 ELSE Statistics(env).cost

LEMMA CostOnPage ==
    ASSUME StatRows, NEW env
    PROVE  CostOn(env) = SumOf(ShownCosts(SpansShown(env))) /\ CostOn(env) = Added(SpansShown(env), CostOfSpan)
<1>1. SpansShown(env) \subseteq DOMAIN statSpans
    BY FiguresTyped
<1>2. Added(SpansShown(env), CostOfSpan) = SumOf(ShownCosts(SpansShown(env)))
    BY <1>1, CostsTyped
<1>3. CASE ShownTraces(env) # {}
    BY <1>2, <1>3, TotalsEmpty, StatisticsAre DEF CostOn
<1>4. CASE ShownTraces(env) = {}
    <2> DEFINE h == ShownCosts(SpansShown(env))
    <2>1. SpansShown(env) = {}
        BY <1>4, PagesOfEnvironments
    <2>2. \A s \in DOMAIN statSpans : h[s] = 0
        BY <1>1, <2>1, CostsTyped
    <2>3. h \in [DOMAIN statSpans -> {0}]
        BY <2>2 DEF ShownCosts
    <2>4. 0 \in {0} /\ \A x, y \in {0} : x + y \in {0}
        <3>1. 0 + 0 = 0
            OBVIOUS
        <3> QED
            BY <3>1, Zenon
    <2>5. IsFiniteSet(DOMAIN statSpans)
        BY FiguresTyped
    <2> HIDE DEF h
    <2>6. SumOf(h) \in {0}
        BY <2>3, <2>4, <2>5, TotalIn
    <2>7. SumOf(h) = 0
        BY <2>6
    <2>8. CostOn(env) = 0
        BY <1>4, TotalsEmpty DEF CostOn
    <2> QED
        BY <1>2, <2>7, <2>8 DEF h
<1> QED
    BY <1>3, <1>4

(* The costs of the pages and of what has no environment add up. *)
LEMMA CostsAddUp ==
    ASSUME StatRows
    PROVE  Added(SpansShown(""), CostOfSpan) =
               Added(With("environment", SpansShown(""), ""), CostOfSpan) + SumOf([env \in Named |-> CostOn(env)])
<1> DEFINE D == DOMAIN statSpans
           g == ShownCosts(SpansShown(""))
           key == KeyIn("environment")
<1>1. /\ SpansShown("") \subseteq D /\ IsFiniteSet(D) /\ IsFiniteSet(Named)
      /\ \A env : SpansShown(env) \subseteq D
    BY FiguresTyped
<1>2. g \in [D -> Int] /\ Added(SpansShown(""), CostOfSpan) = SumOf(g)
    BY <1>1, CostsTyped
<1>3. ASSUME NEW env \in Named
      PROVE  CostOn(env) = SumOf(Group(D, g, key, env))
    <2>1. env # ""
        BY DEF Named
    <2>2. PICK h : h = ShownCosts(SpansShown(env))
        OBVIOUS
    <2>3. ASSUME NEW s \in D
          PROVE  h[s] = IF key[s] = env THEN g[s] ELSE 0
        <3>1. h[s] = IF s \in SpansShown(env) /\ CostOfSpan[s] # Absent THEN CostOfSpan[s] ELSE 0
            BY <1>1, <2>2, CostsTyped
        <3>2. g[s] = IF s \in SpansShown("") /\ CostOfSpan[s] # Absent THEN CostOfSpan[s] ELSE 0
            BY <1>1, CostsTyped
        <3>3. s \in SpansShown(env) <=> s \in SpansShown("") /\ key[s] = env
            BY <2>1, PagesOfEnvironments DEF KeyIn
        <3> HIDE DEF g, key
        <3> QED
            BY <3>1, <3>2, <3>3
    <2>4. h = [s \in D |-> h[s]]
        BY <2>2 DEF ShownCosts
    <2>5. h = Group(D, g, key, env)
        <3> HIDE DEF g, D, key
        <3> QED
            BY <2>3, <2>4 DEF Group
    <2>6. CostOn(env) = SumOf(h)
        BY <2>2, CostOnPage
    <2> HIDE DEF g, D, key
    <2> QED
        BY <2>5, <2>6
<1>4. Added(SpansShown(""), CostOfSpan) =
          Added(With("environment", SpansShown(""), ""), CostOfSpan) + SumOf(Groups(D, g, key, Named))
    <2>1. KeysIn("environment", SpansShown(""), Named)
        BY PagesOfEnvironments DEF Named, KeysIn
    <2> QED
        BY <1>1, <2>1, CostsSplit
<1>5. [env \in Named |-> CostOn(env)] = GroupSums(D, g, key, Named)
    <2> HIDE DEF g, D, key
    <2> QED
        BY <1>3 DEF GroupSums
<1>6. SumOf(GroupSums(D, g, key, Named)) = SumOf(Groups(D, g, key, Named))
    <2> HIDE DEF g, D, key
    <2> QED
        BY <1>1, <1>2, Grouped
<1> HIDE DEF g, D, key
<1> QED
    BY <1>4, <1>5, <1>6

(* Percentiles are in order, and between the extremes, with the average. *)
LEMMA LatenciesOrdered ==
    ASSUME StatRows, NEW env
    PROVE  LatenciesInOrder(Statistics(env), Durations(env))
<1> SUFFICES ASSUME DOMAIN Durations(env) # {}
             PROVE  LatenciesInOrder(Statistics(env), Durations(env))
    BY DEF LatenciesInOrder
<1> DEFINE ids == ShownTraces(env)
           D == Given(ids, DurationOfTrace)
           values == Durations(env)
<1>1. IsFiniteSet(D) /\ D \subseteq DOMAIN statTraces /\ \A t \in D : DurationOfTrace[t] \in Int
    <2>1. D \subseteq ids
        BY DEF Given
    <2>2. ids \subseteq DOMAIN statTraces /\ IsFiniteSet(ids)
        BY FiguresTyped
    <2>3. \A t \in D : DurationOfTrace[t] # Absent
        BY DEF Given
    <2> HIDE DEF D, ids
    <2>4. \A t \in D : DurationOfTrace[t] \in Int
        BY <2>1, <2>2, <2>3, FiguresTyped
    <2> QED
        BY <2>1, <2>2, <2>4, FS_Subset
<1>2. values = [t \in D |-> DurationOfTrace[t]]
    BY DEF Durations, Values
<1> HIDE DEF D, values
<1>3. values \in [D -> Int] /\ DOMAIN values = D /\ D # {}
    BY <1>1, <1>2 DEF values
<1>4. PICK lowest \in Int : lowest = Min(Range(values)) /\ \A x \in Range(values) : lowest <= x
    BY <1>1, <1>3, ValuesFinite, Lowest
<1>5. PICK greatest \in Int : greatest = Max(Range(values)) /\ \A x \in Range(values) : x <= greatest
    BY <1>1, <1>3, ValuesFinite, Greatest
<1>6. \A p \in {50, 90, 95, 99} : p \in 0..99 /\ Statistics(env).percentiles[p] = PercentileOf(values, p)
    BY StatisticsAre DEF values
<1>7. Statistics(env).most = greatest
    BY <1>3, <1>5, StatisticsAre DEF values
<1>8. 100 * Min(Range(values)) <= Statistics(env).percentiles[50]
    BY <1>1, <1>3, <1>6, PercentileBounded
<1>9. Statistics(env).percentiles[99] <= 100 * Statistics(env).most
    <2>1. PercentileOf(values, 99) <= 100 * Max(Range(values))
        BY <1>1, <1>3, PercentileBounded
    <2> QED
        BY <1>5, <1>6, <1>7, <2>1
<1>10. ASSUME NEW p \in {50, 90, 95, 99}, NEW q \in {50, 90, 95, 99}, p <= q
       PROVE  Statistics(env).percentiles[p] <= Statistics(env).percentiles[q]
    <2>1. p \in 0..99 /\ q \in 0..99
        OBVIOUS
    <2>2. PercentileOf(values, p) <= PercentileOf(values, q)
        BY <1>1, <1>3, <1>10, <2>1, PercentilesInOrder
    <2> QED
        BY <1>6, <2>2
<1> DEFINE g == [t \in DOMAIN statTraces |-> IF t \in D THEN DurationOfTrace[t] ELSE 0]
<1>11. Statistics(env).average = [sum |-> SumOf(g), of |-> Cardinality(D)]
    BY StatisticsAre, FiguresTyped, ZenonT(30) DEF Average, Added, D
<1>12. Cardinality(D) * lowest <= SumOf(g) /\ SumOf(g) <= Cardinality(D) * greatest
    <2>1. g \in [DOMAIN statTraces -> Int]
        BY <1>1
    <2>2. \A t \in D : g[t] = DurationOfTrace[t] /\ DurationOfTrace[t] \in Range(values)
        BY <1>1, <1>2, <1>3 DEF Range
    <2>3. \A t \in DOMAIN statTraces \ D : g[t] = 0
        OBVIOUS
    <2>4. IsFiniteSet(DOMAIN statTraces)
        BY FiguresTyped
    <2> HIDE DEF g
    <2>5. \A t \in D : lowest <= g[t] /\ g[t] <= greatest
        BY <1>4, <1>5, <2>2
    <2> QED
        BY <1>1, <2>1, <2>3, <2>4, <2>5, AverageBetween
<1> HIDE DEF g
<1>13. Statistics(env).average.sum = SumOf(g) /\ Statistics(env).average.of = Cardinality(D)
    BY <1>11
<1>14. /\ Statistics(env).average.of * Min(Range(values)) <= Statistics(env).average.sum
       /\ Statistics(env).average.sum <= Statistics(env).average.of * Statistics(env).most
    BY <1>4, <1>5, <1>7, <1>12, <1>13
<1>15. DOMAIN Statistics(env).percentiles = {50, 90, 95, 99}
    BY StatisticsAre
<1> QED
    BY <1>8, <1>9, <1>10, <1>14, <1>15 DEF LatenciesInOrder, values

LEMMA FiguresFit ==
    ASSUME StatRows
    PROVE  StatisticsAddUp
<1> DEFINE all == Statistics("")
           spans == SpansShown("")
<1>0. \A env : SpansShown(env) \subseteq DOMAIN statSpans
    BY FiguresTyped
<1>1. all.total = Cardinality(Nameless) + SumOf([env \in Named |-> Statistics(env).total])
    BY TotalsAddUp
<1>2. all.total # 0 => all.cost = Added(spans, CostOfSpan)
    BY TotalsEmpty, StatisticsAre
<1>3. /\ Keyless("environment") = With("environment", spans, "") /\ Keyless("model") = With("model", spans, "")
      /\ Keyless("provider") = With("provider", spans, "")
    BY DEF Keyless, With
<1>4. /\ all.models = Breakdown("model", spans) /\ all.providers = Breakdown("provider", spans)
      /\ all.environments = Breakdown("environment", spans)
    BY StatisticsAre
<1>5. Added(spans, CostOfSpan) = Added(Keyless("environment"), CostOfSpan) + SumOf([env \in Named |-> CostOn(env)])
    BY <1>3, CostsAddUp
<1>6. /\ Added(spans, CostOfSpan) = Added(Keyless("environment"), CostOfSpan) + CostOfAll(all.environments)
      /\ Added(spans, CostOfSpan) = Added(Keyless("model"), CostOfSpan) + CostOfAll(all.models)
      /\ Added(spans, CostOfSpan) = Added(Keyless("provider"), CostOfSpan) + CostOfAll(all.providers)
    BY <1>0, <1>3, <1>4, BreakdownsAccount
<1>7. DOMAIN all.environments = {KeyOf("environment", s) : s \in spans} \ {""}
    BY <1>0, <1>4, BreakdownCosts
<1>8. DOMAIN all.environments \subseteq Named
    BY <1>7, PagesOfEnvironments, ZenonT(30)
<1>9. ASSUME NEW env \in DOMAIN all.environments
      PROVE  all.environments[env].cost = CostPerRequest(env).cost
    <2>1. PICK s \in spans : KeyOf("environment", s) = env /\ env # ""
        BY <1>7
    <2>2. SpansShown(env) = With("environment", spans, env)
        BY <2>1, PagesOfEnvironments DEF With
    <2>3. all.environments[env].cost = Added(With("environment", spans, env), CostOfSpan)
        <3>1. env \in DOMAIN Breakdown("environment", spans)
            BY <1>4
        <3>2. spans \subseteq DOMAIN statSpans
            BY <1>0
        <3> HIDE DEF spans
        <3>3. Breakdown("environment", spans)[env].cost = Added(With("environment", spans, env), CostOfSpan)
            BY <3>1, <3>2, BreakdownCosts
        <3> QED
            BY <1>4, <3>3
    <2>4. ShownTraces(env) # {}
        BY <2>1, <2>2, PagesOfEnvironments DEF With
    <2>5. Statistics(env).total # 0 /\ Statistics(env).cost = Added(SpansShown(env), CostOfSpan)
        BY <2>4, TotalsEmpty, StatisticsAre
    <2> QED
        BY <2>2, <2>3, <2>5 DEF CostPerRequest
<1>10. \A env : LatenciesInOrder(Statistics(env), Durations(env))
    BY LatenciesOrdered
<1> QED
    <2> HIDE DEF all, spans
    <2>1. [env \in Named |-> CostOn(env)] = [env \in Named |-> IF Statistics(env).total = 0 THEN 0 ELSE Statistics(env).cost]
        BY DEF CostOn
    <2> QED
        BY <1>1, <1>2, <1>5, <1>6, <1>8, <1>9, <1>10, <2>1 DEF StatisticsAddUp, all

(* The figures of the dashboards fit together whatever rows arrived, in whatever
   order (services/observability.py:192-466). *)
THEOREM TheStatisticsAddUp == TraceStatisticsSpec => []StatisticsAddUp
BY StatRowsHold, FiguresFit, PTL
=============================================================================
