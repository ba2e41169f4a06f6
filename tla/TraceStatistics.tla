---------------------------- MODULE TraceStatistics ----------------------------
(***************************************************************************)
(* The figures the dashboards show of the traces of a project:              *)
(* _percentile, _load_stats and what is read from them in                   *)
(* services/observability.py.  Rows arrive one at a time; the figures are   *)
(* functions of the rows, which are referred to by position.  Costs are in  *)
(* small integers, and stand for tokens too, which are summed in the same   *)
(* places.  Figures that the code divides are multiplied out: percentiles   *)
(* by 100.                                                                  *)
(***************************************************************************)
EXTENDS Integers, Sequences, FiniteSetsExt, TLC

CONSTANTS
    Absent,       \* a column that is null
    TraceForms,   \* what a trace can be
    SpanForms,    \* what a span can be
    MaxTraces,    \* bound on the traces of the project
    MaxStatSpans  \* bound on the spans of all of them

(* Nothing keeps a client from reporting negative durations or tokens, which are
   priced as they are (calculate_span_cost). *)
ASSUME TraceStatisticsAssumption ==
    /\ Absent \notin Int /\ MaxTraces \in Nat /\ MaxStatSpans \in Nat
    /\ TraceForms \subseteq [env : STRING, error : BOOLEAN, duration : Int \union {Absent}, within : BOOLEAN]
    /\ SpanForms \subseteq [llm : BOOLEAN, model : STRING, provider : STRING, error : BOOLEAN,
                            cost : Int \union {Absent}, duration : Int \union {Absent}]

VARIABLES
    statTraces,   \* the rows of the project, whatever their time
    statSpans     \* rows with the number of their trace in statTraces

statVars == <<statTraces, statSpans>>
-----------------------------------------------------------------------------
TraceStatisticsInit == statTraces = <<>> /\ statSpans = <<>>

StoreTrace ==
    /\ Len(statTraces) < MaxTraces
    /\ \E form \in TraceForms : statTraces' = Append(statTraces, form)
    /\ UNCHANGED statSpans

StoreSpan ==
    /\ Len(statSpans) < MaxStatSpans
    /\ \E form \in SpanForms, t \in DOMAIN statTraces : statSpans' = Append(statSpans, [trace |-> t, row |-> form])
    /\ UNCHANGED statTraces

TraceStatisticsNext == StoreTrace \/ StoreSpan

TraceStatisticsSpec == TraceStatisticsInit /\ [][TraceStatisticsNext]_statVars
-----------------------------------------------------------------------------
SumOf(f) == FoldFunction(+, 0, f)

(* A column of some of the rows: nulls are left out, and add nothing. *)
Given(ids, column) == {i \in ids : column[i] # Absent}
Values(ids, column) == [i \in Given(ids, column) |-> column[i]]
Added(ids, column) == SumOf([i \in DOMAIN column |-> IF i \in Given(ids, column) THEN column[i] ELSE 0])
Average(ids, column) == [sum |-> Added(ids, column), of |-> Cardinality(Given(ids, column))]

DurationOfTrace == [t \in DOMAIN statTraces |-> statTraces[t].duration]
DurationOfSpan == [s \in DOMAIN statSpans |-> statSpans[s].row.duration]
CostOfSpan == [s \in DOMAIN statSpans |-> statSpans[s].row.cost]

(* What stands at a place, counted from 0, when the values are sorted. *)
Sorted(values, place) ==
    CHOOSE v \in Range(values) :
        /\ Cardinality({i \in DOMAIN values : values[i] < v}) <= place
        /\ Cardinality({i \in DOMAIN values : values[i] <= v}) > place

(* Interpolated between the two values around place percent/100 * (n - 1). *)
PercentileOf(values, percent) ==
    LET place == (Cardinality(DOMAIN values) - 1) * percent
        share == place % 100
    IN IF DOMAIN values = {} THEN Absent
       ELSE Sorted(values, place \div 100) * (100 - share) + Sorted(values, (place + 99) \div 100) * share

(* The upper neighbour left out. *)
PercentileBelow(values, percent) ==
    IF DOMAIN values = {} THEN Absent
    ELSE 100 * Sorted(values, ((Cardinality(DOMAIN values) - 1) * percent) \div 100)

(* The traces in the time asked for; "" asks for every environment, and is also
   what a trace may call its own. *)
ShownTraces(env) == {t \in DOMAIN statTraces : statTraces[t].within /\ env \in {"", statTraces[t].env}}

SpansOfProject(env) == DOMAIN statSpans
SpansShown(env) == {s \in DOMAIN statSpans : statSpans[s].trace \in ShownTraces(env)}

(* One entry for each key that a span has: requests are spans here, not traces. *)
Slice(spans) ==
    [requests |-> Cardinality(spans), errors |-> Cardinality({s \in spans : statSpans[s].row.error}),
     cost |-> Added(spans, CostOfSpan), average |-> Average(spans, DurationOfSpan)]

ModelOf(s) == IF statSpans[s].row.llm THEN statSpans[s].row.model ELSE ""
ProviderOf(s) == IF statSpans[s].row.llm THEN statSpans[s].row.provider ELSE ""
EnvironmentOf(s) == statTraces[statSpans[s].trace].env

KeyOf(kind, s) ==
    CASE kind = "model" -> ModelOf(s)
      [] kind = "provider" -> ProviderOf(s)
      [] kind = "environment" -> EnvironmentOf(s)

Breakdown(kind, spans) ==
    [k \in {KeyOf(kind, s) : s \in spans} \ {""} |-> Slice({s \in spans : KeyOf(kind, s) = k})]

Durations(env) == Values(ShownTraces(env), DurationOfTrace)

(* Nothing is computed without a trace. *)
Statistics(env) ==
    LET shown == ShownTraces(env)
        spans == SpansShown(env)
        durations == Durations(env)
    IN [total |-> Cardinality(shown),
        errors |-> Cardinality({t \in shown : statTraces[t].error}),
        cost |-> IF shown = {} THEN Absent ELSE Added(spans, CostOfSpan),
        percentiles |-> [p \in {50, 90, 95, 99} |-> PercentileOf(durations, p)],
        average |-> Average(shown, DurationOfTrace),
        most |-> IF DOMAIN durations = {} THEN Absent ELSE Max(Range(durations)),
        models |-> Breakdown("model", spans),
        providers |-> Breakdown("provider", spans),
        environments |-> Breakdown("environment", spans)]

(* What the cost page adds: the cost of a request, of which there is none without any. *)
CostPerRequest(env) ==
    LET stats == Statistics(env)
    IN IF stats.total = 0 THEN [cost |-> Absent, of |-> 0] ELSE [cost |-> stats.cost, of |-> stats.total]
-----------------------------------------------------------------------------
Named == {statTraces[t].env : t \in DOMAIN statTraces} \ {""}
Nameless == {t \in ShownTraces("") : statTraces[t].env = ""}

(* What a breakdown leaves out. *)
Keyless(kind) == {s \in SpansShown("") : KeyOf(kind, s) = ""}

CostOfAll(breakdown) == SumOf([k \in DOMAIN breakdown |-> breakdown[k].cost])

(* Percentiles are in order and between the least and the greatest duration; so is
   the average. *)
LatenciesInOrder(stats, durations) ==
    DOMAIN durations # {} =>
        /\ 100 * Min(Range(durations)) <= stats.percentiles[50]
        /\ \A p, q \in DOMAIN stats.percentiles : p <= q => stats.percentiles[p] <= stats.percentiles[q]
        /\ stats.percentiles[99] <= 100 * stats.most
        /\ stats.average.of * Min(Range(durations)) <= stats.average.sum
        /\ stats.average.sum <= stats.average.of * stats.most

(* The figures of the dashboards fit together: the pages filtered by environment
   and what has none add up to the unfiltered page, so does each breakdown with
   what has no key, that by environment agrees with the filtered pages, and the
   latencies are in order (services/observability.py:192-466). *)
StatisticsAddUp ==
    statTraces # <<>> =>
    LET all == Statistics("")
        CostIn(env) == IF Statistics(env).total = 0 THEN 0 ELSE Statistics(env).cost
        Rest(kind) == Added(Keyless(kind), CostOfSpan)
    IN /\ all.total = Cardinality(Nameless) + SumOf([env \in Named |-> Statistics(env).total])
       /\ all.total # 0 =>
             /\ all.cost = Rest("environment") + SumOf([env \in Named |-> CostIn(env)])
             /\ all.cost = Rest("environment") + CostOfAll(all.environments)
             /\ all.cost = Rest("model") + CostOfAll(all.models)
             /\ all.cost = Rest("provider") + CostOfAll(all.providers)
       /\ DOMAIN all.environments \subseteq Named
       /\ \A env \in DOMAIN all.environments : all.environments[env].cost = CostPerRequest(env).cost
       /\ \A env \in Named \union {""} : LatenciesInOrder(Statistics(env), Durations(env))
=============================================================================
