------------------------------- MODULE Retention -------------------------------
(* Retention policies, legal holds and the cleanup that applies them
   (services/retention_service.py, the worker's execute_centralized_retention).

   A cleanup is one transaction: an API request cleans one organization, the
   worker's job one organization after the other. It reads policies and holds of
   an organization first and then deletes by them; nothing locks a hold. *)
EXTENDS Integers, Sequences, FiniteSets

CONSTANTS Orgs, Records, RecordOrg, RecordKind, \* who owns a record, "candidates" or "traces"
          PolicyKinds, Days,                    \* the resource types and retention times users write
          PolicyWriters, Cleaners,                   \* requests that create policies, that clean up
          MaxRules, MaxHolds, MaxCleanups

VARIABLES today, present, rules, writing, holds, cleanup, cleanups, wiped, crowded

retentionVars == <<today, present, rules, writing, holds, cleanup, cleanups, wiped, crowded>>

NoCleanup == [at |-> "idle", orgs |-> {}, org |-> "", todo |-> {}, seen |-> 0, gone |-> {},
              job |-> FALSE, dry |-> FALSE]
NotWriting == [org |-> "", kind |-> "", days |-> 0, seen |-> {}]

RetentionInit ==
    /\ today = 0 /\ present = Records
    /\ rules = <<>> /\ writing = [q \in PolicyWriters |-> NotWriting] /\ holds = <<>>
    /\ cleanup = [c \in Cleaners |-> NoCleanup] /\ cleanups = 0
    /\ wiped = {} /\ crowded = {}

(* Two spellings name one table. *)
Table(kind) == IF kind \in {"trace", "traces"} THEN "traces" ELSE "candidates"

RulesOf(org, kind) == {i \in DOMAIN rules : rules[i].org = org /\ rules[i].kind = kind}

DayPasses ==
    /\ \E d \in Days : today <= d
    /\ today' = today + 1
    /\ UNCHANGED <<present, rules, writing, holds, cleanup, cleanups, wiped, crowded>>

(* scalar_one_or_none raises as soon as the type has two versions. *)
ReadRules(q, org, kind, days) ==
    /\ writing[q] = NotWriting /\ Cardinality(RulesOf(org, kind)) <= 1
    /\ writing' = [writing EXCEPT ![q] = [org |-> org, kind |-> kind, days |-> days, seen |-> RulesOf(org, kind)]]
    /\ UNCHANGED <<today, present, rules, holds, cleanup, cleanups, wiped, crowded>>

CreateRule(q) ==
    /\ writing[q] # NotWriting /\ Len(rules) < MaxRules
    /\ LET w == writing[q]
       IN /\ rules' = Append([i \in DOMAIN rules |-> [rules[i] EXCEPT !.active = @ /\ i \notin w.seen]],
                             [org |-> w.org, kind |-> w.kind, days |-> w.days, active |-> TRUE])
          /\ crowded' = IF RulesOf(w.org, w.kind) = w.seen THEN crowded
                        ELSE crowded \union {<<w.org, w.kind>>}
    /\ writing' = [writing EXCEPT ![q] = NotWriting]
    /\ UNCHANGED <<today, present, holds, cleanup, cleanups, wiped>>

PlaceHold(org, kind, target) ==
    /\ Len(holds) < MaxHolds
    /\ holds' = Append(holds, [org |-> org, kind |-> kind, target |-> target, active |-> TRUE])
    /\ UNCHANGED <<today, present, rules, writing, cleanup, cleanups, wiped, crowded>>

ReleaseHold(i) ==
    /\ i \in DOMAIN holds /\ holds[i].active
    /\ holds' = [holds EXCEPT ![i].active = FALSE]
    /\ UNCHANGED <<today, present, rules, writing, cleanup, cleanups, wiped, crowded>>

(* One organization by request, all of them by the worker. *)
StartCleanup(c, orgs, job, dry) ==
    /\ cleanup[c].at = "idle" /\ cleanups < MaxCleanups
    /\ cleanups' = cleanups + 1
    /\ cleanup' = [cleanup EXCEPT ![c] = [NoCleanup EXCEPT !.at = "next", !.orgs = orgs, !.job = job, !.dry = dry]]
    /\ UNCHANGED <<today, present, rules, writing, holds, wiped, crowded>>

ReadOrganization(c, org) ==
    /\ cleanup[c].at = "next" /\ org \in cleanup[c].orgs
    /\ cleanup' = [cleanup EXCEPT
           ![c].at = "delete", ![c].orgs = @ \ {org}, ![c].org = org, ![c].seen = Len(holds),
           ![c].todo = {[kind |-> rules[i].kind, days |-> rules[i].days,
                         held |-> {holds[h].target : h \in {x \in DOMAIN holds :
                                     holds[x].active /\ holds[x].org = org /\ holds[x].kind = rules[i].kind}}] :
                        i \in {x \in DOMAIN rules : rules[x].active /\ rules[x].org = org}}]
    /\ UNCHANGED <<today, present, rules, writing, holds, cleanups, wiped, crowded>>

(* Selected by age alone, whoever owns the record. *)
Expired(c, rule) ==
    {r \in present \ {g.record : g \in cleanup[c].gone} : RecordKind[r] = Table(rule.kind) /\ today > rule.days}

EligibleById(c, rule) == {r \in Expired(c, rule) : r \notin rule.held}

Eligible(c, rule) == {r \in Expired(c, rule) : "*" \notin rule.held /\ r \notin rule.held}

(* Policies come in the order of their type: "candidates" and "generated_candidates"
   before "trace" and "traces". *)
InOrder(todo, rule) ==
    Table(rule.kind) = "traces" => \A other \in todo : Table(other.kind) = "traces"

Work(c, rule) ==
    /\ cleanup[c].at = "delete" /\ rule \in cleanup[c].todo /\ InOrder(cleanup[c].todo, rule)

(* The deletion is the transaction's own until it commits. *)
ApplyRule(c, rule) ==
    /\ Work(c, rule)
    /\ cleanup[c].dry \/ Table(rule.kind) = "candidates" \/ Eligible(c, rule) = {}
    /\ cleanup' = [cleanup EXCEPT ![c].todo = @ \ {rule},
           ![c].gone = IF cleanup[c].dry THEN @
                       ELSE @ \union {[record |-> r, org |-> cleanup[c].org, kind |-> rule.kind,
                                       seen |-> cleanup[c].seen] : r \in Eligible(c, rule)}]
    /\ UNCHANGED <<today, present, rules, writing, holds, cleanups, wiped, crowded>>

NextOrganization(c) ==
    /\ cleanup[c].at = "delete" /\ cleanup[c].todo = {}
    /\ cleanup' = [cleanup EXCEPT ![c].at = IF cleanup[c].orgs = {} THEN "commit" ELSE "next"]
    /\ UNCHANGED <<today, present, rules, writing, holds, cleanups, wiped, crowded>>

(* The spans of eligible traces are sought by UUIDs in a column of strings, which
   the drivers refuse. A request rolls back; the worker goes on to the next
   organization, with what it deleted so far (SQLite) or in a transaction that
   can no longer commit (PostgreSQL). *)
FailOnTraces(c, rule) ==
    /\ Work(c, rule) /\ ~cleanup[c].dry /\ Table(rule.kind) = "traces" /\ Eligible(c, rule) # {}
    /\ \/ cleanup' = [cleanup EXCEPT ![c] = NoCleanup]
       \/ cleanup[c].job /\ cleanup' = [cleanup EXCEPT ![c].todo = {}]
    /\ UNCHANGED <<today, present, rules, writing, holds, cleanups, wiped, crowded>>

CommitCleanup(c) ==
    /\ cleanup[c].at = "commit"
    /\ LET gone == {g \in cleanup[c].gone : g.record \in present}
       IN /\ present' = present \ {g.record : g \in gone}
          /\ wiped' = wiped \union gone
    /\ cleanup' = [cleanup EXCEPT ![c] = NoCleanup]
    /\ UNCHANGED <<today, rules, writing, holds, cleanups, crowded>>

AbortCleanup(c) ==
    /\ cleanup[c].at # "idle"
    /\ cleanup' = [cleanup EXCEPT ![c] = NoCleanup]
    /\ UNCHANGED <<today, present, rules, writing, holds, cleanups, wiped, crowded>>

RetentionNext ==
    \/ DayPasses
    \/ \E q \in PolicyWriters : CreateRule(q) \/ \E org \in Orgs, kind \in PolicyKinds, days \in Days : ReadRules(q, org, kind, days)
    \/ \E org \in Orgs, kind \in PolicyKinds, target \in Records \union {"*"} : PlaceHold(org, kind, target)
    \/ \E i \in DOMAIN holds : ReleaseHold(i)
    \/ \E c \in Cleaners :
         \/ \E dry \in BOOLEAN : StartCleanup(c, Orgs, TRUE, dry) \/ \E org \in Orgs : StartCleanup(c, {org}, FALSE, dry)
         \/ \E org \in Orgs : ReadOrganization(c, org)
         \/ \E rule \in cleanup[c].todo : ApplyRule(c, rule) \/ FailOnTraces(c, rule)
         \/ NextOrganization(c) \/ CommitCleanup(c) \/ AbortCleanup(c)

RetentionSpec == RetentionInit /\ [][RetentionNext]_retentionVars
-----------------------------------------------------------------------------
Covers(hold, record) == hold.active /\ hold.target \in {record, "*"}

(* A cleanup deletes no record under a hold of its own organization and of the
   policy's own type that stood when the cleanup read the holds and still stands;
   and a type has one policy in force unless two requests created one at once, after
   which it can never get another. execute_retention_cleanup, create_policy. *)
HoldsRespected ==
    /\ \A w \in wiped, i \in DOMAIN holds :
          i <= w.seen /\ Covers(holds[i], w.record) => holds[i].org # w.org \/ holds[i].kind # w.kind
    /\ \A org \in Orgs, kind \in PolicyKinds :
          LET inForce == {i \in RulesOf(org, kind) : rules[i].active}
          IN Cardinality(inForce) > 1 =>
                <<org, kind>> \in crowded /\ Cardinality(RulesOf(org, kind)) > 1

(* "resources under active legal hold are NEVER deleted": a record that its own
   organization holds, from before the cleanup read the holds until now, is there. *)
HeldIsKept ==
    \A w \in wiped, i \in DOMAIN holds :
        i <= w.seen /\ Covers(holds[i], w.record) => RecordOrg[w.record] # holds[i].org
                                                     \/ Table(holds[i].kind) # RecordKind[w.record]
=============================================================================
