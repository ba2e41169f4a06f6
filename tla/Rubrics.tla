------------------------------ MODULE Rubrics ------------------------------
(***************************************************************************)
(* The rubrics of a project: families of versions under a name, the edits   *)
(* an unused rubric allows, and the evaluation runs that freeze a copy.     *)
(* services/rubric.py, repositories/rubric.py, models/rubric.py and         *)
(* services/evaluation.py create.                                           *)
(*                                                                          *)
(* A request reads in one step and commits in another: no lock is taken and *)
(* no constraint covers (name, version).  create reads twice: the newest    *)
(* version, and the active rubrics of other versions, which it archives.    *)
(***************************************************************************)
EXTENDS Integers, FiniteSets, SequencesExt, FiniteSetsExt

CONSTANTS
    RubricNames,     \* names of families
    CriteriaLists,   \* lists of criteria, their weights normalized
    Requesters,      \* requests: each creates, updates or starts one evaluation
    MaxRubrics       \* bound on the rows

ASSUME RubricsAssumption == MaxRubrics \in Nat

VARIABLES
    rubrics,      \* rubrics rows, in order of insertion
    requests,     \* the requests and what they read
    judgedRuns,   \* evaluation runs: the rubric and the frozen copy
    disorder,     \* observer: names whose last writer did not see the whole family
    rewritten     \* observer: rubrics updated by a request that saw them unused

rubricVars == <<rubrics, requests, judgedRuns, disorder, rewritten>>
-----------------------------------------------------------------------------
Ids == DOMAIN rubrics
Family(name) == {i \in Ids : rubrics[i].name = name}
ActiveRubrics(name) == {i \in Family(name) : rubrics[i].status = "ACTIVE"}
MaxVersion(name) == IF Family(name) = {} THEN 0 ELSE Max({rubrics[i].version : i \in Family(name)})
IsUsed(i) == \E e \in judgedRuns : e.rubric = i

Idle == [act |-> "idle", rubric |-> 0, name |-> "", criteria |-> "", version |-> 0,
         older |-> {}, family |-> {}, used |-> FALSE]

(* A column an update leaves alone. *)
Untouched == "kept"

RubricsInit ==
    /\ rubrics = <<>> /\ judgedRuns = {} /\ disorder = {} /\ rewritten = {}
    /\ requests = [u \in Requesters |-> Idle]

(* RubricService.create reads the newest version ... *)
ReadFamily(u) ==
    /\ requests[u].act = "idle"
    /\ \E n \in RubricNames, c \in CriteriaLists :
          requests' = [requests EXCEPT ![u] =
              [act |-> "create", rubric |-> 0, name |-> n, criteria |-> c,
               version |-> MaxVersion(n) + 1, older |-> {}, family |-> Family(n), used |-> FALSE]]
    /\ UNCHANGED <<rubrics, judgedRuns, disorder, rewritten>>

(* ... then the active rubrics of other versions; family is what both reads saw ... *)
ListOlder(u) ==
    LET r == requests[u]
        others == {i \in Family(r.name) : rubrics[i].version # r.version}
    IN /\ r.act = "create"
       /\ requests' = [requests EXCEPT ![u] =
              [act |-> "archive", rubric |-> 0, name |-> r.name, criteria |-> r.criteria, version |-> r.version,
               older |-> others \cap ActiveRubrics(r.name), family |-> r.family \cap others, used |-> FALSE]]
       /\ UNCHANGED <<rubrics, judgedRuns, disorder, rewritten>>

(* ... and commits the new version with the archived ones. *)
InsertRubric(u) ==
    LET r == requests[u] IN
    /\ r.act = "archive" /\ Len(rubrics) < MaxRubrics
    /\ rubrics' = Append([i \in Ids |-> IF i \in r.older THEN [rubrics[i] EXCEPT !.status = "ARCHIVED"]
                                        ELSE rubrics[i]],
                         [name |-> r.name, version |-> r.version, criteria |-> r.criteria, status |-> "ACTIVE"])
    /\ requests' = [requests EXCEPT ![u] = [Idle EXCEPT !.act = "done"]]
    /\ disorder' = IF Family(r.name) \subseteq r.family THEN disorder \ {r.name} ELSE disorder \union {r.name}
    /\ UNCHANGED <<judgedRuns, rewritten>>

(* update reads whether a run uses the rubric, and which columns it changes ... *)
Edit(i) ==
    [act : {"update"}, rubric : {i}, name : (RubricNames \union {Untouched}) \ {rubrics[i].name},
     criteria : (CriteriaLists \union {Untouched}) \ {rubrics[i].criteria},
     version : {0}, older : {{}}, family : {{}}, used : {IsUsed(i)}]
ReadUnchecked(u) ==
    /\ requests[u].act = "idle"
    /\ \E i \in Ids : \E r \in Edit(i) : requests' = [requests EXCEPT ![u] = r]
    /\ UNCHANGED <<rubrics, judgedRuns, disorder, rewritten>>
ReadForUpdate(u) ==
    /\ requests[u].act = "idle"
    /\ \E i \in Ids : ~IsUsed(i) /\ \E r \in Edit(i) : requests' = [requests EXCEPT ![u] = r]
    /\ UNCHANGED <<rubrics, judgedRuns, disorder, rewritten>>

(* ... and writes them, so a rubric may change families. *)
UpdateRubric(u) ==
    LET r == requests[u]
        copied == \E w \in Requesters : requests[w].act = "judge" /\ requests[w].rubric = r.rubric
    IN /\ r.act = "update"
       /\ rubrics' = [rubrics EXCEPT ![r.rubric].name = IF r.name = Untouched THEN @ ELSE r.name,
                                     ![r.rubric].criteria = IF r.criteria = Untouched THEN @ ELSE r.criteria]
       /\ requests' = [requests EXCEPT ![u] = [Idle EXCEPT !.act = "done"]]
       /\ disorder' = IF r.name = Untouched THEN disorder ELSE disorder \union {r.name}
       /\ rewritten' = IF ~r.used /\ (IsUsed(r.rubric) \/ copied) THEN rewritten \union {r.rubric} ELSE rewritten
       /\ UNCHANGED judgedRuns

ArchiveRubric(i) ==
    /\ rubrics[i].status = "ACTIVE"
    /\ rubrics' = [rubrics EXCEPT ![i].status = "ARCHIVED"]
    /\ UNCHANGED <<requests, judgedRuns, disorder, rewritten>>

(* EvaluationService.create copies an active rubric ... *)
CopyRubric(u) ==
    /\ requests[u].act = "idle"
    /\ \E i \in Ids :
          /\ rubrics[i].status = "ACTIVE"
          /\ requests' = [requests EXCEPT ![u] = [Idle EXCEPT !.act = "judge", !.rubric = i,
                              !.name = rubrics[i].name, !.criteria = rubrics[i].criteria]]
    /\ UNCHANGED <<rubrics, judgedRuns, disorder, rewritten>>

(* ... into the run it commits. *)
StoreRun(u) ==
    LET r == requests[u] IN
    /\ r.act = "judge"
    /\ judgedRuns' = judgedRuns \union {[rubric |-> r.rubric, name |-> r.name, criteria |-> r.criteria]}
    /\ requests' = [requests EXCEPT ![u] = [Idle EXCEPT !.act = "done"]]
    /\ UNCHANGED <<rubrics, disorder, rewritten>>

RubricsNext ==
    \/ \E u \in Requesters : \/ ReadFamily(u) \/ ListOlder(u) \/ InsertRubric(u)
                             \/ ReadForUpdate(u) \/ UpdateRubric(u)
                             \/ CopyRubric(u) \/ StoreRun(u)
    \/ \E i \in Ids : ArchiveRubric(i)

RubricsSpec == RubricsInit /\ [][RubricsNext]_rubricVars
-----------------------------------------------------------------------------
(* However creations, edits, archivings and evaluations interleave: a family
   whose last creation saw all of it shows at most one active rubric, until one
   is renamed into it, so the next creation that overlaps no other repairs what
   two overlapping ones left; and a rubric that a run was graded with still says
   what that run froze, unless an edit of it that had begun before the run was
   committed came after ("immutable", services/rubric.py:105). *)
RubricsAreVersioned ==
    /\ \A n \in RubricNames \ disorder : Cardinality(ActiveRubrics(n)) <= 1
    /\ \A e \in judgedRuns :
          e.rubric \notin rewritten =>
              rubrics[e.rubric].name = e.name /\ rubrics[e.rubric].criteria = e.criteria
=============================================================================
