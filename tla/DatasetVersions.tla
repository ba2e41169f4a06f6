--------------------------- MODULE DatasetVersions --------------------------
(***************************************************************************)
(* Versions of one dataset: services/dataset.py imports records (uploaded   *)
(* files and approved generated candidates) as immutable, numbered versions *)
(* with a canonical artifact in object storage.                             *)
(*                                                                          *)
(* An import reads the highest number, writes the artifact under a key made *)
(* of the next number, and inserts the version and its test cases in one    *)
(* transaction.  When another import took the number first, it deletes the  *)
(* artifact and tries again.  Storage takes no part in the transaction.  A  *)
(* step is one statement sent to the database or to the storage.            *)
(***************************************************************************)
EXTENDS Integers, FiniteSets

CONSTANTS
    Imports,      \* import requests
    Contents,     \* canonical record lists
    Content,      \* [Imports -> Contents], what each request imports
    MaxAttempts   \* _MAX_IMPORT_ATTEMPTS (3)

ASSUME DatasetAssumption ==
    /\ IsFiniteSet(Imports)
    /\ Content \in [Imports -> Contents]
    /\ MaxAttempts \in Nat \ {0}

VARIABLES
    status,     \* datasets.status
    versions,   \* committed rows of dataset_versions
    artifact,   \* object storage: what is stored under each version's key
    phase,      \* where each import is
    number,     \* version_number of its current attempt, 0 before the first
    attempts,   \* attempts it has lost
    raced       \* observer: numbers that two imports were working on at once

import == <<phase, number, attempts>>
vars == <<status, versions, artifact, import, raced>>
-----------------------------------------------------------------------------
Numbers == 1 .. Cardinality(Imports)
Absent == "ABSENT"
Version == [number : Numbers, by : Imports]
Working == {"numbered", "stored", "inserted", "conflict"}
Phase == {"new", "checked", "done", "refused", "failed"} \cup Working

Used == {v.number : v \in versions}
LatestNumber == CHOOSE n \in Used \cup {0} : \A m \in Used : m <= n

(* max_version_number(dataset_id) + 1 *)
NextNumber(i) == LatestNumber + 1

TypeOK ==
    /\ status \in {"ACTIVE", "ARCHIVED"}
    /\ versions \subseteq Version
    /\ artifact \in [Numbers -> Contents \cup {Absent}]
    /\ phase \in [Imports -> Phase]
    /\ number \in [Imports -> Numbers \cup {0}]
    /\ attempts \in [Imports -> 0 .. MaxAttempts]
    /\ raced \subseteq Numbers

Init ==
    /\ status = "ACTIVE" /\ versions = {}
    /\ artifact = [n \in Numbers |-> Absent]
    /\ phase = [i \in Imports |-> "new"]
    /\ number = [i \in Imports |-> 0] /\ attempts = [i \in Imports |-> 0]
    /\ raced = {}

Becomes(i, p) == phase' = [phase EXCEPT ![i] = p]
-----------------------------------------------------------------------------
(* archive, and update with a status *)
SetStatus(s) ==
    /\ status # s
    /\ status' = s
    /\ UNCHANGED <<versions, artifact, import, raced>>

(* create_version, create_version_from_records: the only look at the status *)
Check(i) ==
    /\ phase[i] = "new" /\ status # "ARCHIVED"
    /\ Becomes(i, "checked")
    /\ UNCHANGED <<status, versions, artifact, number, attempts, raced>>

Refuse(i) ==
    /\ phase[i] = "new" /\ status = "ARCHIVED"
    /\ Becomes(i, "failed")
    /\ UNCHANGED <<status, versions, artifact, number, attempts, raced>>

Rivals(i, n) == {k \in Imports \ {i} : phase[k] \in Working /\ number[k] = n}

(* the head of an attempt: read the highest committed number *)
Number(i) ==
    /\ phase[i] = "checked"
    /\ number' = [number EXCEPT ![i] = NextNumber(i)]
    /\ raced' = IF Rivals(i, NextNumber(i)) = {} THEN raced ELSE raced \cup {NextNumber(i)}
    /\ Becomes(i, "numbered")
    /\ UNCHANGED <<status, versions, artifact, attempts>>

PutIfAbsent(i) ==
    /\ phase[i] = "numbered"
    /\ artifact' = IF artifact[number[i]] = Absent
                   THEN [artifact EXCEPT ![number[i]] = Content[i]] ELSE artifact
    /\ Becomes(i, "stored")
    /\ UNCHANGED <<status, versions, number, attempts, raced>>

(* storage.put overwrites what is there *)
Put(i) ==
    /\ phase[i] = "numbered"
    /\ artifact' = [artifact EXCEPT ![number[i]] = Content[i]]
    /\ Becomes(i, "stored")
    /\ UNCHANGED <<status, versions, number, attempts, raced>>

InsertUnchecked(i) ==
    /\ phase[i] = "stored"
    /\ Becomes(i, "inserted")
    /\ UNCHANGED <<status, versions, artifact, number, attempts, raced>>

(* INSERT of the version row: it waits while another transaction holds the
   number, and raises IntegrityError once that one has committed it. *)
Insert(i) ==
    /\ phase[i] = "stored"
    /\ \A k \in Rivals(i, number[i]) : phase[k] # "inserted"
    /\ Becomes(i, IF number[i] \in Used THEN "conflict" ELSE "inserted")
    /\ UNCHANGED <<status, versions, artifact, number, attempts, raced>>

(* test cases, audit and commit *)
Commit(i) ==
    /\ phase[i] = "inserted"
    /\ versions' = versions \cup {[number |-> number[i], by |-> i]}
    /\ Becomes(i, "done")
    /\ UNCHANGED <<status, artifact, number, attempts, raced>>

RetrySameNumber(i) ==
    /\ phase[i] = "conflict"
    /\ Becomes(i, "stored")
    /\ UNCHANGED <<status, versions, artifact, number, attempts, raced>>

LoseAgain(i) ==
    /\ phase[i] = "conflict"
    /\ artifact' = [artifact EXCEPT ![number[i]] = Absent]
    /\ attempts' = [attempts EXCEPT ![i] = @ + 1]
    /\ Becomes(i, IF attempts[i] < MaxAttempts THEN "checked" ELSE "refused")
    /\ UNCHANGED <<status, versions, number, raced>>

LoseOnce(i) ==
    /\ phase[i] = "conflict"
    /\ artifact' = [artifact EXCEPT ![number[i]] = Absent]
    /\ attempts' = [attempts EXCEPT ![i] = @ + 1]
    /\ Becomes(i, "refused")
    /\ UNCHANGED <<status, versions, number, raced>>

(* except IntegrityError: delete the key, roll back, retry or give up *)
Lose(i) ==
    /\ phase[i] = "conflict"
    /\ artifact' = [artifact EXCEPT ![number[i]] = Absent]
    /\ attempts' = [attempts EXCEPT ![i] = @ + 1]
    /\ Becomes(i, IF attempts[i] + 1 < MaxAttempts THEN "checked" ELSE "refused")
    /\ UNCHANGED <<status, versions, number, raced>>

(* Any other error, or the death of the process: the transaction is rolled
   back, and an artifact already written stays behind. *)
Fail(i) ==
    /\ phase[i] \in {"checked"} \cup Working
    /\ Becomes(i, "failed")
    /\ UNCHANGED <<status, versions, artifact, number, attempts, raced>>
-----------------------------------------------------------------------------
Import(i) ==
    Check(i) \/ Refuse(i) \/ Number(i) \/ Put(i) \/ Insert(i) \/ Commit(i) \/ Lose(i)

Next ==
    \/ \E s \in {"ACTIVE", "ARCHIVED"} : SetStatus(s)
    \/ \E i \in Imports : Import(i) \/ Fail(i)

Spec == Init /\ [][Next]_vars

(* A request that the server began is carried on, and the database grants a
   lock as soon as its holder has ended. *)
FairSpec == Spec /\ \A i \in Imports : WF_vars(Import(i))
-----------------------------------------------------------------------------
(* Version numbers are 1, 2, 3, ... without a gap or a duplicate, whatever
   imports race, fail or give up. *)
ConsecutiveNumbers ==
    /\ \A v, w \in versions : v.number = w.number => v = w
    /\ \A v \in versions : \A n \in 1 .. v.number : n \in Used

(* The artifact of a version is what its import wrote, unless another import
   was working on the same number at the same time; artifacts left behind by
   failed imports are overwritten, never published. *)
UncontendedArtifact ==
    \A v \in versions : v.number \notin raced => artifact[v.number] = Content[v.by]

(* An import is refused as a concurrent conflict only if as many other
   imports succeeded as it made attempts. *)
RefusedMeansOutrun ==
    \A i \in Imports : phase[i] = "refused" =>
        Cardinality({v \in versions : v.by # i}) >= MaxAttempts

(* Every import ends, for all lock waits and retries. *)
ImportsEnd == \A i \in Imports : <>(phase[i] \in {"done", "refused", "failed"})

(* The versions are an append-only history of contents. *)
ContentOf(n) ==
    IF n \in Used THEN Content[(CHOOSE v \in versions : v.number = n).by] ELSE Absent
History == INSTANCE DatasetHistory WITH
    history <- [n \in 1 .. Cardinality(versions) |-> ContentOf(n)]
ImplementsHistory == History!HistorySpec

(* "The same dataset content therefore always produces the same checksum, and
   the canonical JSONL artifact is exactly what is stored and exported": the
   artifact of a version is the content its checksum was computed from. *)
ExportMatchesChecksum == \A v \in versions : artifact[v.number] = Content[v.by]

(* "an archived dataset cannot receive new versions" *)
ArchivedIsFrozen == [][status = "ARCHIVED" => UNCHANGED versions]_vars
=============================================================================
