------------------------ MODULE DatasetVersions_proofs ----------------------
(***************************************************************************)
(* Proofs about DatasetVersions, for any number of imports and attempts:    *)
(* type correctness, ConsecutiveNumbers, RefusedMeansOutrun and             *)
(* UncontendedArtifact from one inductive invariant, and from it that the   *)
(* versions implement DatasetHistory.                                       *)
(***************************************************************************)
EXTENDS DatasetVersions, Sequences, FiniteSetTheorems, SequenceTheorems, TLAPS

Count == Cardinality(versions)

(* The versions are numbered 1 .. Count, one for each import that is done. *)
Numbering ==
    /\ IsFiniteSet(versions) /\ Count \in Nat
    /\ Used = 1 .. Count
    /\ \A v, w \in versions : v.number = w.number \/ v.by = w.by => v = w
    /\ \A v \in versions : phase[v.by] = "done"

(* Numbers being tried were read at some time, so they are at most one past
   Count; the one inserted and not committed is the next, and is alone. *)
Trying ==
    /\ \A i \in Imports : phase[i] \in Working =>
          attempts[i] < number[i] /\ number[i] <= Count + 1
    /\ \A i \in Imports : phase[i] = "inserted" => number[i] = Count + 1
    /\ \A i \in Imports : phase[i] = "conflict" => number[i] <= Count
    /\ \A i, k \in Imports : phase[i] = "inserted" /\ phase[k] = "inserted" => i = k

(* Every lost attempt of an import was lost to a version of another one. *)
Budget ==
    /\ \A i \in Imports : phase[i] \in {"new", "checked"} \cup Working => attempts[i] < MaxAttempts
    /\ \A i \in Imports : phase[i] \in {"new", "checked", "refused"} => attempts[i] <= Count
    /\ \A i \in Imports : phase[i] = "refused" => attempts[i] = MaxAttempts

(* A number without a race has one writer from the time it is read. *)
Artifacts ==
    /\ \A i, k \in Imports :
          i # k /\ phase[i] \in Working /\ phase[k] \in Working /\ number[i] = number[k]
              => number[i] \in raced
    /\ \A i \in Imports : phase[i] \in Working /\ number[i] \in Used => number[i] \in raced
    /\ \A i \in Imports : phase[i] \in {"stored", "inserted"} /\ number[i] \notin raced =>
          artifact[number[i]] = Content[i]
    /\ UncontendedArtifact

Inv == TypeOK /\ Numbering /\ Trying /\ Budget /\ Artifacts
-----------------------------------------------------------------------------
(* max_version_number is the number of versions. *)
LEMMA LatestIsCount ==
    ASSUME Numbering
    PROVE  LatestNumber = Count
<1>1. Count \in Used \cup {0} /\ \A m \in Used : m <= Count
    BY DEF Numbering
<1>2. ASSUME NEW n \in Used \cup {0}, \A m \in Used : m <= n
      PROVE  n = Count
    BY <1>2 DEF Numbering
<1> QED
    BY <1>1, <1>2 DEF LatestNumber

LEMMA NumbersArePositive ==
    Numbers \subseteq Nat \ {0}
BY FS_CardinalityType, DatasetAssumption DEF Numbers

(* While an import has not committed, there is a number left for it. *)
LEMMA RoomLeft ==
    ASSUME TypeOK, Numbering, NEW i \in Imports, phase[i] # "done"
    PROVE  Count + 1 \in Numbers
<1> DEFINE f == [v \in versions |-> v.by]
<1>1. f \in Injection(versions, Imports \ {i})
    <2>1. \A v \in versions : v.by \in Imports \ {i}
        BY DEF TypeOK, Version, Numbering
    <2> QED
        BY <2>1 DEF Numbering, Injection, IsInjective
<1>2. IsFiniteSet(Imports \ {i}) /\ Cardinality(Imports \ {i}) = Cardinality(Imports) - 1
    BY FS_RemoveElement, DatasetAssumption
<1>3. Count <= Cardinality(Imports) - 1
    BY <1>1, <1>2, FS_Injection DEF Count
<1>4. Cardinality(Imports) \in Nat
    BY FS_CardinalityType, DatasetAssumption
<1> QED
    BY <1>3, <1>4 DEF Numbering, Numbers

(* An import at work has a number between its lost attempts and Count + 1. *)
LEMMA TriedNumber ==
    ASSUME Inv, NEW i \in Imports, phase[i] \in Working
    PROVE  /\ number[i] \in Nat \ {0} /\ attempts[i] \in Nat /\ Count \in Nat
           /\ attempts[i] < number[i] /\ number[i] <= Count + 1
<1>1. number[i] \in Numbers \cup {0} /\ attempts[i] \in 0 .. MaxAttempts
    BY DEF Inv, TypeOK
<1>2. attempts[i] < number[i] /\ number[i] <= Count + 1 /\ Count \in Nat
    BY DEF Inv, Trying, Numbering
<1>3. attempts[i] \in Nat
    BY <1>1, DatasetAssumption
<1>4. number[i] \in Nat
    BY <1>1, FS_CardinalityType, DatasetAssumption DEF Numbers
<1> QED
    BY <1>2, <1>3, <1>4

(* What a step that leaves the versions alone leaves alone. *)
LEMMA SameVersions ==
    ASSUME UNCHANGED versions
    PROVE  Count' = Count /\ Used' = Used
BY DEF Count, Used

LEMMA InitEstablishes ==
    ASSUME Init
    PROVE  Inv
<1>1. IsFiniteSet(versions) /\ Count = 0
    BY FS_EmptySet DEF Init, Count
<1>2. TypeOK
    BY DatasetAssumption, FS_CardinalityType DEF Init, TypeOK, Phase, Working, Absent
<1>3. Numbering
    BY <1>1 DEF Init, Numbering, Used
<1>4. Trying /\ Budget /\ Artifacts
    BY <1>1, DatasetAssumption DEF Init, Trying, Budget, Artifacts, Working, UncontendedArtifact
<1> QED
    BY <1>2, <1>3, <1>4 DEF Inv

(* A step that changes neither versions nor numbers, and moves one import to a
   phase in which no more is claimed of it. *)
LEMMA CheckStep ==
    ASSUME Inv, NEW i \in Imports, Check(i)
    PROVE  Inv'
<1>1. Count' = Count /\ Used' = Used
    BY SameVersions DEF Check
<1>2. TypeOK'
    BY DEF Inv, TypeOK, Check, Becomes, Phase
<1>3. Numbering'
    BY <1>1 DEF Inv, TypeOK, Numbering, Check, Becomes
<1>4. Trying'
    BY <1>1 DEF Inv, TypeOK, Trying, Check, Becomes, Working
<1>5. Budget'
    BY <1>1 DEF Inv, TypeOK, Budget, Check, Becomes, Working
<1>6. Artifacts'
    BY <1>1 DEF Inv, TypeOK, Artifacts, UncontendedArtifact, Check, Becomes, Working
<1> QED
    BY <1>2, <1>3, <1>4, <1>5, <1>6 DEF Inv

LEMMA NumberStep ==
    ASSUME Inv, NEW i \in Imports, Number(i)
    PROVE  Inv'
<1>1. Count' = Count /\ Used' = Used
    BY SameVersions DEF Number
<1>2. NextNumber(i) = Count + 1 /\ Count + 1 \in Numbers /\ phase[i] = "checked"
    BY LatestIsCount, RoomLeft DEF Inv, Number, NextNumber
<1>3. TypeOK'
    BY <1>2 DEF Inv, TypeOK, Number, Becomes, Phase, Working
<1>4. Numbering'
    BY <1>1 DEF Inv, TypeOK, Numbering, Number, Becomes
<1>5. Trying'
    BY <1>1, <1>2 DEF Inv, TypeOK, Numbering, Trying, Budget, Number, Becomes, Working
<1>6. Budget'
    BY <1>1 DEF Inv, TypeOK, Budget, Number, Becomes, Working
<1>7. Artifacts'
    BY <1>1, <1>2 DEF Inv, TypeOK, Numbering, Artifacts, UncontendedArtifact, Number, Becomes, Working, Rivals
<1> QED
    BY <1>3, <1>4, <1>5, <1>6, <1>7 DEF Inv

LEMMA PutStep ==
    ASSUME Inv, NEW i \in Imports, Put(i)
    PROVE  Inv'
<1>1. Count' = Count /\ Used' = Used
    BY SameVersions DEF Put
<1>2. TypeOK'
    BY DatasetAssumption DEF Inv, TypeOK, Put, Becomes, Phase, Working
<1>3. Numbering'
    BY <1>1 DEF Inv, TypeOK, Numbering, Put, Becomes
<1>4. Trying'
    BY <1>1 DEF Inv, TypeOK, Trying, Put, Becomes, Working
<1>5. Budget'
    BY <1>1 DEF Inv, TypeOK, Budget, Put, Becomes, Working
<1>6. Artifacts'
    <2>1. number[i] \in Numbers /\ artifact' = [artifact EXCEPT ![number[i]] = Content[i]]
        BY DEF Inv, TypeOK, Trying, Put, Working
    <2>2. \A k \in Imports : phase'[k] \in Working <=> phase[k] \in Working
        BY DEF Inv, TypeOK, Put, Becomes, Working
    <2>3. \A v \in versions : v.number \in Used /\ v.number \in Numbers
        BY DEF Inv, TypeOK, Used, Version
    <2>4. \A v \in versions : v.number \notin raced => v.number # number[i]
        BY <2>3 DEF Inv, Artifacts, Put, Working
    <2>5. UncontendedArtifact'
        BY <2>1, <2>3, <2>4 DEF Inv, TypeOK, Artifacts, UncontendedArtifact, Put
    <2>6. ASSUME NEW k \in Imports, phase'[k] \in {"stored", "inserted"}, number[k] \notin raced
          PROVE  artifact'[number[k]] = Content[k]
        BY <2>1, <2>2, <2>6 DEF Inv, TypeOK, Artifacts, Put, Becomes, Working
    <2> QED
        BY <1>1, <2>2, <2>5, <2>6 DEF Inv, Artifacts, Put
<1> QED
    BY <1>2, <1>3, <1>4, <1>5, <1>6 DEF Inv

LEMMA InsertStep ==
    ASSUME Inv, NEW i \in Imports, Insert(i)
    PROVE  Inv'
<1>1. Count' = Count /\ Used' = Used
    BY SameVersions DEF Insert
<1>2. TypeOK'
    BY DEF Inv, TypeOK, Insert, Becomes, Phase, Working
<1>3. Numbering'
    BY <1>1 DEF Inv, TypeOK, Numbering, Insert, Becomes
<1>4. Trying'
    <2>1. /\ number[i] \in Nat \ {0} /\ attempts[i] \in Nat /\ Count \in Nat
          /\ attempts[i] < number[i] /\ number[i] <= Count + 1
        BY TriedNumber DEF Insert, Working
    <2>2. CASE number[i] \in Used
        <3>1. number[i] <= Count /\ phase' = [phase EXCEPT ![i] = "conflict"]
            BY <2>2 DEF Inv, Numbering, Insert, Becomes
        <3> QED
            BY <1>1, <2>1, <3>1 DEF Inv, TypeOK, Trying, Insert, Working
    <2>3. CASE number[i] \notin Used
        <3>1. phase' = [phase EXCEPT ![i] = "inserted"]
            BY <2>3 DEF Insert, Becomes
        <3>2. Used = 1 .. Count
            BY DEF Inv, Numbering
        <3>3. number[i] = Count + 1
            BY <2>1, <2>3, <3>2
        <3>4. \A k \in Imports \ {i} : phase[k] # "inserted"
            BY <3>3 DEF Inv, Trying, Insert, Rivals, Working
        <3> QED
            BY <1>1, <2>1, <3>1, <3>3, <3>4 DEF Inv, TypeOK, Trying, Insert, Working
    <2> QED
        BY <2>2, <2>3
<1>5. Budget'
    BY <1>1 DEF Inv, TypeOK, Budget, Insert, Becomes, Working
<1>6. Artifacts'
    BY <1>1 DEF Inv, TypeOK, Artifacts, UncontendedArtifact, Insert, Becomes, Working
<1> QED
    BY <1>2, <1>3, <1>4, <1>5, <1>6 DEF Inv

LEMMA LoseStep ==
    ASSUME Inv, NEW i \in Imports, Lose(i)
    PROVE  Inv'
<1>1. Count' = Count /\ Used' = Used
    BY SameVersions DEF Lose
<1>2. attempts[i] < MaxAttempts /\ attempts[i] < number[i] /\ number[i] <= Count
    BY DEF Inv, Trying, Budget, Lose, Working
<1>3. TypeOK'
    BY <1>2, DatasetAssumption DEF Inv, TypeOK, Lose, Becomes, Phase, Working
<1>4. Numbering'
    BY <1>1 DEF Inv, TypeOK, Numbering, Lose, Becomes
<1>5. Trying'
    BY <1>1 DEF Inv, TypeOK, Trying, Lose, Becomes, Working
<1>6. Budget'
    <2>1. attempts' = [attempts EXCEPT ![i] = attempts[i] + 1] /\ attempts[i] \in Nat
        BY DEF Inv, TypeOK, Lose
    <2>2. attempts[i] + 1 <= Count
        BY <1>2, <2>1 DEF Inv, TypeOK, Numbering, Numbers
    <2>3. CASE attempts[i] + 1 < MaxAttempts
        <3>1. phase' = [phase EXCEPT ![i] = "checked"]
            BY <2>3 DEF Lose, Becomes
        <3> QED
            BY <1>1, <2>1, <2>2, <2>3, <3>1 DEF Inv, TypeOK, Budget, Working
    <2>4. CASE ~(attempts[i] + 1 < MaxAttempts)
        <3>1. phase' = [phase EXCEPT ![i] = "refused"]
            BY <2>4 DEF Lose, Becomes
        <3>2. attempts[i] + 1 = MaxAttempts
            BY <1>2, <2>1, <2>4, DatasetAssumption
        <3> QED
            BY <1>1, <2>1, <2>2, <3>1, <3>2 DEF Inv, TypeOK, Budget, Working
    <2> QED
        BY <2>3, <2>4
<1>7. Artifacts'
    <2>1. number[i] \in Used /\ number[i] \in raced
        BY <1>2 DEF Inv, TypeOK, Numbering, Artifacts, Lose, Working, Numbers
    <2> QED
        BY <1>1, <2>1 DEF Inv, TypeOK, Artifacts, UncontendedArtifact, Lose, Becomes, Working, Version
<1> QED
    BY <1>3, <1>4, <1>5, <1>6, <1>7 DEF Inv

LEMMA CommitStep ==
    ASSUME Inv, NEW i \in Imports, Commit(i)
    PROVE  Inv'
<1> DEFINE new == [number |-> number[i], by |-> i]
<1>1. /\ number[i] = Count + 1 /\ number[i] \in Numbers
      /\ Count \in Nat /\ phase[i] = "inserted"
      /\ versions' = versions \cup {new} /\ phase' = [phase EXCEPT ![i] = "done"]
      /\ UNCHANGED <<artifact, number, attempts, raced>>
    BY RoomLeft DEF Inv, Numbering, Trying, Commit, Becomes
<1>2. new \in Version /\ new.number = Count + 1 /\ new.by = i
    BY <1>1 DEF Version
<1> HIDE DEF new
<1>3. \A v \in versions : v \in Version /\ v.number \in 1 .. Count /\ v.by # i
    BY <1>1 DEF Inv, TypeOK, Numbering, Used
<1>4. Count' = Count + 1 /\ IsFiniteSet(versions')
    BY <1>1, <1>2, <1>3, FS_AddElement DEF Inv, Numbering, Count
<1>5. Used' = 1 .. Count + 1
    BY <1>1, <1>2 DEF Inv, Numbering, Used
<1>6. TypeOK'
    BY <1>1, <1>2 DEF Inv, TypeOK, Commit, Phase
<1>7. Numbering'
    <2>1. \A v, w \in versions' : v.number = w.number \/ v.by = w.by => v = w
        BY <1>1, <1>2, <1>3 DEF Inv, Numbering
    <2>2. \A v \in versions' : phase'[v.by] = "done"
        BY <1>1, <1>2, <1>3 DEF Inv, TypeOK, Numbering, Version
    <2> QED
        BY <1>1, <1>4, <1>5, <2>1, <2>2 DEF Numbering
<1>8. Trying'
    <2>1. \A k \in Imports \ {i} : phase[k] \in Working =>
             attempts[k] < number[k] /\ number[k] \in Nat /\ number[k] <= Count + 1 /\ phase[k] # "inserted"
        BY <1>1, TriedNumber DEF Inv, Trying, Working
    <2>2. \A k \in Imports : phase'[k] \in Working => k # i /\ phase'[k] = phase[k]
        BY <1>1 DEF Inv, TypeOK, Working
    <2>3. \A k \in Imports \ {i} : phase[k] = "conflict" => number[k] <= Count
        BY DEF Inv, Trying
    <2> QED
        BY <1>1, <1>4, <2>1, <2>2, <2>3 DEF Trying, Working
<1>9. Budget'
    BY <1>1, <1>4 DEF Inv, TypeOK, Budget, Working
<1>10. Artifacts'
    <2>1. \A k \in Imports \ {i} :
             phase[k] \in Working /\ number[k] = number[i] => number[i] \in raced
        BY <1>1 DEF Inv, Artifacts, Working
    <2>2. \A k \in Imports : phase'[k] \in Working /\ number[k] \in Used' => number[k] \in raced
        BY <1>1, <1>5, <2>1 DEF Inv, TypeOK, Numbering, Artifacts, Working
    <2>3. UncontendedArtifact'
        BY <1>1, <1>2 DEF Inv, Artifacts, UncontendedArtifact
    <2> QED
        BY <1>1, <2>2, <2>3 DEF Inv, TypeOK, Artifacts, Working
<1> QED
    BY <1>6, <1>7, <1>8, <1>9, <1>10 DEF Inv

(* Refuse and Fail end an import; nothing is claimed of it any more. *)
LEMMA EndStep ==
    ASSUME Inv, NEW i \in Imports, phase[i] # "done", phase' = [phase EXCEPT ![i] = "failed"],
           UNCHANGED <<status, versions, artifact, number, attempts, raced>>
    PROVE  Inv'
<1>1. Count' = Count /\ Used' = Used
    BY SameVersions
<1>2. TypeOK'
    BY DEF Inv, TypeOK, Phase
<1>3. Numbering'
    BY <1>1 DEF Inv, TypeOK, Numbering
<1>4. Trying'
    BY <1>1 DEF Inv, TypeOK, Trying, Working
<1>5. Budget'
    BY <1>1 DEF Inv, TypeOK, Budget, Working
<1>6. Artifacts'
    BY <1>1 DEF Inv, TypeOK, Artifacts, UncontendedArtifact, Working
<1> QED
    BY <1>2, <1>3, <1>4, <1>5, <1>6 DEF Inv

(* A step that changes at most the status of the dataset. *)
LEMMA StatusStep ==
    ASSUME Inv, status' \in {"ACTIVE", "ARCHIVED"},
           UNCHANGED <<versions, artifact, phase, number, attempts, raced>>
    PROVE  Inv'
BY SameVersions DEF Inv, TypeOK, Numbering, Trying, Budget, Artifacts, UncontendedArtifact

LEMMA Induction ==
    ASSUME Inv, [Next]_vars
    PROVE  Inv'
<1>1. ASSUME NEW s \in {"ACTIVE", "ARCHIVED"}, SetStatus(s)
      PROVE  Inv'
    BY <1>1, StatusStep DEF SetStatus, import
<1>2. ASSUME NEW i \in Imports, Import(i)
      PROVE  Inv'
    <2>1. CASE Check(i)
        BY <2>1, CheckStep
    <2>2. CASE Refuse(i)
        BY <2>2, EndStep DEF Refuse, Becomes
    <2>3. CASE Number(i)
        BY <2>3, NumberStep
    <2>4. CASE Put(i)
        BY <2>4, PutStep
    <2>5. CASE Insert(i)
        BY <2>5, InsertStep
    <2>6. CASE Commit(i)
        BY <2>6, CommitStep
    <2>7. CASE Lose(i)
        BY <2>7, LoseStep
    <2> QED
        BY <1>2, <2>1, <2>2, <2>3, <2>4, <2>5, <2>6, <2>7 DEF Import
<1>3. ASSUME NEW i \in Imports, Fail(i)
      PROVE  Inv'
    BY <1>3, EndStep DEF Fail, Becomes, Working
<1>4. CASE UNCHANGED vars
    <2>1. status' \in {"ACTIVE", "ARCHIVED"}
        BY <1>4 DEF Inv, TypeOK, vars
    <2> QED
        BY <1>4, <2>1, StatusStep DEF vars, import
<1> QED
    BY <1>1, <1>2, <1>3, <1>4 DEF Next

LEMMA InvHolds == Spec => []Inv
BY InitEstablishes, Induction, PTL DEF Spec
-----------------------------------------------------------------------------
(* Every value keeps its type: in particular no import is given a number past
   the number of imports, and none exceeds its attempts. *)
THEOREM TypeCorrect == Spec => []TypeOK
<1>1. Inv => TypeOK
    BY DEF Inv
<1> QED
    BY <1>1, InvHolds, PTL

(* Version numbers are 1, 2, 3, ... for any number of racing imports. *)
THEOREM NumbersAreConsecutive == Spec => []ConsecutiveNumbers
<1>1. ASSUME Inv PROVE ConsecutiveNumbers
    <2>1. \A v \in versions : v.number \in 1 .. Count
        BY <1>1 DEF Inv, Numbering, Used
    <2> QED
        BY <1>1, <2>1 DEF Inv, Numbering, ConsecutiveNumbers
<1> QED
    BY <1>1, InvHolds, PTL

(* A number on which no two imports worked at once keeps the artifact of the
   import that published it. *)
THEOREM ArtifactsUncontended == Spec => []UncontendedArtifact
<1>1. Inv => UncontendedArtifact
    BY DEF Inv, Artifacts
<1> QED
    BY <1>1, InvHolds, PTL

(* An import that is refused has seen MaxAttempts others succeed. *)
THEOREM RefusalsAreJustified == Spec => []RefusedMeansOutrun
<1>1. ASSUME Inv PROVE RefusedMeansOutrun
    <2> SUFFICES ASSUME NEW i \in Imports, phase[i] = "refused"
                 PROVE  Cardinality({v \in versions : v.by # i}) >= MaxAttempts
        BY DEF RefusedMeansOutrun
    <2>1. {v \in versions : v.by # i} = versions
        BY <1>1 DEF Inv, Numbering
    <2> QED
        BY <1>1, <2>1, DatasetAssumption DEF Inv, Numbering, Budget, Count
<1> QED
    BY <1>1, InvHolds, PTL
-----------------------------------------------------------------------------
LEMMA ByNumber ==
    ASSUME NEW V, NEW v \in V, \A u, w \in V : u.number = w.number => u = w
    PROVE  (CHOOSE w \in V : w.number = v.number) = v
<1>1. \E w \in V : w.number = v.number
    OBVIOUS
<1>2. (CHOOSE w \in V : w.number = v.number) \in V
      /\ (CHOOSE w \in V : w.number = v.number).number = v.number
    BY <1>1
<1> QED
    BY <1>2

LEMMA AppendIs ==
    ASSUME NEW S, NEW N \in Nat, NEW e \in S,
           NEW f \in [1 .. N -> S], NEW g \in [1 .. N + 1 -> S],
           \A n \in 1 .. N : g[n] = f[n], g[N + 1] = e
    PROVE  g = Append(f, e)
<1>1. f \in Seq(S) /\ Len(f) = N
    BY SeqDef
<1>2. Append(f, e) \in [1 .. N + 1 -> S]
    <2>1. Append(f, e) \in Seq(S) /\ Len(Append(f, e)) = N + 1
        BY <1>1, AppendProperties
    <2> QED
        BY <2>1, LenProperties, Zenon
<1>3. \A n \in 1 .. N + 1 : Append(f, e)[n] = g[n]
    BY <1>1, AppendProperties
<1> QED
    BY <1>2, <1>3

Contained == [n \in 1 .. Cardinality(versions) |-> ContentOf(n)]

LEMMA CommitAppends ==
    ASSUME Inv, Inv', NEW i \in Imports, Commit(i)
    PROVE  Contained' = Append(Contained, Content[i])
<1> DEFINE new == [number |-> number[i], by |-> i]
<1>1. number[i] = Count + 1 /\ Count \in Nat /\ versions' = versions \cup {new}
    BY DEF Inv, Numbering, Trying, Commit
<1>2. new \in versions' /\ new.number = Count + 1 /\ new.by = i
    BY <1>1
<1> HIDE DEF new
<1>3. /\ Used = 1 .. Count /\ Used' = 1 .. Count'
      /\ \A u, w \in versions : u.number = w.number => u = w
      /\ \A u, w \in versions' : u.number = w.number => u = w
    BY DEF Inv, Numbering
<1>4. Count' = Count + 1
    <2>1. \A v \in versions : v.number \in 1 .. Count
        BY <1>3 DEF Used
    <2>2. new \notin versions
        BY <1>1, <1>2, <2>1
    <2> QED
        BY <1>1, <2>2, FS_AddElement DEF Inv, Numbering, Count
<1>5. ASSUME NEW n \in 1 .. Count
      PROVE  ContentOf(n)' = ContentOf(n)
    <2>1. PICK v \in versions : v.number = n
        BY <1>3 DEF Used
    <2>2. ContentOf(n) = Content[v.by]
        BY <1>3, <2>1, ByNumber DEF ContentOf
    <2>3. v \in versions' /\ n \in Used'
        BY <1>1, <1>3, <1>4, <2>1
    <2>4. (CHOOSE w \in versions' : w.number = v.number) = v
        BY <1>3, <2>3, ByNumber
    <2>5. ContentOf(n)' = Content[v.by]
        BY <2>1, <2>3, <2>4 DEF ContentOf
    <2> QED
        BY <2>2, <2>5
<1>6. ASSUME NEW n, n = Count + 1
      PROVE  ContentOf(n)' = Content[i]
    <2>1. (CHOOSE w \in versions' : w.number = new.number) = new
        BY <1>2, <1>3, ByNumber
    <2>2. n \in Used'
        BY <1>1, <1>3, <1>4, <1>6
    <2> QED
        BY <1>2, <1>6, <2>1, <2>2 DEF ContentOf
<1> DEFINE S == {ContentOf(n) : n \in 1 .. Count} \cup {Content[i]}
<1>7. Contained \in [1 .. Count -> S] /\ Content[i] \in S
    BY DEF Contained, Count
<1>8. /\ Contained' \in [1 .. Count + 1 -> S]
      /\ \A n \in 1 .. Count : Contained'[n] = Contained[n]
      /\ Contained'[Count + 1] = Content[i]
    <2>1. Contained' = [n \in 1 .. Count + 1 |-> ContentOf(n)']
        BY <1>4 DEF Contained, Count
    <2>2. Contained = [n \in 1 .. Count |-> ContentOf(n)]
        BY DEF Contained, Count
    <2>3. \A n \in 1 .. Count : ContentOf(n)' = ContentOf(n) /\ n \in 1 .. Count + 1
        BY <1>1, <1>5
    <2>4. ASSUME NEW n \in 1 .. Count + 1
          PROVE  ContentOf(n)' \in S
        <3>1. CASE n \in 1 .. Count
            BY <2>3, <3>1
        <3>2. CASE n = Count + 1
            BY <1>6, <3>2
        <3> QED
            BY <1>1, <3>1, <3>2
    <2>5. Count + 1 \in 1 .. Count + 1
        BY <1>1
    <2>6. PICK m : m = Count + 1
        OBVIOUS
    <2>7. Contained'[m] = Content[i]
        BY <1>6, <2>1, <2>5, <2>6
    <2> HIDE DEF S
    <2> QED
        BY <2>1, <2>2, <2>3, <2>4, <2>6, <2>7
<1> HIDE DEF S
<1> QED
    BY <1>1, <1>7, <1>8, AppendIs

(* The versions of a dataset implement an append-only history: every step adds
   one version at its end or leaves all versions as they are, for any number of
   imports that race, lose and fail. *)
THEOREM HistoryImplemented == Spec => ImplementsHistory
<1>1. Init => History!HistoryInit
    <2> SUFFICES ASSUME Init
                 PROVE  Contained = <<>>
        BY DEF History!HistoryInit, Contained
    <2>1. Cardinality(versions) = 0
        BY FS_EmptySet DEF Init
    <2>2. Contained \in [1 .. 0 -> {}]
        BY <2>1 DEF Contained
    <2> QED
        BY <2>2
<1>2. Inv /\ Inv' /\ [Next]_vars => History!HistoryNext \/ Contained' = Contained
    <2> SUFFICES ASSUME Inv, Inv', [Next]_vars
                 PROVE  History!HistoryNext \/ Contained' = Contained
        OBVIOUS
    <2>1. ASSUME NEW i \in Imports, Commit(i)
          PROVE  History!HistoryNext
        <3>1. Contained' = Append(Contained, Content[i])
            BY <2>1, CommitAppends
        <3>2. Content[i] \in Contents
            BY DatasetAssumption
        <3> QED
            BY <3>1, <3>2 DEF History!HistoryNext, Contained
    <2>2. ASSUME UNCHANGED versions
          PROVE  Contained' = Contained
        BY <2>2 DEF Contained, ContentOf, Used
    <2>3. (\E i \in Imports : Commit(i)) \/ UNCHANGED versions
        BY DEF Next, vars, SetStatus, Import, Check, Refuse, Number, Put, Insert, Lose, Fail
    <2> QED
        BY <2>1, <2>2, <2>3
<1>3. Inv /\ Inv' /\ [Next]_vars =>
          [History!HistoryNext]_([n \in 1 .. Cardinality(versions) |-> ContentOf(n)])
    BY <1>2 DEF Contained
<1> QED
    BY <1>1, <1>3, InvHolds, PTL DEF ImplementsHistory, History!HistorySpec, Spec
=============================================================================
