---------------------- MODULE GenerationRequest_proofs ----------------------
(***************************************************************************)
(* Proofs about GenerationRequest, for any number of deliveries, items and  *)
(* faults: type correctness, OneBatch and OneOriginal from one inductive        *)
(* invariant.                                                               *)
(***************************************************************************)
EXTENDS GenerationRequest, WellFoundedInduction, TLAPS

(* A job in the queue has tries left, and a session belongs to a delivery. *)
Delivered ==
    /\ job = "queued" => tries < MaxRetries
    /\ job = "absent" => tries = 0
    /\ job \in InSession => tries > 0
    /\ api \in {"new", "committed", "lost"} => job = "absent"
    /\ api = "new" => requestStatus = "NONE" /\ canceller = "idle" /\ recoverer = "idle"

(* Only a session that generated has items. *)
Generated == job = "persisting" => items \in Items

(* Once a batch is committed the request has ended, and no session of it is
   left or will begin. *)
Published ==
    /\ candidates # {} => requestStatus \in Terminal /\ job \notin InSession
    /\ OneBatch /\ OneOriginal

Inv == RequestTypeOK /\ Delivered /\ Generated /\ Published
-----------------------------------------------------------------------------
LEMMA InitInv == RequestInit => Inv
<1> SUFFICES ASSUME RequestInit
             PROVE  Inv
    OBVIOUS
<1> USE DEF RequestInit
<1>1. RequestTypeOK
    BY GenerationAssumption DEF RequestTypeOK, Status, Terminal, JobPhase
<1>2. Delivered /\ Generated
    BY GenerationAssumption DEF Delivered, Generated, InSession
<1>3. Published
    BY DEF Published, OneBatch, OneOriginal
<1> QED
    BY <1>1, <1>2, <1>3 DEF Inv

(* What a request, the clock or the recovery may do to a job and its row. *)
LEMMA RowStep ==
    ASSUME Inv, RequestTypeOK', Delivered', UNCHANGED <<candidates, items>>,
           job' = job \/ (job = "absent" /\ job' = "queued"),
           requestStatus' = requestStatus \/ requestStatus = "NONE" \/ requestStatus' \in Terminal
    PROVE  Inv'
<1>1. Generated'
    BY DEF Inv, Generated
<1>2. OneBatch' /\ OneOriginal'
    BY DEF Inv, Published, OneBatch, OneOriginal
<1>3. Published'
    BY <1>2 DEF Inv, Published, Terminal, InSession
<1> QED
    BY <1>1, <1>3 DEF Inv

LEMMA RequestsPreserve ==
    ASSUME Inv, Create \/ Queue \/ QueueFails \/ CheckCancel \/ CommitCancel \/ Recovery
    PROVE  Inv'
<1> USE DEF row, requests, SetRequestStatus
<1>1. CASE Create
    <2>1. RequestTypeOK' /\ Delivered'
        BY <1>1 DEF Inv, RequestTypeOK, Delivered, Status, Create
    <2> QED
        BY <1>1, <2>1, RowStep DEF Inv, Delivered, Create
<1>2. CASE Queue
    <2>1. RequestTypeOK' /\ Delivered'
        BY <1>2, GenerationAssumption DEF Inv, RequestTypeOK, Delivered, Queue, JobPhase, InSession
    <2> QED
        BY <1>2, <2>1, RowStep DEF Inv, Delivered, Queue
<1>3. CASE QueueFails
    <2>1. RequestTypeOK' /\ Delivered'
        BY <1>3, GenerationAssumption DEF Inv, RequestTypeOK, Delivered, QueueFails, Fault
    <2> QED
        BY <1>3, <2>1, RowStep DEF QueueFails
<1>4. CASE CheckCancel \/ CheckStale \/ Age
    <2>1. RequestTypeOK' /\ Delivered'
        BY <1>4 DEF Inv, RequestTypeOK, Delivered, CheckCancel, CheckStale, Age
    <2> QED
        BY <1>4, <2>1, RowStep DEF CheckCancel, CheckStale, Age
<1>5. CASE CommitCancel \/ CommitStale
    <2>1. RequestTypeOK'
        BY <1>5 DEF Inv, RequestTypeOK, Status, Terminal, CommitCancel, CommitStale
    <2>2. api # "new"
        BY <1>5 DEF Inv, RequestTypeOK, Delivered, CommitCancel, CommitStale
    <2>3. Delivered'
        BY <1>5, <2>2 DEF Inv, Delivered, CommitCancel, CommitStale
    <2> QED
        BY <1>5, <2>1, <2>3, RowStep DEF CommitCancel, CommitStale, Terminal
<1> QED
    BY <1>1, <1>2, <1>3, <1>4, <1>5 DEF Recovery

LEMMA LoadPreserves ==
    ASSUME Inv, Load
    PROVE  Inv'
<1> USE DEF row, requests, Load, LoadedPhase
<1>1. RequestTypeOK'
    BY GenerationAssumption DEF Inv, RequestTypeOK, Delivered, JobPhase, InSession
<1>2. Delivered'
    BY DEF Inv, RequestTypeOK, Delivered, InSession
<1>3. Generated'
    BY DEF Generated
<1>4. Published'
    BY DEF Inv, Published, OneBatch, OneOriginal, InSession
<1> QED
    BY <1>1, <1>2, <1>3, <1>4 DEF Inv

LEMMA MarkRunningPreserves ==
    ASSUME Inv, MarkRunning
    PROVE  Inv'
<1> USE DEF row, requests, MarkRunning, SetRequestStatus
<1>1. RequestTypeOK'
    BY DEF Inv, RequestTypeOK, JobPhase, InSession, Status
<1>2. Delivered'
    BY DEF Inv, RequestTypeOK, Delivered, InSession
<1>3. Generated'
    BY DEF Generated
<1>4. Published'
    BY DEF Inv, Published, OneBatch, OneOriginal, InSession
<1> QED
    BY <1>1, <1>2, <1>3, <1>4 DEF Inv

LEMMA GeneratePreserves ==
    ASSUME Inv, Generate
    PROVE  Inv'
<1> USE DEF row, requests, Generate
<1>1. RequestTypeOK'
    BY DEF Inv, RequestTypeOK, JobPhase, InSession
<1>2. Delivered'
    BY DEF Inv, RequestTypeOK, Delivered, InSession
<1>3. Generated'
    BY DEF Generated
<1>4. Published'
    BY DEF Inv, Published, OneBatch, OneOriginal, InSession
<1> QED
    BY <1>1, <1>2, <1>3, <1>4 DEF Inv
-----------------------------------------------------------------------------
(* The end of a session, as far as it does not concern the row. *)
LEMMA EndSessionKeeps ==
    ASSUME Inv, job \in InSession, NEW p \in {"done", "lost", Redelivery}, EndSession(p),
           UNCHANGED <<requests, tries>>, requestStatus' # "NONE" \/ UNCHANGED requestStatus
    PROVE  /\ job' \in JobPhase \ InSession
           /\ items' \in Items \cup {NoItems}
           /\ Delivered' /\ Generated'
<1>1. p \in {"done", "dead", "lost", "queued"} /\ (p = "queued" => tries < MaxRetries)
    BY DEF Redelivery
<1>2. job' = p /\ items' = NoItems
    BY DEF EndSession
<1>3. job' \in JobPhase \ InSession
    BY <1>1, <1>2 DEF JobPhase, InSession
<1>4. Delivered'
    BY <1>1, <1>2 DEF Inv, RequestTypeOK, Delivered, requests, InSession
<1>5. Generated'
    BY <1>1, <1>2 DEF Generated
<1> QED
    BY <1>2, <1>3, <1>4, <1>5

(* A session that ends without candidates. *)
LEMMA StopPreserves ==
    ASSUME Inv, MarkFailed \/ Interrupt \/ Crash
    PROVE  Inv'
<1>1. PICK p \in {"done", "lost", Redelivery} : EndSession(p)
    BY DEF MarkFailed, Interrupt, Crash
<1>2. /\ job \in InSession /\ UNCHANGED <<candidates, requests, tries>>
      /\ requestStatus' = requestStatus \/ (requestStatus' = "FAILED" /\ heartbeat' = "FRESH")
    BY DEF MarkFailed, Interrupt, Crash, InSession, SetRequestStatus, row
<1>3. job' \in JobPhase \ InSession /\ Delivered' /\ Generated'
    BY <1>1, <1>2, EndSessionKeeps
<1>4. heartbeat' \in {"NULL", "FRESH", "STALE"} /\ faults' \in 0 .. MaxFaults
    BY GenerationAssumption
    DEF Inv, RequestTypeOK, MarkFailed, Interrupt, Crash, SetRequestStatus, Fault, row
<1>5. items' \in Items \cup {NoItems}
    BY <1>1, <1>2, EndSessionKeeps
<1>6. RequestTypeOK'
    BY <1>2, <1>3, <1>4, <1>5 DEF Inv, RequestTypeOK, requests, Status, Terminal
<1>7. OneBatch' /\ OneOriginal'
    BY <1>2 DEF Inv, Published, OneBatch, OneOriginal
<1>8. Published'
    BY <1>2, <1>3, <1>7 DEF Inv, Published, Terminal
<1> QED
    BY <1>3, <1>6, <1>8 DEF Inv
-----------------------------------------------------------------------------
(* Every non-empty set of numbers has a least element. *)
Below == {p \in Nat \X Nat : p[1] < p[2]}

LEMMA LeastNumber ==
    ASSUME NEW T, T \subseteq Nat, T # {}
    PROVE  \E m \in T : \A l \in T : m <= l
<1>1. IsWellFoundedOn(Below, Nat)
    BY NatLessThanWellFounded DEF OpToRel, Below
<1>2. PICK m \in T : \A l \in T : ~(<<l, m>> \in Below)
    BY <1>1, WFMin, Zenon
<1>3. ASSUME NEW l \in T
      PROVE  m <= l
    <2>1. l \in Nat /\ m \in Nat
        OBVIOUS
    <2>2. l < m => <<l, m>> \in Below
        BY <2>1 DEF Below
    <2> QED
        BY <1>2, <2>1, <2>2
<1> QED
    BY <1>3

(* The first position of a fingerprint: it exists, and is the same for all
   positions with that fingerprint. *)
LEMMA FirstOfIs ==
    ASSUME NEW n \in Nat, NEW f \in [1 .. n -> Fingerprints], NEW k \in 1 .. n
    PROVE  /\ FirstOf(f, k) \in 1 .. k /\ f[FirstOf(f, k)] = f[k]
           /\ \A l \in 1 .. FirstOf(f, k) - 1 : f[l] # f[k]
<1> DEFINE T == {m \in 1 .. k : f[m] = f[k]}
<1>1. T \subseteq Nat /\ k \in T
    OBVIOUS
<1>2. PICK m \in T : \A l \in T : m <= l
    <2> HIDE DEF T
    <2> QED
        BY <1>1, LeastNumber
<1>3. m \in 1 .. k /\ f[m] = f[k] /\ \A l \in 1 .. m - 1 : f[l] # f[k]
    BY <1>2
<1>4. \E x \in 1 .. k : f[x] = f[k] /\ \A l \in 1 .. x - 1 : f[l] # f[x]
    BY <1>3
<1> HIDE DEF T
<1>5. FirstOf(f, k) \in 1 .. k /\ f[FirstOf(f, k)] = f[k]
         /\ \A l \in 1 .. FirstOf(f, k) - 1 : f[l] # f[k]
    BY <1>3 DEF FirstOf
<1> QED
    BY <1>5

LEMMA FirstOfUnique ==
    ASSUME NEW n \in Nat, NEW f \in [1 .. n -> Fingerprints],
           NEW k \in 1 .. n, NEW l \in 1 .. n, f[k] = f[l]
    PROVE  FirstOf(f, k) = FirstOf(f, l)
<1>1. /\ FirstOf(f, k) \in 1 .. k /\ f[FirstOf(f, k)] = f[k]
      /\ \A x \in 1 .. FirstOf(f, k) - 1 : f[x] # f[k]
    BY FirstOfIs
<1>2. /\ FirstOf(f, l) \in 1 .. l /\ f[FirstOf(f, l)] = f[l]
      /\ \A x \in 1 .. FirstOf(f, l) - 1 : f[x] # f[l]
    BY FirstOfIs
<1> HIDE DEF FirstOf
<1>3. ~(FirstOf(f, k) < FirstOf(f, l))
    <2> SUFFICES ASSUME FirstOf(f, k) < FirstOf(f, l)
                 PROVE  FALSE
        OBVIOUS
    <2>1. FirstOf(f, k) \in 1 .. FirstOf(f, l) - 1
        BY <1>1, <1>2
    <2> QED
        BY <1>1, <1>2, <2>1
<1>4. ~(FirstOf(f, l) < FirstOf(f, k))
    <2> SUFFICES ASSUME FirstOf(f, l) < FirstOf(f, k)
                 PROVE  FALSE
        OBVIOUS
    <2>1. FirstOf(f, l) \in 1 .. FirstOf(f, k) - 1
        BY <1>1, <1>2
    <2> QED
        BY <1>1, <1>2, <2>1
<1> QED
    BY <1>1, <1>2, <1>3, <1>4

LEMMA DuplicateOfIs ==
    ASSUME NEW n \in Nat, NEW f \in [1 .. n -> Fingerprints], NEW k \in 1 .. n
    PROVE  /\ DuplicateOf(f, k) \in 0 .. n
           /\ DuplicateOf(f, k) = 0 <=> FirstOf(f, k) = k
           /\ DuplicateOf(f, k) \in {0, FirstOf(f, k)}
<1>1. FirstOf(f, k) \in 1 .. k
    BY FirstOfIs
<1> QED
    BY <1>1 DEF DuplicateOf

Entry(k) == [delivery |-> tries, index |-> k, fingerprint |-> items[k],
             duplicateOf |-> DuplicateOf(items, k)]

(* A batch is well typed, and every fingerprint of it has one original. *)
LEMMA BatchIs ==
    ASSUME Inv, job = "persisting"
    PROVE  /\ Batch \subseteq Candidate
           /\ \A c, d \in Batch : c.delivery = d.delivery
           /\ \A c \in Batch :
                 \E d \in Batch :
                     /\ d.fingerprint = c.fingerprint /\ d.duplicateOf = 0
                     /\ c.duplicateOf \in {0, d.index}
                     /\ c.duplicateOf = 0 => c = d
                     /\ \A e \in Batch :
                           e.fingerprint = c.fingerprint /\ e.duplicateOf = 0 => e = d
<1>1. PICK n \in 0 .. MaxItems : items \in [1 .. n -> Fingerprints]
    BY DEF Inv, Generated, Items
<1>2. n \in Nat /\ DOMAIN items = 1 .. n /\ n <= MaxItems
    BY <1>1, GenerationAssumption
<1>3. Batch = {Entry(k) : k \in 1 .. n}
    BY <1>2 DEF Batch, Entry
<1>4. tries \in 1 .. MaxRetries
    BY GenerationAssumption DEF Inv, RequestTypeOK, Delivered, InSession
<1>5. ASSUME NEW k \in 1 .. n
      PROVE  Entry(k) \in Candidate
    <2>1. DuplicateOf(items, k) \in 0 .. MaxItems
        BY <1>1, <1>2, DuplicateOfIs, GenerationAssumption
    <2>2. items[k] \in Fingerprints /\ k \in 1 .. MaxItems
        BY <1>1, <1>2, GenerationAssumption
    <2> QED
        BY <1>4, <2>1, <2>2 DEF Entry, Candidate
<1>6. ASSUME NEW k \in 1 .. n
      PROVE  \E d \in Batch :
                 /\ d.fingerprint = Entry(k).fingerprint /\ d.duplicateOf = 0
                 /\ Entry(k).duplicateOf \in {0, d.index}
                 /\ Entry(k).duplicateOf = 0 => Entry(k) = d
                 /\ \A e \in Batch :
                       e.fingerprint = Entry(k).fingerprint /\ e.duplicateOf = 0 => e = d
    <2>1. PICK m : m = FirstOf(items, k)
        OBVIOUS
    <2>2. m \in 1 .. n /\ items[m] = items[k]
        BY <1>1, <1>2, <2>1, FirstOfIs, SMTT(30)
    <2>3. FirstOf(items, m) = m
        BY <1>1, <1>2, <2>1, <2>2, FirstOfUnique
    <2>4. DuplicateOf(items, m) = 0
        BY <1>1, <1>2, <2>2, <2>3, DuplicateOfIs
    <2>5. /\ DuplicateOf(items, k) \in {0, m}
          /\ DuplicateOf(items, k) = 0 => k = m
        BY <1>1, <1>2, <2>1, DuplicateOfIs
    <2>6. ASSUME NEW l \in 1 .. n, items[l] = items[k], DuplicateOf(items, l) = 0
          PROVE  l = m
        <3>1. FirstOf(items, l) = m
            BY <1>1, <1>2, <2>1, <2>6, FirstOfUnique
        <3> QED
            BY <1>1, <1>2, <2>6, <3>1, DuplicateOfIs
    <2>7. Entry(m) \in Batch
        BY <1>3, <2>2
    <2>8. /\ Entry(m).fingerprint = Entry(k).fingerprint /\ Entry(m).duplicateOf = 0
          /\ Entry(k).duplicateOf \in {0, Entry(m).index}
          /\ Entry(k).duplicateOf = 0 => Entry(k) = Entry(m)
        BY <2>2, <2>4, <2>5 DEF Entry
    <2>9. ASSUME NEW e \in Batch, e.fingerprint = Entry(k).fingerprint, e.duplicateOf = 0
          PROVE  e = Entry(m)
        <3>1. PICK l \in 1 .. n : e = Entry(l)
            BY <1>3
        <3>2. items[l] = items[k] /\ DuplicateOf(items, l) = 0
            BY <2>9, <3>1 DEF Entry
        <3> QED
            BY <2>6, <3>1, <3>2
    <2> QED
        BY <2>7, <2>8, <2>9
<1>7. \A k, l \in 1 .. n : Entry(k).delivery = Entry(l).delivery
    BY DEF Entry
<1> HIDE DEF Entry
<1>8. Batch \subseteq Candidate
    BY <1>3, <1>5
<1>9. \A c, d \in Batch : c.delivery = d.delivery
    BY <1>3, <1>7
<1> QED
    BY <1>3, <1>6, <1>8, <1>9

LEMMA FinishPreserves ==
    ASSUME Inv, Finish
    PROVE  Inv'
<1> USE DEF SetRequestStatus
<1>1. PICK p \in {"done", Redelivery} : EndSession(p)
    BY DEF Finish
<1>2. /\ job = "persisting" /\ job \in InSession
      /\ UNCHANGED <<requests, tries, faults>>
      /\ requestStatus' = "COMPLETED" /\ heartbeat' = "FRESH"
    BY DEF Finish, InSession
<1>3. candidates' = Batch
    BY <1>2 DEF Finish, Inv, Published
<1>4. job' \in JobPhase \ InSession /\ Delivered' /\ Generated'
    BY <1>1, <1>2, EndSessionKeeps
<1>5. items' \in Items \cup {NoItems}
    BY <1>1, <1>2, EndSessionKeeps
<1>6. RequestTypeOK'
    BY <1>2, <1>3, <1>4, <1>5, BatchIs DEF Inv, RequestTypeOK, requests, Status, Terminal
<1>7. OneBatch'
    BY <1>2, <1>3, BatchIs DEF OneBatch
<1>8. OneOriginal'
    BY <1>2, <1>3, BatchIs DEF OneOriginal
<1>9. Published'
    BY <1>2, <1>4, <1>7, <1>8 DEF Published, Terminal
<1> QED
    BY <1>4, <1>6, <1>9 DEF Inv

LEMMA StutterPreserves ==
    ASSUME Inv, UNCHANGED requestVars
    PROVE  Inv'
<1> USE DEF requestVars, row, requests
<1>1. RequestTypeOK' /\ Delivered'
    BY DEF Inv, RequestTypeOK, Delivered
<1> QED
    BY <1>1, RowStep

LEMMA NextPreserves == Inv /\ [RequestNext]_requestVars => Inv'
BY RequestsPreserve, LoadPreserves, MarkRunningPreserves, GeneratePreserves,
   FinishPreserves, StopPreserves, StutterPreserves DEF RequestNext, Run

LEMMA InvHolds == RequestSpec => []Inv
BY InitInv, NextPreserves, PTL DEF RequestSpec
-----------------------------------------------------------------------------
(* Status, heartbeat, candidates and tries of a request keep their types. *)
THEOREM TypeCorrect == RequestSpec => []RequestTypeOK
<1>1. Inv => RequestTypeOK
    BY DEF Inv
<1> QED
    BY <1>1, InvHolds, PTL

(* A request never gets the candidates of two deliveries, although a delivery
   may be repeated when its time-out strikes while it commits. *)
THEOREM OneBatchOnly == RequestSpec => []OneBatch
<1>1. Inv => OneBatch
    BY DEF Inv, Published
<1> QED
    BY <1>1, InvHolds, PTL

(* duplicate_of is right for every output of a provider: each fingerprint has
   one original, which its duplicates name. *)
THEOREM OneOriginalEach == RequestSpec => []OneOriginal
<1>1. Inv => OneOriginal
    BY DEF Inv, Published
<1> QED
    BY <1>1, InvHolds, PTL
=============================================================================
