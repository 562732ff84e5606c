------------------------- MODULE CanonicalBuild_proofs -------------------------
(***************************************************************************)
(* Proofs about CanonicalBuild for any set of builders, releases, cases    *)
(* and contents.                                                           *)
(***************************************************************************)
EXTENDS CanonicalBuild, TLAPS

-----------------------------------------------------------------------------
(* Lemmas about the operators on records.                                  *)

(* A projection has the type of the records it is made from.               *)
LEMMA ProjectionType ==
    ASSUME NEW recs \in Projections, NEW corpus \in Corpora, NEW r \in Releases
    PROVE  ProjectedRecords(recs, corpus, r) \in Projections
<1> SUFFICES ASSUME NEW c \in Cases
             PROVE  ProjectedRecord(recs[c], corpus[c], r) \in IssuedCaseRecord
    BY DEF ProjectedRecords, Projections
<1>1. recs[c] \in IssuedCaseRecord /\ corpus[c] \in OptContent
    BY DEF Projections, Corpora
<1>2. QED
    BY <1>1 DEF ProjectedRecord, IssuedCaseRecord, OptRelease, OptContent

LEMMA DeltasType ==
    ASSUME NEW recs, NEW corpus
    PROVE  RunDeltas(recs, corpus) \in Deltas
BY DEF RunDeltas, Deltas

(* The writes of a commit, row by row, produce exactly the projection that *)
(* the receipt carries when it was projected from the same records.        *)
LEMMA CommitWritesProjection ==
    ASSUME NEW recs \in Projections, NEW corpus \in Corpora, NEW r \in Releases
    PROVE  CommittedRecords(recs, ProjectedRecords(recs, corpus, r))
              = ProjectedRecords(recs, corpus, r)
<1> SUFFICES ASSUME NEW c \in Cases
             PROVE  CommittedRecord(recs[c], ProjectedRecord(recs[c], corpus[c], r))
                       = ProjectedRecord(recs[c], corpus[c], r)
    BY DEF CommittedRecords, ProjectedRecords
<1>1. recs[c] \in IssuedCaseRecord /\ corpus[c] \in OptContent
    BY DEF Projections, Corpora
<1>2. CASE recs[c].state = "unissued"
    BY <1>1, <1>2 DEF CommittedRecord, ProjectedRecord
<1>3. CASE recs[c].state = "retired"
    BY <1>1, <1>3 DEF CommittedRecord, ProjectedRecord
<1>4. CASE recs[c].state = "active"
    BY <1>1, <1>4 DEF CommittedRecord, ProjectedRecord, IssuedCaseRecord
<1>5. QED
    BY <1>1, <1>2, <1>3, <1>4 DEF IssuedCaseRecord

LEMMA NoJobType == NoJob \in Jobs
<1>1. (CHOOSE r \in Releases : TRUE) \in Releases
    BY SomeRelease
<1>2. [c \in Cases |-> None] \in Corpora
    BY DEF Corpora, OptContent
<1>3. NoRecords \in Projections
    BY DEF NoRecords, Unissued, Projections, IssuedCaseRecord, OptRelease, OptContent
<1>4. Genesis \in IssuanceHeads
    BY DEF Genesis, IssuanceHeads, OptRelease, Ledgers
<1>5. [created |-> {}, changed |-> {}, deleted |-> {}] \in Deltas
    BY DEF Deltas
<1>6. QED
    BY <1>1, <1>2, <1>3, <1>4, <1>5 DEF NoJob, Jobs

-----------------------------------------------------------------------------
LEMMA ManifestType ==
    ASSUME TypeOK, NEW b \in Builders
    PROVE  Manifest(b) \in Bundles
BY DEF TypeOK, Manifest, Jobs, Bundles, IssuanceHeads

(* Every reachable state is well typed.                                    *)
LEMMA InitType == Init => TypeOK
<1>1. NoRecords \in Projections
    BY DEF NoRecords, Unissued, Projections, IssuedCaseRecord, OptRelease, OptContent
<1>2. Genesis \in IssuanceHeads
    BY DEF Genesis, IssuanceHeads, OptRelease, Ledgers
<1>3. QED
    BY <1>1, <1>2, NoJobType
    DEF Init, TypeOK, Ledgers, Steps, Leased, Directories, Absent

LEMMA StepType == TypeOK /\ [Next]_vars => TypeOK'
<1> SUFFICES ASSUME TypeOK, [Next]_vars PROVE TypeOK'
    OBVIOUS
<1> USE NoJobType DEF TypeOK, Steps, Leased, Published, Goto, Finish, CloseLease
<1>1. ASSUME NEW b \in Builders, Start(b) PROVE TypeOK'
    <2> PICK r \in Releases, corpus \in ReviewedCorpora : ReadSnapshot(b, r, corpus)
        BY <1>1 DEF Start
    <2>1. corpus \in Corpora
        BY DEF ReviewedCorpora
    <2>2. [NoJob EXCEPT !.release = r, !.corpus = corpus, !.expected = meta,
                        !.deltas = RunDeltas(records, corpus)] \in Jobs
        BY <2>1, DeltasType DEF Jobs
    <2>3. QED
        BY <2>2 DEF ReadSnapshot
<1>2. ASSUME NEW b \in Builders, CheckTarget(b) PROVE TypeOK'
    BY <1>2 DEF CheckTarget
<1>3. ASSUME NEW b \in Builders, RejectInput(b) PROVE TypeOK'
    BY <1>3 DEF RejectInput
<1>4. ASSUME NEW b \in Builders, AcquireLease(b) PROVE TypeOK'
    BY <1>4 DEF AcquireLease, Jobs
<1>5. ASSUME NEW b \in Builders, LeaseBusy(b) PROVE TypeOK'
    BY <1>5 DEF LeaseBusy
<1>6. ASSUME NEW b \in Builders, WriteStorage(b) PROVE TypeOK'
    <2>1. ProjectedRecords(records, job[b].corpus, job[b].release) \in Projections
        BY ProjectionType DEF Jobs
    <2>2. job' \in [Builders -> Jobs]
        BY <1>6, <2>1 DEF WriteStorage, Jobs
    <2>3. QED
        BY <1>6, <2>2 DEF WriteStorage
<1>7. ASSUME NEW b \in Builders, Publish(b) PROVE TypeOK'
    <2>1. Complete(Manifest(b)) \in Directories
        BY ManifestType DEF Complete, Directories
    <2>2. target' \in [Releases -> Directories]
        BY <1>7, <2>1 DEF Publish
    <2>3. QED
        BY <1>7, <2>2 DEF Publish
<1>8. ASSUME NEW b \in Builders, SyncParent(b) PROVE TypeOK'
    <2>1. target[job[b].release] \in Directories
        BY DEF Jobs
    <2>2. QED
        BY <1>8, <2>1 DEF SyncParent
<1>9. ASSUME NEW b \in Builders, Bind(b) PROVE TypeOK'
    BY <1>9 DEF Bind
<1>10. ASSUME NEW b \in Builders, Commit(b) PROVE TypeOK'
    <2>1. CASE ~CommitAcceptsAll(records, job[b].projection, job[b].release)
        BY <1>10, <2>1 DEF Commit
    <2>2. CASE CommitAcceptsAll(records, job[b].projection, job[b].release)
        <3>1. CommittedRecords(records, job[b].projection) \in Projections
            <4> SUFFICES ASSUME NEW c \in Cases
                         PROVE  CommittedRecord(records[c], job[b].projection[c])
                                    \in IssuedCaseRecord
                BY DEF CommittedRecords, Projections
            <4>1. /\ records[c] \in IssuedCaseRecord
                  /\ job[b].projection[c] \in IssuedCaseRecord
                BY DEF Jobs, Projections
            <4>2. QED
                BY <4>1 DEF CommittedRecord, IssuedCaseRecord
        <3>2. IssuedRow(b) \in IssuedReleaseRecord
            BY ManifestType DEF IssuedRow, IssuedReleaseRecord, Jobs, IssuanceHeads
        <3>3. Append(releases, IssuedRow(b)) \in Ledgers
            BY <3>2 DEF Ledgers
        <3>4. Append(job[b].head.authority, IssuedRow(b)) \in Ledgers
            BY <3>2 DEF Ledgers, Jobs, IssuanceHeads
        <3>5. meta' \in IssuanceHeads
            <4>1. job[b].release \in OptRelease /\ job[b].head.generation + 1 \in Nat
                BY DEF Jobs, IssuanceHeads, OptRelease
            <4>2. meta' = [generation |-> job[b].head.generation + 1,
                           release |-> job[b].release,
                           authority |-> Append(job[b].head.authority, IssuedRow(b))]
                BY <1>10, <2>2 DEF Commit
            <4>3. QED
                BY <3>4, <4>1, <4>2 DEF IssuanceHeads
        <3>6. QED
            BY <1>10, <2>2, <3>1, <3>3, <3>5 DEF Commit
    <2>3. QED
        BY <2>1, <2>2
<1>11. ASSUME NEW b \in Builders, BuildFails(b) PROVE TypeOK'
    BY <1>11 DEF BuildFails
<1>12. ASSUME NEW b \in Builders, CommitError(b) PROVE TypeOK'
    BY <1>12 DEF CommitError
<1>13. ASSUME NEW b \in Builders, RemoveTemporary(b) PROVE TypeOK'
    BY <1>13 DEF RemoveTemporary
<1>14. ASSUME NEW b \in Builders, EmptyTarget(b) PROVE TypeOK'
    BY <1>14 DEF EmptyTarget, Directories, Absent, Empty
<1>15. ASSUME NEW b \in Builders, RemoveTarget(b) PROVE TypeOK'
    BY <1>15 DEF RemoveTarget, Directories, Absent, Empty
<1>16. ASSUME NEW b \in Builders, Crash(b) PROVE TypeOK'
    BY <1>16 DEF Crash
<1>17. ASSUME NEW b \in Builders, RemovalFails(b) PROVE TypeOK'
    <2>1. job[b].release \in Releases /\ Partial \in Directories
        BY DEF Jobs, Directories, Partial
    <2>2. target' \in [Releases -> Directories]
        BY <1>17, <2>1 DEF RemovalFails
    <2>3. QED
        BY <1>17, <2>2 DEF RemovalFails
<1>18. ASSUME NEW b \in Builders, LeaveTarget(b) PROVE TypeOK'
    BY <1>18 DEF LeaveTarget
<1>19. CASE PowerLoss
    <2>1. \A r \in Releases : Survivors(r) \subseteq Directories
        BY DEF Survivors, Directories, Empty, Partial
    <2>2. target' \in [Releases -> Directories]
        BY <1>19, <2>1 DEF PowerLoss
    <2>3. QED
        BY <1>19, <2>2 DEF PowerLoss
<1>20. CASE UNCHANGED vars
    BY <1>20 DEF vars
<1>21. QED
    BY <1>1, <1>2, <1>3, <1>4, <1>5, <1>6, <1>7, <1>8, <1>9, <1>10, <1>11, <1>12,
       <1>13, <1>14, <1>15, <1>16, <1>17, <1>18, <1>19, <1>20
    DEF Next, BuilderNext, Build, Cleanup, Faults

(* Type correctness of the whole specification.                            *)
THEOREM TypeCorrect == Spec => []TypeOK
BY InitType, StepType, PTL DEF Spec

-----------------------------------------------------------------------------
(* The inductive invariant.  None of the four safety invariants is         *)
(* inductive alone: a bundle stays whole because nobody but its publisher  *)
(* removes it (CleanupTouchesOwnBundle), which holds because a release is  *)
(* not issued while its builder has the lease (LeaseIsCurrent).            *)
RowsAreConsistent ==
    \A i \in DOMAIN releases : releases[i].bundle.release = releases[i].release

WorksOnCases == \A b \in Builders : pc[b] # "idle" => job[b].corpus \in ReviewedCorpora

IInv ==
    /\ TypeOK
    /\ LeaseIsCurrent
    /\ CleanupTouchesOwnBundle
    /\ IssuedBundleDurable
    /\ HeadReadable
    /\ RowsAreConsistent
    /\ WorksOnCases

LEMMA InitIInv == Init => IInv
<1> SUFFICES ASSUME Init PROVE IInv
    OBVIOUS
<1>1. TypeOK
    BY InitType
<1>2. LeaseIsCurrent /\ CleanupTouchesOwnBundle
    BY BuildersAreFresh
    DEF Init, LeaseIsCurrent, CleanupTouchesOwnBundle, Leased, Published, Owns
<1>3. IssuedBundleDurable /\ RowsAreConsistent /\ WorksOnCases
    BY DEF Init, IssuedBundleDurable, RowsAreConsistent, WorksOnCases
<1>4. HeadReadable
    BY DEF Init, HeadReadable, ReadHeadAccepts, Genesis, PredecessorOf
<1>5. QED
    BY <1>1, <1>2, <1>3, <1>4 DEF IInv

(* Whoever gives up the lease, or never had it, disturbs nothing.          *)
LEMMA GiveUp ==
    ASSUME IInv, TypeOK', NEW b \in Builders,
           pc'[b] \notin Leased \cup {"emptying"},
           pc'[b] # "idle" => job'[b].corpus \in ReviewedCorpora,
           \A a \in Builders \ {b} : pc'[a] = pc[a] /\ job'[a] = job[a],
           lock' = IF lock = b THEN None ELSE lock,
           UNCHANGED <<meta, records, releases, target, disk>>
    PROVE  IInv'
<1>1. LeaseIsCurrent'
    BY BuildersAreFresh DEF IInv, LeaseIsCurrent, Leased, Manifest
<1>2. CleanupTouchesOwnBundle'
    BY DEF IInv, CleanupTouchesOwnBundle, Owns, Published, Leased, Manifest, Issued
<1>3. /\ IssuedBundleDurable'
      /\ HeadReadable'
      /\ RowsAreConsistent'
    BY DEF IInv, IssuedBundleDurable, HeadReadable, RowsAreConsistent
<1>4. WorksOnCases'
    BY DEF IInv, WorksOnCases
<1>5. QED
    BY <1>1, <1>2, <1>3, <1>4 DEF IInv

(* A failure after the rename closes the lease and keeps the ownership.    *)
LEMMA TurnToCleanup ==
    ASSUME IInv, TypeOK', NEW b \in Builders,
           pc[b] \in Published,
           pc' = [pc EXCEPT ![b] = "emptying"],
           lock' = IF lock = b THEN None ELSE lock,
           UNCHANGED <<meta, records, releases, job, target, disk>>
    PROVE  IInv'
<1>0. pc \in [Builders -> Steps]
    BY DEF IInv, TypeOK
<1>1. LeaseIsCurrent'
    BY <1>0, BuildersAreFresh DEF IInv, LeaseIsCurrent, Leased, Published, Manifest
<1>2. CleanupTouchesOwnBundle'
    BY <1>0 DEF IInv, CleanupTouchesOwnBundle, Owns, Published, Manifest, Issued
<1>3. /\ IssuedBundleDurable'
      /\ HeadReadable'
      /\ RowsAreConsistent'
    BY DEF IInv, IssuedBundleDurable, HeadReadable, RowsAreConsistent
<1>4. WorksOnCases'
    BY <1>0 DEF IInv, WorksOnCases, Published
<1>5. QED
    BY <1>1, <1>2, <1>3, <1>4 DEF IInv

(* The steps under the lease.                                              *)
LEMMA LeaseSteps ==
    ASSUME IInv, TypeOK', NEW b \in Builders,
           \/ AcquireLease(b) /\ pc'[b] = "leased"
           \/ WriteStorage(b) /\ pc'[b] = "written"
           \/ SyncParent(b)
           \/ Bind(b) /\ pc'[b] = "bound"
    PROVE  IInv'
<1> USE DEF IInv
<1>0. /\ pc \in [Builders -> Steps] /\ job \in [Builders -> Jobs]
      /\ disk \in [Releases -> Directories]
      /\ job[b].release \in Releases
    BY DEF TypeOK, Jobs
<1>1. CASE AcquireLease(b) /\ pc'[b] = "leased"
    <2>1. /\ lock = None /\ lock' = b
          /\ job' = [job EXCEPT ![b].head = meta]
          /\ pc' = [pc EXCEPT ![b] = "leased"]
          /\ meta = job[b].expected /\ pc[b] = "prepared"
          /\ UNCHANGED <<meta, records, releases, target, disk>>
        BY <1>0, <1>1 DEF AcquireLease, Goto
    <2>2. LeaseIsCurrent'
        BY <1>0, <2>1, BuildersAreFresh DEF LeaseIsCurrent, Leased
    <2>3. CleanupTouchesOwnBundle'
        BY <1>0, <2>1 DEF CleanupTouchesOwnBundle, Owns, Published, Manifest, Issued
    <2>4. IssuedBundleDurable' /\ HeadReadable' /\ RowsAreConsistent'
        BY <2>1 DEF IssuedBundleDurable, HeadReadable, RowsAreConsistent
    <2>5. WorksOnCases'
        BY <1>0, <2>1 DEF WorksOnCases
    <2>6. QED
        BY <2>2, <2>3, <2>4, <2>5
<1>2. CASE WriteStorage(b) /\ pc'[b] = "written"
    <2>1. /\ StorageAccepts(b) /\ pc[b] = "leased"
          /\ job' = [job EXCEPT ![b].projection =
                       ProjectedRecords(records, job[b].corpus, job[b].release)]
          /\ pc' = [pc EXCEPT ![b] = "written"]
          /\ UNCHANGED <<meta, records, releases, lock, target, disk>>
        BY <1>0, <1>2 DEF WriteStorage, Goto
    <2>2. /\ job'[b].projection =
                ProjectedRecords(records, job'[b].corpus, job'[b].release)
          /\ job'[b].release = job[b].release /\ job'[b].corpus = job[b].corpus
          /\ job'[b].deltas = job[b].deltas /\ job'[b].head = job[b].head
          /\ job'[b].expected = job[b].expected
          /\ \A a \in Builders \ {b} : job'[a] = job[a] /\ pc'[a] = pc[a]
          /\ pc'[b] = "written"
        BY <1>0, <2>1 DEF Jobs
    <2>3. LeaseIsCurrent'
        <3>1. /\ lock = b /\ job[b].head = meta /\ job[b].expected = meta
              /\ \A a \in Builders \ {b} : pc[a] \notin Leased
            BY <2>1 DEF LeaseIsCurrent, Leased
        <3>2. /\ job'[b].deltas = RunDeltas(records, job'[b].corpus)
              /\ job'[b].release \notin IssuedIds(releases)
              /\ ~Reactivates(records, job'[b].corpus)
            BY <2>1, <2>2 DEF StorageAccepts
        <3>3. QED
            BY <2>1, <2>2, <3>1, <3>2 DEF LeaseIsCurrent, Leased
    <2>4. CleanupTouchesOwnBundle'
        BY <2>1, <2>2 DEF CleanupTouchesOwnBundle, Owns, Published, Manifest, Issued
    <2>5. IssuedBundleDurable' /\ HeadReadable' /\ RowsAreConsistent'
        BY <2>1 DEF IssuedBundleDurable, HeadReadable, RowsAreConsistent
    <2>6. WorksOnCases'
        BY <2>1, <2>2 DEF WorksOnCases
    <2>7. QED
        BY <2>3, <2>4, <2>5, <2>6
<1>3. CASE SyncParent(b)
    <2>1. /\ pc[b] = "renamed" /\ pc' = [pc EXCEPT ![b] = "synced"]
          /\ disk' = [disk EXCEPT ![job[b].release] = target[job[b].release]]
          /\ UNCHANGED <<meta, records, releases, lock, job, target>>
        BY <1>3 DEF SyncParent, Goto
    <2>2. /\ target[job[b].release] = Complete(Manifest(b))
          /\ ~Issued(job[b].release)
          /\ disk'[job[b].release] = Complete(Manifest(b))
        BY <1>0, <2>1 DEF CleanupTouchesOwnBundle, Owns, Published
    <2>3. LeaseIsCurrent'
        BY <1>0, <2>1, <2>2 DEF LeaseIsCurrent, Leased, Manifest
    <2>4. CleanupTouchesOwnBundle'
        BY <1>0, <2>1 DEF CleanupTouchesOwnBundle, Owns, Published, Manifest, Issued
    <2>5. IssuedBundleDurable'
        BY <1>0, <2>1, <2>2 DEF IssuedBundleDurable, Issued, IssuedIds
    <2>6. HeadReadable' /\ RowsAreConsistent' /\ WorksOnCases'
        BY <1>0, <2>1 DEF HeadReadable, RowsAreConsistent, WorksOnCases
    <2>7. QED
        BY <2>3, <2>4, <2>5, <2>6
<1>4. CASE Bind(b) /\ pc'[b] = "bound"
    <2>1. /\ pc[b] = "synced" /\ pc' = [pc EXCEPT ![b] = "bound"]
          /\ UNCHANGED <<meta, records, releases, lock, job, target, disk>>
        BY <1>0, <1>4 DEF Bind, Goto
    <2>2. LeaseIsCurrent'
        BY <1>0, <2>1 DEF LeaseIsCurrent, Leased, Manifest
    <2>3. CleanupTouchesOwnBundle'
        BY <1>0, <2>1 DEF CleanupTouchesOwnBundle, Owns, Published, Manifest, Issued
    <2>4. IssuedBundleDurable' /\ HeadReadable' /\ RowsAreConsistent' /\ WorksOnCases'
        BY <1>0, <2>1 DEF IssuedBundleDurable, HeadReadable, RowsAreConsistent, WorksOnCases
    <2>5. QED
        BY <2>2, <2>3, <2>4
<1>5. QED
    BY <1>1, <1>2, <1>3, <1>4

LEMMA RowType ==
    ASSUME TypeOK, NEW i \in DOMAIN releases
    PROVE  releases[i] \in IssuedReleaseRecord
<1>1. releases \in Seq(IssuedReleaseRecord) /\ DOMAIN releases = 1..Len(releases)
    BY DEF TypeOK, Ledgers
<1>2. QED
    BY <1>1

LEMMA CompleteIsNotRemoved ==
    ASSUME NEW bundle
    PROVE  Complete(bundle) # Absent /\ Complete(bundle) # Empty
<1>1. /\ Complete(bundle).kind = "bundle"
      /\ Absent.kind = "absent" /\ Empty.kind = "empty"
    BY DEF Complete, Absent, Empty
<1>2. QED
    BY <1>1

(* The rename: whoever else owned a bundle of this release would have it   *)
(* in the target, and the rename would have failed.                        *)
LEMMA PublishStep ==
    ASSUME IInv, TypeOK', NEW b \in Builders, Publish(b), pc'[b] = "renamed"
    PROVE  IInv'
<1> USE DEF IInv
<1> DEFINE r == job[b].release
<1>0. /\ pc \in [Builders -> Steps] /\ job \in [Builders -> Jobs]
      /\ target \in [Releases -> Directories] /\ r \in Releases
    BY DEF TypeOK, Jobs
<1>1. /\ pc[b] = "written" /\ pc' = [pc EXCEPT ![b] = "renamed"]
      /\ target[r] \in {Absent, Empty}
      /\ target' = [target EXCEPT ![r] = Complete(Manifest(b))]
      /\ UNCHANGED <<meta, records, releases, lock, job, disk>>
    BY <1>0 DEF Publish, Goto
<1>2. ~Issued(r)
    BY <1>1 DEF LeaseIsCurrent, Leased, Issued
<1>3. \A a \in Builders : Owns(a) => job[a].release # r
    <2>1. \A a \in Builders : Owns(a) => target[job[a].release] = Complete(Manifest(a))
        BY DEF CleanupTouchesOwnBundle
    <2>2. QED
        BY <1>1, <2>1, CompleteIsNotRemoved
<1>4. LeaseIsCurrent'
    BY <1>0, <1>1 DEF LeaseIsCurrent, Leased, Manifest
<1>5. CleanupTouchesOwnBundle'
    <2>1. \A a \in Builders \ {b} : Owns(a)' = Owns(a) /\ Manifest(a)' = Manifest(a)
        BY <1>0, <1>1 DEF Owns, Manifest
    <2>2. target'[r] = Complete(Manifest(b))' /\ job'[b].release = r
        BY <1>0, <1>1 DEF Manifest, Complete
    <2>3. QED
        BY <1>0, <1>1, <1>2, <1>3, <2>1, <2>2
        DEF CleanupTouchesOwnBundle, Issued, Complete
<1>6. IssuedBundleDurable'
    BY <1>0, <1>1, <1>2 DEF IssuedBundleDurable, Issued, IssuedIds
<1>7. HeadReadable' /\ RowsAreConsistent' /\ WorksOnCases'
    BY <1>0, <1>1 DEF HeadReadable, RowsAreConsistent, WorksOnCases
<1>8. QED
    BY <1>4, <1>5, <1>6, <1>7

(* The two halves of rmtree(target), and a removal the file system refuses.*)
LEMMA RemovalSteps ==
    ASSUME IInv, TypeOK', NEW b \in Builders,
           EmptyTarget(b) \/ RemovalFails(b) \/ RemoveTarget(b)
    PROVE  IInv'
<1> USE DEF IInv
<1> DEFINE r == job[b].release
<1>0. /\ pc \in [Builders -> Steps] /\ job \in [Builders -> Jobs]
      /\ target \in [Releases -> Directories] /\ r \in Releases
    BY DEF TypeOK, Jobs
<1>1. CASE pc[b] = "emptying" /\ (EmptyTarget(b) \/ RemovalFails(b))
    <2>1. /\ pc[b] = "emptying"
          /\ \E step \in {"removing", "refused"} : pc' = [pc EXCEPT ![b] = step]
          /\ \A q \in Releases \ {r} : target'[q] = target[q]
          /\ UNCHANGED <<meta, records, releases, lock, job, disk>>
        BY <1>0, <1>1 DEF EmptyTarget, RemovalFails, Goto
    <2>2. /\ ~Issued(r)
          /\ \A a \in Builders \ {b} : Owns(a) => job[a].release # r
        BY <2>1 DEF CleanupTouchesOwnBundle, Owns
    <2>3. LeaseIsCurrent'
        BY <1>0, <2>1 DEF LeaseIsCurrent, Leased, Manifest
    <2>4. CleanupTouchesOwnBundle'
        <3>1. \A a \in Builders : job[a].release \in Releases
            BY <1>0 DEF Jobs
        <3>2. QED
            BY <1>0, <2>1, <2>2, <3>1
            DEF CleanupTouchesOwnBundle, Owns, Published, Manifest, Issued
    <2>5. IssuedBundleDurable'
        <3>1. \A i \in DOMAIN releases :
                 releases[i].release \in Releases /\ releases[i].release # r
            BY <2>2, RowType DEF Issued, IssuedIds, IssuedReleaseRecord
        <3>2. QED
            BY <2>1, <3>1 DEF IssuedBundleDurable
    <2>6. HeadReadable' /\ RowsAreConsistent' /\ WorksOnCases'
        BY <1>0, <2>1 DEF HeadReadable, RowsAreConsistent, WorksOnCases
    <2>7. QED
        BY <2>3, <2>4, <2>5, <2>6
<1>2. CASE RemoveTarget(b)
    <2>1. /\ pc[b] = "removing" /\ pc' = [pc EXCEPT ![b] = "idle"]
          /\ job' = [job EXCEPT ![b] = NoJob]
          /\ target' = [target EXCEPT ![r] = IF @ = Empty THEN Absent ELSE @]
          /\ UNCHANGED <<meta, records, releases, lock, disk>>
        BY <1>2 DEF RemoveTarget, Goto, Finish
    <2>2. \A q \in Releases : target[q] # Empty => target'[q] = target[q]
        BY <1>0, <2>1
    <2>3. LeaseIsCurrent'
        BY <1>0, <2>1 DEF LeaseIsCurrent, Leased, Manifest
    <2>4. CleanupTouchesOwnBundle'
        <3>1. \A a \in Builders : job[a].release \in Releases
            BY <1>0 DEF Jobs
        <3>2. \A a \in Builders \ {b} :
                  Owns(a) => target'[job[a].release] = Complete(Manifest(a))
            BY <2>2, <3>1, CompleteIsNotRemoved DEF CleanupTouchesOwnBundle
        <3>3. QED
            BY <1>0, <2>1, <3>2
            DEF CleanupTouchesOwnBundle, Owns, Published, Manifest, Issued
    <2>5. IssuedBundleDurable'
        <3>1. \A i \in DOMAIN releases : releases[i].release \in Releases
            BY RowType DEF IssuedReleaseRecord
        <3>2. QED
            BY <2>1, <2>2, <3>1, CompleteIsNotRemoved DEF IssuedBundleDurable
    <2>6. HeadReadable' /\ RowsAreConsistent' /\ WorksOnCases'
        BY <1>0, <2>1 DEF HeadReadable, RowsAreConsistent, WorksOnCases
    <2>7. QED
        BY <2>3, <2>4, <2>5, <2>6
<1>3. CASE pc[b] = "removing" /\ RemovalFails(b)
    <2>1. /\ pc' = [pc EXCEPT ![b] = "refused"]
          /\ UNCHANGED <<meta, records, releases, lock, job, target, disk>>
        BY <1>3 DEF RemovalFails, Goto
    <2>2. LeaseIsCurrent'
        BY <1>0, <1>3, <2>1 DEF LeaseIsCurrent, Leased, Manifest
    <2>3. CleanupTouchesOwnBundle'
        BY <1>0, <1>3, <2>1 DEF CleanupTouchesOwnBundle, Owns, Published, Manifest, Issued
    <2>4. IssuedBundleDurable' /\ HeadReadable' /\ RowsAreConsistent' /\ WorksOnCases'
        BY <1>0, <1>3, <2>1
        DEF IssuedBundleDurable, HeadReadable, RowsAreConsistent, WorksOnCases
    <2>5. QED
        BY <2>2, <2>3, <2>4
<1>4. QED
    BY <1>1, <1>2, <1>3 DEF EmptyTarget, RemovalFails

(* What a builder that commits successfully writes: by the lease, it is    *)
(* the issuance of its corpus on top of the current registry.              *)
LEMMA CommitWrites ==
    ASSUME IInv, NEW b \in Builders, Commit(b),
           CommitAcceptsAll(records, job[b].projection, job[b].release)
    PROVE  /\ records' = ProjectedRecords(records, job[b].corpus, job[b].release)
           /\ job[b].projection = records'
           /\ job[b].deltas = RunDeltas(records, job[b].corpus)
           /\ releases' = Append(releases, IssuedRow(b))
           /\ meta' = [generation |-> meta.generation + 1,
                       release |-> job[b].release,
                       authority |-> Append(meta.authority, IssuedRow(b))]
           /\ pc[b] = "bound" /\ lock = b /\ lock' = None
           /\ job[b].head = meta /\ job[b].expected = meta
           /\ job[b].release \notin IssuedIds(releases)
           /\ ~Reactivates(records, job[b].corpus)
           /\ job[b].corpus \in ReviewedCorpora
<1>1. pc[b] = "bound" /\ lock = b /\ lock' = None
    BY DEF IInv, LeaseIsCurrent, Leased, Commit, CloseLease
<1>2. /\ job[b].head = meta /\ job[b].expected = meta
      /\ job[b].deltas = RunDeltas(records, job[b].corpus)
      /\ job[b].projection = ProjectedRecords(records, job[b].corpus, job[b].release)
      /\ job[b].release \notin IssuedIds(releases)
      /\ ~Reactivates(records, job[b].corpus)
    BY <1>1 DEF IInv, LeaseIsCurrent, Leased
<1>3. /\ job[b].corpus \in ReviewedCorpora /\ job[b].corpus \in Corpora
      /\ job[b].release \in Releases /\ records \in Projections
    BY <1>1 DEF IInv, WorksOnCases, ReviewedCorpora, TypeOK, Jobs
<1>4. records' = ProjectedRecords(records, job[b].corpus, job[b].release)
    BY <1>2, <1>3, CommitWritesProjection DEF Commit
<1>5. /\ releases' = Append(releases, IssuedRow(b))
      /\ meta' = [generation |-> meta.generation + 1,
                  release |-> job[b].release,
                  authority |-> Append(meta.authority, IssuedRow(b))]
    BY <1>2 DEF Commit
<1>6. QED
    BY <1>1, <1>2, <1>3, <1>4, <1>5

LEMMA CommitStep ==
    ASSUME IInv, TypeOK', NEW b \in Builders, Commit(b),
           CommitAcceptsAll(records, job[b].projection, job[b].release)
    PROVE  IInv'
<1> DEFINE r == job[b].release
           row == IssuedRow(b)
           n == Len(releases)
<1>0. /\ pc \in [Builders -> Steps] /\ job \in [Builders -> Jobs]
      /\ r \in Releases
      /\ releases \in Seq(IssuedReleaseRecord) /\ row \in IssuedReleaseRecord
    BY ManifestType
    DEF IInv, TypeOK, Ledgers, Jobs, IssuedRow, IssuedReleaseRecord, IssuanceHeads
<1>1. /\ n \in Nat /\ Len(releases') = n + 1
      /\ DOMAIN releases = 1..n /\ DOMAIN releases' = 1..(n+1)
      /\ \A i \in 1..n : releases'[i] = releases[i]
      /\ releases'[n+1] = row
    <2>1. releases' = Append(releases, row)
        BY CommitWrites
    <2>2. QED
        BY <1>0, <2>1
<1>2. /\ row.release = r /\ row.bundle = Manifest(b) /\ Manifest(b).release = r
      /\ row.projection = job[b].projection
      /\ row.predecessor = meta.release
    BY CommitWrites DEF IssuedRow, Manifest
<1>3. /\ pc' = [pc EXCEPT ![b] = "idle"] /\ job' = [job EXCEPT ![b] = NoJob]
      /\ UNCHANGED <<target, disk>>
    BY DEF Commit, Finish, Goto
<1>4. \A i \in 1..n : releases[i].release # r
    BY <1>1, CommitWrites DEF IssuedIds
<1>5. \A q : Issued(q)' => Issued(q) \/ q = r
    BY <1>1, <1>2 DEF Issued, IssuedIds
<1>6. LeaseIsCurrent'
    <2>1. \A a \in Builders : pc'[a] \notin Leased
        BY <1>0, <1>3, CommitWrites DEF IInv, LeaseIsCurrent, Leased
    <2>2. \A a \in Builders : lock' # a
        BY CommitWrites, BuildersAreFresh
    <2>3. QED
        BY <2>1, <2>2 DEF LeaseIsCurrent, Leased
<1>7. CleanupTouchesOwnBundle'
    <2>1. \A a \in Builders : Owns(a)' =>
             /\ a # b /\ Owns(a) /\ job'[a] = job[a] /\ Manifest(a)' = Manifest(a)
        BY <1>0, <1>3 DEF Owns, Published, Manifest
    <2>2. Owns(b)
        BY CommitWrites DEF Owns, Published
    <2>3. \A a \in Builders : Owns(a)' => ~Issued(job[a].release)'
        BY <1>5, <2>1, <2>2 DEF IInv, CleanupTouchesOwnBundle
    <2>4. QED
        BY <1>3, <2>1, <2>3 DEF IInv, CleanupTouchesOwnBundle, Complete, Issued
<1>8. IssuedBundleDurable'
    <2>1. target[r] = Complete(Manifest(b)) /\ disk[r] = Complete(Manifest(b))
        BY CommitWrites
        DEF IInv, CleanupTouchesOwnBundle, LeaseIsCurrent, Owns, Published
    <2>2. QED
        BY <1>1, <1>2, <1>3, <2>1 DEF IInv, IssuedBundleDurable, Complete
<1>9. RowsAreConsistent'
    BY <1>1, <1>2 DEF IInv, RowsAreConsistent
<1>10. HeadReadable'
    <2>1. ReadHeadAccepts(meta, records, releases)
        BY DEF IInv, HeadReadable
    <2>2. /\ meta'.generation = n + 1 /\ meta'.authority = releases'
          /\ meta'.release = r
        BY <2>1, CommitWrites DEF ReadHeadAccepts
    <2>3. \A i \in 1..(n+1) : PredecessorOf(releases', i) = PredecessorOf(releases, i)
        BY <1>1 DEF PredecessorOf
    <2>4. \A i \in 1..(n+1) : releases'[i].predecessor = PredecessorOf(releases', i)
        BY <1>1, <1>2, <2>1, <2>3 DEF ReadHeadAccepts
    <2>5. PredecessorOf(releases', n + 2) = r
        BY <1>1, <1>2 DEF PredecessorOf
    <2>6. \A i, j \in 1..(n+1) : i # j =>
             /\ releases'[i].release # releases'[j].release
             /\ releases'[i].bundle # releases'[j].bundle
        <3>1. \A i \in 1..n : releases[i].bundle.release # Manifest(b).release
            BY <1>1, <1>2, <1>4 DEF IInv, RowsAreConsistent
        <3>2. QED
            BY <1>1, <1>2, <1>4, <2>1, <3>1 DEF ReadHeadAccepts
    <2>7. releases'[Len(releases')].projection = records'
        BY <1>1, <1>2, CommitWrites
    <2>8. QED
        BY <1>1, <2>2, <2>4, <2>5, <2>6, <2>7 DEF HeadReadable, ReadHeadAccepts
<1>11. WorksOnCases'
    BY <1>0, <1>3 DEF IInv, WorksOnCases
<1>12. QED
    BY <1>6, <1>7, <1>8, <1>9, <1>10, <1>11 DEF IInv

(* A power loss takes back what was not synced, so no issued bundle.       *)
LEMMA PowerLossStep == IInv /\ TypeOK' /\ PowerLoss => IInv'
<1> SUFFICES ASSUME IInv, TypeOK', PowerLoss PROVE IInv'
    OBVIOUS
<1>1. /\ \A b \in Builders : pc'[b] = "idle"
      /\ lock' = None /\ disk' = target'
      /\ \A r \in Releases : target'[r] \in Survivors(r)
      /\ UNCHANGED <<meta, records, releases>>
    BY DEF PowerLoss
<1>2. LeaseIsCurrent' /\ CleanupTouchesOwnBundle' /\ WorksOnCases'
    BY <1>1, BuildersAreFresh
    DEF LeaseIsCurrent, CleanupTouchesOwnBundle, WorksOnCases, Owns, Leased, Published
<1>3. \A r \in Releases : target[r] = disk[r] => target'[r] = target[r]
    BY <1>1 DEF Survivors
<1>4. \A i \in DOMAIN releases : releases[i].release \in Releases
    BY RowType DEF IInv, IssuedReleaseRecord
<1>5. IssuedBundleDurable'
    BY <1>1, <1>3, <1>4 DEF IInv, IssuedBundleDurable
<1>6. HeadReadable' /\ RowsAreConsistent'
    BY <1>1 DEF IInv, HeadReadable, RowsAreConsistent
<1>7. QED
    BY <1>2, <1>5, <1>6 DEF IInv

-----------------------------------------------------------------------------
LEMMA StepIInv == IInv /\ [Next]_vars => IInv'
<1> SUFFICES ASSUME IInv, [Next]_vars PROVE IInv'
    OBVIOUS
<1>0. /\ TypeOK /\ TypeOK' /\ pc \in [Builders -> Steps]
      /\ job \in [Builders -> Jobs]
    BY StepType DEF IInv, TypeOK
<1>1. ASSUME NEW b \in Builders, Start(b) PROVE IInv'
    <2> PICK r \in Releases, corpus \in ReviewedCorpora : ReadSnapshot(b, r, corpus)
        BY <1>1 DEF Start
    <2>1. /\ pc[b] = "idle" /\ pc' = [pc EXCEPT ![b] = "snapped"]
          /\ UNCHANGED <<meta, records, releases, lock, target, disk>>
          /\ \A a \in Builders \ {b} : job'[a] = job[a]
        BY <1>0 DEF ReadSnapshot, Goto
    <2>2. NoJob \in Jobs /\ corpus \in Corpora
        BY NoJobType DEF ReviewedCorpora
    <2>3. job'[b].corpus = corpus
        BY <1>0, <2>2 DEF ReadSnapshot, Jobs
    <2>4. lock # b
        BY <2>1 DEF IInv, LeaseIsCurrent, Leased
    <2>5. QED
        BY <1>0, <2>1, <2>3, <2>4, GiveUp DEF Leased
<1>2. ASSUME NEW b \in Builders, CheckTarget(b) \/ RejectInput(b) PROVE IInv'
    <2>1. lock # b /\ job[b].corpus \in ReviewedCorpora
        BY <1>2 DEF IInv, LeaseIsCurrent, WorksOnCases, Leased, CheckTarget, RejectInput
    <2>2. CASE CheckTarget(b)
        BY <1>0, <2>1, <2>2, GiveUp DEF CheckTarget, Goto, Finish, Leased
    <2>3. CASE RejectInput(b)
        BY <1>0, <2>1, <2>3, GiveUp DEF RejectInput, Goto, Finish, Leased
    <2>4. QED
        BY <1>2, <2>2, <2>3
<1>3. ASSUME NEW b \in Builders, AcquireLease(b) \/ LeaseBusy(b) PROVE IInv'
    <2>1. lock # b /\ job[b].corpus \in ReviewedCorpora
        BY <1>3 DEF IInv, LeaseIsCurrent, WorksOnCases, Leased, AcquireLease, LeaseBusy
    <2>2. CASE AcquireLease(b) /\ pc'[b] = "leased"
        BY <1>0, <2>2, LeaseSteps
    <2>3. CASE AcquireLease(b) /\ pc'[b] # "leased"
        BY <1>0, <2>1, <2>3, GiveUp DEF AcquireLease, Goto, Leased
    <2>4. CASE LeaseBusy(b)
        BY <1>0, <2>1, <2>4, GiveUp DEF LeaseBusy, Goto, Leased
    <2>5. QED
        BY <1>3, <2>2, <2>3, <2>4
<1>4. ASSUME NEW b \in Builders, WriteStorage(b) PROVE IInv'
    <2>1. job[b].corpus \in ReviewedCorpora
        BY <1>4 DEF IInv, WorksOnCases, WriteStorage
    <2>2. CASE pc'[b] = "written"
        BY <1>0, <1>4, <2>2, LeaseSteps
    <2>3. CASE pc'[b] # "written"
        BY <1>0, <1>4, <2>1, <2>3, GiveUp DEF WriteStorage, Goto, CloseLease, Leased
    <2>4. QED
        BY <2>2, <2>3
<1>5. ASSUME NEW b \in Builders, Publish(b) PROVE IInv'
    <2>1. job[b].corpus \in ReviewedCorpora
        BY <1>5 DEF IInv, WorksOnCases, Publish
    <2>2. CASE pc'[b] = "renamed"
        BY <1>0, <1>5, <2>2, PublishStep
    <2>3. CASE pc'[b] # "renamed"
        BY <1>0, <1>5, <2>1, <2>3, GiveUp DEF Publish, Goto, CloseLease, Leased
    <2>4. QED
        BY <2>2, <2>3
<1>6. ASSUME NEW b \in Builders, SyncParent(b) PROVE IInv'
    BY <1>0, <1>6, LeaseSteps
<1>7. ASSUME NEW b \in Builders, Bind(b) PROVE IInv'
    <2>1. CASE pc'[b] = "bound"
        BY <1>0, <1>7, <2>1, LeaseSteps
    <2>2. CASE pc'[b] # "bound"
        BY <1>0, <1>7, <2>2, TurnToCleanup DEF Bind, Goto, CloseLease, Published
    <2>3. QED
        BY <2>1, <2>2
<1>8. ASSUME NEW b \in Builders, Commit(b) PROVE IInv'
    <2>1. CASE CommitAcceptsAll(records, job[b].projection, job[b].release)
        BY <1>0, <1>8, <2>1, CommitStep
    <2>2. CASE ~CommitAcceptsAll(records, job[b].projection, job[b].release)
        BY <1>0, <1>8, <2>2, TurnToCleanup DEF Commit, Goto, CloseLease, Published
    <2>3. QED
        BY <2>1, <2>2
<1>9. ASSUME NEW b \in Builders, BuildFails(b) PROVE IInv'
    <2>1. CASE pc[b] \in Published
        BY <1>0, <1>9, <2>1, TurnToCleanup DEF BuildFails, Goto, CloseLease
    <2>2. CASE pc[b] \notin Published
        <3>1. job[b].corpus \in ReviewedCorpora
            BY <1>9 DEF IInv, WorksOnCases, BuildFails, Leased
        <3>2. QED
            BY <1>0, <1>9, <2>2, <3>1, GiveUp DEF BuildFails, Goto, CloseLease, Leased
    <2>3. QED
        BY <2>1, <2>2
<1>10. ASSUME NEW b \in Builders, CommitError(b) \/ Crash(b) PROVE IInv'
    <2>1. CASE CommitError(b)
        BY <1>0, <2>1, GiveUp DEF CommitError, Finish, Goto, CloseLease, Leased
    <2>2. CASE Crash(b)
        BY <1>0, <2>2, GiveUp DEF Crash, Finish, Goto, CloseLease, Leased
    <2>3. QED
        BY <1>10, <2>1, <2>2
<1>11. ASSUME NEW b \in Builders, RemoveTemporary(b) \/ LeaveTarget(b) PROVE IInv'
    <2>1. lock # b
        BY <1>11 DEF IInv, LeaseIsCurrent, Leased, RemoveTemporary, LeaveTarget
    <2>2. QED
        BY <1>0, <1>11, <2>1, GiveUp DEF RemoveTemporary, LeaveTarget, Finish, Goto, Leased
<1>12. ASSUME NEW b \in Builders, EmptyTarget(b) \/ RemovalFails(b) \/ RemoveTarget(b)
       PROVE  IInv'
    BY <1>0, <1>12, RemovalSteps
<1>13. CASE PowerLoss
    BY <1>0, <1>13, PowerLossStep
<1>14. CASE UNCHANGED vars
    BY <1>14
    DEF vars, IInv, TypeOK, LeaseIsCurrent, CleanupTouchesOwnBundle, Owns, Manifest,
        Issued, IssuedBundleDurable, HeadReadable, RowsAreConsistent, WorksOnCases
<1>15. QED
    BY <1>1, <1>2, <1>3, <1>4, <1>5, <1>6, <1>7, <1>8, <1>9, <1>10, <1>11, <1>12,
       <1>13, <1>14
    DEF Next, BuilderNext, Build, Cleanup, Faults

(* The inductive invariant holds in every reachable state.                 *)
THEOREM Invariance == Spec => []IInv
BY InitIInv, StepIInv, PTL DEF Spec

(* Every issued release keeps its whole bundle, in the file system and     *)
(* after a power loss, whatever other builds crash or clean up.            *)
THEOREM IssuedBundlesSurvive == Spec => []IssuedBundleDurable
BY Invariance, PTL DEF IInv

(* The rmtree after the lease is closed never meets another build's work.  *)
THEOREM CleanupIsLocal == Spec => []CleanupTouchesOwnBundle
BY Invariance, PTL DEF IInv

(* What a builder checked stays true until it commits.                     *)
THEOREM LeaseExcludes == Spec => []LeaseIsCurrent
BY Invariance, PTL DEF IInv

(* The registry never locks itself out of its next release.                *)
THEOREM RegistryStaysReadable == Spec => []HeadReadable
BY Invariance, PTL DEF IInv

-----------------------------------------------------------------------------
(* Refinement: a successful Commit is an issuance of the ledger, every     *)
(* other step leaves the ledger alone.                                     *)
LEMMA SameOperators ==
    /\ Ledger!NoRecords = NoRecords /\ Ledger!ReviewedCorpora = ReviewedCorpora
    /\ \A ledger : Ledger!IssuedIds(ledger) = IssuedIds(ledger)
    /\ \A ledger, i : Ledger!PredecessorOf(ledger, i) = PredecessorOf(ledger, i)
    /\ \A recs, corpus :
          /\ Ledger!Reactivates(recs, corpus) = Reactivates(recs, corpus)
          /\ Ledger!RunDeltas(recs, corpus) = RunDeltas(recs, corpus)
    /\ \A recs, corpus, r :
          Ledger!ProjectedRecords(recs, corpus, r) = ProjectedRecords(recs, corpus, r)
<1>1. Ledger!NoRecords = NoRecords /\ Ledger!ReviewedCorpora = ReviewedCorpora
    BY DEF NoRecords, Ledger!NoRecords, Unissued, Ledger!Unissued,
           ReviewedCorpora, Ledger!ReviewedCorpora, Corpora, Ledger!Corpora,
           OptContent, Ledger!OptContent
<1>2. \A ledger : Ledger!IssuedIds(ledger) = IssuedIds(ledger)
    BY DEF IssuedIds, Ledger!IssuedIds
<1>3. \A ledger, i : Ledger!PredecessorOf(ledger, i) = PredecessorOf(ledger, i)
    BY DEF PredecessorOf, Ledger!PredecessorOf
<1>4. \A recs, corpus :
          /\ Ledger!Reactivates(recs, corpus) = Reactivates(recs, corpus)
          /\ Ledger!RunDeltas(recs, corpus) = RunDeltas(recs, corpus)
    BY DEF Reactivates, Ledger!Reactivates, RunDeltas, Ledger!RunDeltas
<1>5. \A recs, corpus, r :
          Ledger!ProjectedRecords(recs, corpus, r) = ProjectedRecords(recs, corpus, r)
    BY DEF ProjectedRecords, Ledger!ProjectedRecords,
           ProjectedRecord, Ledger!ProjectedRecord
<1>6. QED
    BY <1>1, <1>2, <1>3, <1>4, <1>5

LEMMA CommitRefines ==
    ASSUME IInv, NEW b \in Builders, Commit(b),
           CommitAcceptsAll(records, job[b].projection, job[b].release)
    PROVE  Ledger!Issue(job[b].release, job[b].corpus)
<1>1. HeadReadable
    BY DEF IInv
<1>2. meta.release = PredecessorOf(releases, Len(releases) + 1)
    BY <1>1 DEF HeadReadable, ReadHeadAccepts
<1>3. IssuedRow(b) = Ledger!NewRow(job[b].release, job[b].corpus)
    BY <1>2, CommitWrites, SameOperators DEF IssuedRow, Manifest, Ledger!NewRow
<1>4. QED
    BY <1>3, CommitWrites, SameOperators DEF Ledger!Issue

LEMMA StepRefines == IInv /\ [Next]_vars => [Ledger!Next]_(Ledger!vars)
<1> SUFFICES ASSUME IInv, [Next]_vars PROVE [Ledger!Next]_(Ledger!vars)
    OBVIOUS
<1>1. ASSUME NEW b \in Builders, Commit(b) PROVE [Ledger!Next]_(Ledger!vars)
    <2>1. CASE CommitAcceptsAll(records, job[b].projection, job[b].release)
        <3>1. Ledger!Issue(job[b].release, job[b].corpus)
            BY <1>1, <2>1, CommitRefines
        <3>2. job[b].release \in Releases /\ job[b].corpus \in ReviewedCorpora
            BY <1>1, <2>1, CommitWrites DEF IInv, TypeOK, Jobs
        <3>3. QED
            BY <3>1, <3>2, SameOperators DEF Ledger!Next
    <2>2. CASE ~CommitAcceptsAll(records, job[b].projection, job[b].release)
        BY <1>1, <2>2 DEF Commit, Ledger!vars
    <2>3. QED
        BY <2>1, <2>2
<1>2. CASE ~\E b \in Builders : Commit(b)
    <2>1. UNCHANGED <<records, releases>>
        BY <1>2
        DEF Next, BuilderNext, Build, Cleanup, Faults, Start, ReadSnapshot, CheckTarget,
            RejectInput, AcquireLease, LeaseBusy, WriteStorage, Publish, SyncParent,
            Bind, BuildFails, RemoveTemporary, EmptyTarget, RemoveTarget, CommitError,
            RemovalFails, LeaveTarget, Crash, PowerLoss, vars
    <2>2. QED
        BY <2>1 DEF Ledger!vars
<1>3. QED
    BY <1>1, <1>2

(* Builders, leases, files, failures and crashes implement the ledger that *)
(* issues one release at a time.                                           *)
THEOREM Refinement == Spec => ImplementsLedger
<1>1. Init => Ledger!Init
    BY SameOperators DEF Init, Ledger!Init
<1>2. QED
    BY <1>1, Invariance, StepRefines, PTL DEF Spec, ImplementsLedger, Ledger!Spec

(* No sequence of releases brings a retired case id back, or gives a case  *)
(* another first release or first content.                                 *)
THEOREM IdentityPreserved == Spec => IdentityIsPermanent
<1>1. IInv /\ [Next]_vars =>
        [\A c \in Cases :
           /\ records[c].state = "retired" => records'[c] = records[c]
           /\ records[c].state = "active" =>
                 /\ records'[c].state # "unissued"
                 /\ records'[c].first_release = records[c].first_release
                 /\ records'[c].first_content = records[c].first_content]_records
    <2> SUFFICES ASSUME IInv, [Next]_vars, records' # records, NEW c \in Cases
                 PROVE  /\ records[c].state = "retired" => records'[c] = records[c]
                        /\ records[c].state = "active" =>
                             /\ records'[c].state # "unissued"
                             /\ records'[c].first_release = records[c].first_release
                             /\ records'[c].first_content = records[c].first_content
        OBVIOUS
    <2>1. PICK release \in Releases, corpus \in ReviewedCorpora :
              Ledger!Issue(release, corpus)
        BY StepRefines, SameOperators DEF Ledger!Next, Ledger!vars
    <2>2. records'[c] = ProjectedRecord(records[c], corpus[c], release)
        BY <2>1, SameOperators DEF Ledger!Issue, ProjectedRecords
    <2>3. records[c] \in IssuedCaseRecord /\ corpus[c] \in OptContent
        BY DEF IInv, TypeOK, Projections, ReviewedCorpora, Corpora
    <2>4. QED
        BY <2>2, <2>3 DEF ProjectedRecord, IssuedCaseRecord
<1>2. QED
    BY <1>1, Invariance, PTL DEF Spec, IdentityIsPermanent, Ledger!IdentityIsPermanent

-----------------------------------------------------------------------------
(* The deltas of the ledger                                                *)

\* The deltas of a release are the difference of two projections.
Describes(deltas, old, new) ==
    /\ deltas.created = {c \in Cases : old[c].state = "unissued" /\ new[c].state = "active"}
    /\ deltas.deleted = {c \in Cases : old[c].state = "active" /\ new[c].state = "retired"}
    /\ deltas.changed = {c \in Cases : /\ old[c].state = "active"
                                       /\ new[c].state = "active"
                                       /\ old[c].current_content # new[c].current_content}

(* What finalize computes from the records and a corpus is what the        *)
(* projection of that corpus changes in them.                              *)
LEMMA RunDeltasDescribe ==
    ASSUME NEW recs \in Projections, NEW corpus \in Corpora, NEW r \in Releases
    PROVE  Describes(RunDeltas(recs, corpus), recs, ProjectedRecords(recs, corpus, r))
<1> DEFINE new == ProjectedRecords(recs, corpus, r)
<1>1. ASSUME NEW c \in Cases
      PROVE  /\ recs[c].state = "unissued" =>
                   (new[c].state = "active" <=> corpus[c] # None)
             /\ recs[c].state = "active" =>
                   /\ new[c].state = "active" <=> corpus[c] # None
                   /\ new[c].state = "retired" <=> corpus[c] = None
                   /\ corpus[c] # None => new[c].current_content = corpus[c]
    <2>1. recs[c] \in IssuedCaseRecord
        BY DEF Projections
    <2>2. new[c] = ProjectedRecord(recs[c], corpus[c], r)
        BY DEF ProjectedRecords
    <2>3. CASE recs[c].state = "unissued"
        BY <2>1, <2>2, <2>3 DEF ProjectedRecord, IssuedCaseRecord
    <2>4. CASE recs[c].state = "active"
        BY <2>1, <2>2, <2>4 DEF ProjectedRecord, IssuedCaseRecord
    <2>5. QED
        BY <2>3, <2>4
<1> HIDE DEF new
<1>2. Describes(RunDeltas(recs, corpus), recs, new)
    BY <1>1 DEF RunDeltas, Describes
<1>3. QED
    BY <1>2 DEF new

LEMMA CommitDescribes ==
    ASSUME IInv, DeltasDescribeIssuance, NEW b \in Builders, Commit(b),
           CommitAcceptsAll(records, job[b].projection, job[b].release)
    PROVE  DeltasDescribeIssuance'
<1> DEFINE row == IssuedRow(b)
           n == Len(releases)
<1>1. /\ records \in Projections /\ job[b].corpus \in Corpora /\ job[b].release \in Releases
      /\ releases \in Seq(IssuedReleaseRecord) /\ row \in IssuedReleaseRecord
    BY ManifestType
    DEF IInv, TypeOK, Ledgers, Jobs, IssuedRow, IssuedReleaseRecord, IssuanceHeads
<1>2. /\ n \in Nat /\ DOMAIN releases = 1..n /\ DOMAIN releases' = 1..(n+1)
      /\ \A i \in 1..n : releases'[i] = releases[i]
      /\ releases'[n+1] = row
    BY <1>1, CommitWrites
<1>3. /\ row.projection = ProjectedRecords(records, job[b].corpus, job[b].release)
      /\ row.bundle.deltas = RunDeltas(records, job[b].corpus)
    BY CommitWrites DEF IssuedRow, Manifest
<1>4. Before(n + 1) = records
    BY <1>1, <1>2 DEF IInv, HeadReadable, ReadHeadAccepts, Before
<1>5. \A i \in 1..(n+1) : Before(i)' = Before(i)
    BY <1>2 DEF Before
<1>6. Describes(row.bundle.deltas, Before(n + 1), row.projection)
    BY <1>1, <1>3, <1>4, RunDeltasDescribe
<1>7. \A i \in 1..n : Describes(releases[i].bundle.deltas, Before(i), releases[i].projection)
    BY <1>2 DEF DeltasDescribeIssuance, Describes
<1>8. \A i \in 1..(n+1) :
          Describes(releases'[i].bundle.deltas, Before(i)', releases'[i].projection)
    BY <1>2, <1>5, <1>6, <1>7
<1>9. QED
    BY <1>2, <1>8 DEF DeltasDescribeIssuance, Describes

(* The created, changed and deleted cases that an issued bundle names,     *)
(* computed by finalize before its build had the lease, are what the       *)
(* release changed with respect to the one before it in the ledger.        *)
THEOREM DeltasDescribe == Spec => []DeltasDescribeIssuance
<1>1. Init => DeltasDescribeIssuance
    BY DEF Init, DeltasDescribeIssuance
<1>2. IInv /\ DeltasDescribeIssuance /\ [Next]_vars => DeltasDescribeIssuance'
    <2> SUFFICES ASSUME IInv, DeltasDescribeIssuance, [Next]_vars
                 PROVE  DeltasDescribeIssuance'
        OBVIOUS
    <2>1. CASE releases' = releases
        BY <2>1 DEF DeltasDescribeIssuance, Before
    <2>2. ASSUME NEW b \in Builders, Commit(b) PROVE DeltasDescribeIssuance'
        BY <2>1, <2>2, CommitDescribes DEF Commit
    <2>3. CASE ~\E b \in Builders : Commit(b)
        BY <2>1, <2>3
        DEF Next, BuilderNext, Build, Cleanup, Faults, Start, ReadSnapshot, CheckTarget,
            RejectInput, AcquireLease, LeaseBusy, WriteStorage, Publish, SyncParent,
            Bind, BuildFails, RemoveTemporary, EmptyTarget, RemoveTarget, CommitError,
            RemovalFails, LeaveTarget, Crash, PowerLoss, vars
    <2>4. QED
        BY <2>2, <2>3
<1>3. QED
    BY <1>1, <1>2, Invariance, PTL DEF Spec
=============================================================================
