---------------------------- MODULE CanonicalBuild ----------------------------
(***************************************************************************)
(* Concurrent canonical builds over one issuance registry:                 *)
(* finalize.py reads an issuance snapshot and computes the run deltas,     *)
(* build.py writes a bundle under an issuance lease, renames it to its     *)
(* final directory and commits it to the registry of storage.py.           *)
(*                                                                         *)
(* A builder is one build-canonical-corpus process.  The final directory   *)
(* of a release is releases/<release id>/canonical.  target is what the    *)
(* file system shows, disk what a power loss cannot take back.             *)
(***************************************************************************)
EXTENDS IssuanceRecords

CONSTANTS Builders      \* processes that finalize releases

ASSUME BuildersAreFresh == None \notin Builders
ASSUME SomeRelease == Releases # {}

VARIABLES
    meta,       \* issuance_meta, the persistent head
    records,    \* issued_case_ids
    releases,   \* issued_releases
    lock,       \* holder of the BEGIN IMMEDIATE transaction, or None
    pc,         \* where each builder is in finalize / build
    job,        \* locals of each builder
    target,     \* final bundle directories as the file system shows them
    disk        \* final bundle directories as they survive a power loss

registry == <<meta, records, releases>>
files == <<target, disk>>
vars == <<meta, records, releases, lock, pc, job, target, disk>>

Absent == [kind |-> "absent"]
Empty == [kind |-> "empty"]
Partial == [kind |-> "partial"]
Complete(bundle) == [kind |-> "bundle", bundle |-> bundle]

Directories ==
    [kind: {"absent", "empty", "partial"}] \cup [kind: {"bundle"}, bundle: Bundles]

Jobs ==
    [release: Releases, corpus: Corpora, deltas: Deltas,
     expected: IssuanceHeads,   \* head of the snapshot finalize read
     head: IssuanceHeads,       \* head of the lease
     projection: Projections]   \* records of the storage receipt

\* Holding the lease; the later of these have published their directory.
Leased == {"leased", "written", "renamed", "synced", "bound"}
Published == {"renamed", "synced", "bound"}
Steps == {"idle", "snapped", "prepared", "cleaning", "emptying", "removing", "refused"}
            \cup Leased

\* The locals of a builder that is not building anything.
NoJob ==
    [release |-> CHOOSE r \in Releases : TRUE,
     corpus |-> [c \in Cases |-> None],
     deltas |-> [created |-> {}, changed |-> {}, deleted |-> {}],
     expected |-> Genesis, head |-> Genesis, projection |-> NoRecords]

\* The manifest the builder wrote; its digest is the bundle digest.
Manifest(b) ==
    [release |-> job[b].release,
     predecessor |-> job[b].expected.release,
     projection |-> job[b].projection,
     deltas |-> job[b].deltas]

TypeOK ==
    /\ meta \in IssuanceHeads
    /\ records \in Projections
    /\ releases \in Ledgers
    /\ lock \in Builders \cup {None}
    /\ pc \in [Builders -> Steps]
    /\ job \in [Builders -> Jobs]
    /\ target \in [Releases -> Directories]
    /\ disk \in [Releases -> Directories]

Init ==
    /\ meta = Genesis
    /\ records = NoRecords
    /\ releases = <<>>
    /\ lock = None
    /\ pc = [b \in Builders |-> "idle"]
    /\ job = [b \in Builders |-> NoJob]
    /\ target = [r \in Releases |-> Absent]
    /\ disk = [r \in Releases |-> Absent]

-----------------------------------------------------------------------------
Goto(b, step) == pc' = [pc EXCEPT ![b] = step]

Finish(b) ==
    /\ Goto(b, "idle")
    /\ job' = [job EXCEPT ![b] = NoJob]

\* IssuanceLease.close: the transaction of b, if any, is rolled back.
CloseLease(b) == lock' = IF lock = b THEN None ELSE lock

(* finalize: one SQLite snapshot of head and records, and the deltas of    *)
(* the reviewed corpus against it.                                         *)
ReadSnapshot(b, release, corpus) ==
    /\ pc[b] = "idle"
    /\ job' = [job EXCEPT ![b] =
                 [NoJob EXCEPT !.release = release, !.corpus = corpus,
                               !.expected = meta,
                               !.deltas = RunDeltas(records, corpus)]]
    /\ Goto(b, "snapped")
    /\ UNCHANGED <<meta, records, releases, lock, target, disk>>

(* The early checks of build_canonical_bundle, made before the lease: an   *)
(* invalid or quarantined batch or an existing target ends the build.      *)
CheckTarget(b) ==
    /\ pc[b] = "snapped"
    /\ IF target[job[b].release] = Absent
       THEN Goto(b, "prepared") /\ UNCHANGED job
       ELSE Finish(b)
    /\ UNCHANGED <<meta, records, releases, lock, target, disk>>

RejectInput(b) ==
    /\ pc[b] = "snapped"
    /\ Finish(b)
    /\ UNCHANGED <<meta, records, releases, lock, target, disk>>

\* Mutant of AcquireLease: a deferred BEGIN, which takes no write lock.
AcquireLeaseDeferred(b) ==
    /\ pc[b] = "prepared"
    /\ IF meta = job[b].expected
       THEN /\ lock' = b
            /\ job' = [job EXCEPT ![b].head = meta]
            /\ Goto(b, "leased")
       ELSE Goto(b, "cleaning") /\ UNCHANGED <<lock, job>>
    /\ UNCHANGED <<meta, records, releases, target, disk>>

(* acquire_issuance_lease: BEGIN IMMEDIATE, replay the head, compare it    *)
(* with the expected predecessor, roll back on any difference.             *)
AcquireLease(b) ==
    /\ pc[b] = "prepared"
    /\ lock = None
    /\ IF /\ ReadHeadAccepts(meta, records, releases)
          /\ meta = job[b].expected
       THEN /\ lock' = b
            /\ job' = [job EXCEPT ![b].head = meta]
            /\ Goto(b, "leased")
       ELSE Goto(b, "cleaning") /\ UNCHANGED <<lock, job>>
    /\ UNCHANGED <<meta, records, releases, target, disk>>

(* busy_timeout expires while another process holds the lease.             *)
LeaseBusy(b) ==
    /\ pc[b] = "prepared"
    /\ lock # None
    /\ Goto(b, "cleaning")
    /\ UNCHANGED <<meta, records, releases, lock, job, target, disk>>

(* write_canonical_storage, the JSONL export and the manifest, all in the  *)
(* temporary directory.  A refused batch closes the lease.                 *)
StorageAccepts(b) ==
    /\ job[b].deltas = RunDeltas(records, job[b].corpus)
    /\ job[b].release \notin IssuedIds(releases)
    /\ ~Reactivates(records, job[b].corpus)

WriteStorage(b) ==
    /\ pc[b] = "leased"
    /\ IF StorageAccepts(b)
       THEN /\ job' = [job EXCEPT ![b].projection =
                         ProjectedRecords(records, job[b].corpus, job[b].release)]
            /\ Goto(b, "written")
            /\ UNCHANGED lock
       ELSE /\ Goto(b, "cleaning")
            /\ CloseLease(b)
            /\ UNCHANGED job
    /\ UNCHANGED <<meta, records, releases, target, disk>>

(* os.rename of the temporary directory: replaces nothing or an empty      *)
(* directory, fails over a directory that has entries.                     *)
Publish(b) ==
    /\ pc[b] = "written"
    /\ IF target[job[b].release] \in {Absent, Empty}
       THEN /\ target' = [target EXCEPT ![job[b].release] = Complete(Manifest(b))]
            /\ Goto(b, "renamed")
            /\ UNCHANGED lock
       ELSE /\ Goto(b, "cleaning")
            /\ CloseLease(b)
            /\ UNCHANGED target
    /\ UNCHANGED <<meta, records, releases, job, disk>>

\* Mutant of SyncParent: the rename is not made durable before the commit.
SyncParentSkipped(b) ==
    /\ pc[b] = "renamed"
    /\ Goto(b, "synced")
    /\ UNCHANGED <<meta, records, releases, lock, job, target, disk>>

(* The parent directory is synced before anything is bound or committed.   *)
SyncParent(b) ==
    /\ pc[b] = "renamed"
    /\ disk' = [disk EXCEPT ![job[b].release] = target[job[b].release]]
    /\ Goto(b, "synced")
    /\ UNCHANGED <<meta, records, releases, lock, job, target>>

(* bind_published_bundle: the directory on disk is re-read and must be the *)
(* bundle of the receipt, with the predecessor of the lease.               *)
BindAccepts(b) ==
    /\ target[job[b].release] = Complete(Manifest(b))
    /\ Manifest(b).predecessor = job[b].head.release

Bind(b) ==
    /\ pc[b] = "synced"
    /\ IF BindAccepts(b)
       THEN Goto(b, "bound") /\ UNCHANGED lock
       ELSE Goto(b, "emptying") /\ CloseLease(b)
    /\ UNCHANGED <<meta, records, releases, job, target, disk>>

(* commit_published_bundle: the records, the ledger row and the head in    *)
(* one SQLite transaction, computed from the head of the lease.            *)
IssuedRow(b) ==
    [release |-> job[b].release,
     predecessor |-> job[b].head.release,
     bundle |-> Manifest(b),
     projection |-> job[b].projection]

Commit(b) ==
    /\ pc[b] = "bound"
    /\ IF CommitAcceptsAll(records, job[b].projection, job[b].release)
       THEN /\ records' = CommittedRecords(records, job[b].projection)
            /\ releases' = Append(releases, IssuedRow(b))
            /\ meta' = [generation |-> job[b].head.generation + 1,
                        release |-> job[b].release,
                        authority |-> Append(job[b].head.authority, IssuedRow(b))]
            /\ Finish(b)
       ELSE Goto(b, "emptying") /\ UNCHANGED <<meta, records, releases, job>>
    /\ CloseLease(b)
    /\ UNCHANGED <<target, disk>>

-----------------------------------------------------------------------------
\* Mutant of BuildFails: the target is removed whether b published it or not.
BuildFailsRemovesTarget(b) ==
    /\ pc[b] \in Leased
    /\ Goto(b, "emptying")
    /\ CloseLease(b)
    /\ UNCHANGED <<meta, records, releases, job, target, disk>>

\* Mutant of BuildFails: only the temporary directory is removed.
BuildFailsKeepsTarget(b) ==
    /\ pc[b] \in Leased
    /\ Goto(b, "cleaning")
    /\ CloseLease(b)
    /\ UNCHANGED <<meta, records, releases, job, target, disk>>

(* An OSError, StorageError, BuildError or ValueError in the with block:   *)
(* the lease is closed, then the except clause removes what was published. *)
BuildFails(b) ==
    /\ pc[b] \in Leased
    /\ Goto(b, IF pc[b] \in Published THEN "emptying" ELSE "cleaning")
    /\ CloseLease(b)
    /\ UNCHANGED <<meta, records, releases, job, target, disk>>

(* commit_published_bundle raises sqlite3.Error, which the except clause   *)
(* does not name: the lease is rolled back and nothing is removed.         *)
CommitError(b) ==
    /\ pc[b] = "bound"
    /\ Finish(b)
    /\ CloseLease(b)
    /\ UNCHANGED <<meta, records, releases, target, disk>>

(* shutil.rmtree of the temporary directory, which only b knows.           *)
RemoveTemporary(b) ==
    /\ pc[b] = "cleaning"
    /\ Finish(b)
    /\ UNCHANGED <<meta, records, releases, lock, target, disk>>

(* shutil.rmtree of the published target, after the lease is closed: its   *)
(* entries first, ...                                                      *)
EmptyTarget(b) ==
    /\ pc[b] = "emptying"
    /\ target' = [target EXCEPT ![job[b].release] =
                     IF @ = Absent THEN Absent ELSE Empty]
    /\ Goto(b, "removing")
    /\ UNCHANGED <<meta, records, releases, lock, job, disk>>

(* ... then rmdir, which refuses a directory that has entries.             *)
RemoveTarget(b) ==
    /\ pc[b] = "removing"
    /\ target' = [target EXCEPT ![job[b].release] = IF @ = Empty THEN Absent ELSE @]
    /\ Finish(b)
    /\ UNCHANGED <<meta, records, releases, lock, disk>>

(* ignore_errors: the file system may refuse to remove the entries, all of *)
(* them or some, or the directory.  What resists stays, and nobody is told.*)
RemovalFails(b) ==
    /\ \/ /\ pc[b] = "emptying"
          /\ target[job[b].release] # Absent
          /\ \E left \in {target[job[b].release], Partial} :
               target' = [target EXCEPT ![job[b].release] = left]
       \/ pc[b] = "removing" /\ UNCHANGED target
    /\ Goto(b, "refused")
    /\ UNCHANGED <<meta, records, releases, lock, job, disk>>

LeaveTarget(b) ==
    /\ pc[b] = "refused"
    /\ Finish(b)
    /\ UNCHANGED <<meta, records, releases, lock, target, disk>>

(* The process dies: SQLite drops its transaction, its files stay.         *)
Crash(b) ==
    /\ pc[b] # "idle"
    /\ Finish(b)
    /\ CloseLease(b)
    /\ UNCHANGED <<meta, records, releases, target, disk>>

(* The machine dies: a directory change that was not synced may be lost,   *)
(* and a removal may survive in part.  Committed transactions stay.        *)
Survivors(r) ==
    IF target[r] = disk[r] THEN {target[r]}
    ELSE {target[r], disk[r]} \cup IF disk[r] = Absent THEN {} ELSE {Empty, Partial}

PowerLoss ==
    /\ pc' = [b \in Builders |-> "idle"]
    /\ job' = [b \in Builders |-> NoJob]
    /\ lock' = None
    /\ target' \in {t \in [Releases -> UNION {Survivors(r) : r \in Releases}] :
                      \A r \in Releases : t[r] \in Survivors(r)}
    /\ disk' = target'
    /\ UNCHANGED <<meta, records, releases>>

-----------------------------------------------------------------------------
Build(b) ==
    \/ CheckTarget(b)
    \/ RejectInput(b)
    \/ AcquireLease(b)
    \/ LeaseBusy(b)
    \/ WriteStorage(b)
    \/ Publish(b)
    \/ SyncParent(b)
    \/ Bind(b)
    \/ Commit(b)

Cleanup(b) ==
    \/ RemoveTemporary(b)
    \/ EmptyTarget(b)
    \/ RemoveTarget(b)
    \/ LeaveTarget(b)

Start(b) == \E release \in Releases, corpus \in ReviewedCorpora :
                ReadSnapshot(b, release, corpus)

Faults ==
    \/ \E b \in Builders : CommitError(b) \/ RemovalFails(b) \/ Crash(b)
    \/ PowerLoss

BuilderNext ==
    \E b \in Builders : Start(b) \/ Build(b) \/ BuildFails(b) \/ Cleanup(b)

Next == BuilderNext \/ Faults

Spec == Init /\ [][Next]_vars

(* Without crashes, but SQLite may still refuse a COMMIT.                  *)
NoCrashSpec ==
    Init /\ [][BuilderNext \/ \E b \in Builders : CommitError(b)]_vars

(* A process that is running keeps running: its own steps do not wait for  *)
(* anybody but the lease, and busy_timeout ends that wait.  Nothing obliges*)
(* an operator to start a build, or a step to fail.                        *)
Fairness == \A b \in Builders : WF_vars(Build(b)) /\ WF_vars(Cleanup(b))

-----------------------------------------------------------------------------
Issued(r) == r \in IssuedIds(releases)

HasBundle(r) == target[r].kind = "bundle"

\* The builder has renamed its directory to the target and not yet removed it.
Owns(b) == pc[b] \in Published \cup {"emptying"}

(* The bundle of every issued release is in place, whole, and survives a   *)
(* power loss: whatever crashed, and whatever other builds of the same     *)
(* release cleaned up after themselves.                                    *)
IssuedBundleDurable ==
    \A i \in DOMAIN releases :
        LET r == releases[i].release
        IN  /\ target[r] = Complete(releases[i].bundle)
            /\ disk[r] = Complete(releases[i].bundle)

(* The rmtree(target) of the except clause runs after the lease is closed, *)
(* so another builder may already work on the same release: still, what it *)
(* removes is the builder's own bundle, which nobody issued or shares.     *)
CleanupTouchesOwnBundle ==
    /\ \A b \in Builders : Owns(b) =>
          /\ target[job[b].release] = Complete(Manifest(b))
          /\ ~Issued(job[b].release)
    /\ \A a, b \in Builders :
          a # b /\ Owns(a) /\ Owns(b) => job[a].release # job[b].release

(* What the builder computed before and under its lease describes the      *)
(* registry until it commits: nobody else can move the head, and nothing   *)
(* it checked can have become false.                                       *)
LeaseIsCurrent ==
    \A b \in Builders :
        /\ pc[b] \in Leased <=> lock = b
        /\ pc[b] \in Leased => job[b].head = meta /\ job[b].expected = meta
        /\ pc[b] \in Leased \ {"leased"} =>
              /\ job[b].release \notin IssuedIds(releases)
              /\ ~Reactivates(records, job[b].corpus)
              /\ job[b].deltas = RunDeltas(records, job[b].corpus)
              /\ job[b].projection =
                    ProjectedRecords(records, job[b].corpus, job[b].release)
        /\ pc[b] \in {"synced", "bound"} =>
              disk[job[b].release] = Complete(Manifest(b))

(* No sequence of builds, failures and crashes leaves a registry that the  *)
(* replay of _read_head refuses: it would refuse every later release.      *)
HeadReadable == ReadHeadAccepts(meta, records, releases)

(* The deltas in an issued bundle, computed by finalize before it had the  *)
(* lease, are exactly what the release changed with respect to its         *)
(* predecessor in the ledger.                                              *)
Before(i) == IF i = 1 THEN NoRecords ELSE releases[i - 1].projection

DeltasDescribeIssuance ==
    \A i \in DOMAIN releases :
        LET old == Before(i)
            new == releases[i].projection
            deltas == releases[i].bundle.deltas
        IN  /\ deltas.created = {c \in Cases : old[c].state = "unissued"
                                             /\ new[c].state = "active"}
            /\ deltas.deleted = {c \in Cases : old[c].state = "active"
                                             /\ new[c].state = "retired"}
            /\ deltas.changed = {c \in Cases : /\ old[c].state = "active"
                                               /\ new[c].state = "active"
                                               /\ old[c].current_content
                                                    # new[c].current_content}

Ledger == INSTANCE IssuanceLedger

(* Builders, leases, files and crashes implement the abstract ledger.      *)
ImplementsLedger == Ledger!Spec

(* See IssuanceLedger: a retired id stays retired, first issuance is kept. *)
IdentityIsPermanent == Ledger!IdentityIsPermanent

(* Once nobody works on its release any more, a whole bundle in place is   *)
(* an issued one ("atomic canonical corpus bundle", finalize.py line 1).   *)
NoUnissuedBundleLeft ==
    \A r \in Releases :
        (\A b \in Builders : ~(Owns(b) /\ job[b].release = r))
            /\ HasBundle(r) => Issued(r)

(* A build that has published its bundle does not leave the release stuck: *)
(* the bundle is issued, or nothing of it is in the way of a retry (which  *)
(* refuses a target that exists), unless the file system refused to remove *)
(* it.                                                                     *)
RemovalRefused(r) == \E b \in Builders : pc[b] = "refused" /\ job[b].release = r

BundleIsResolved ==
    \A r \in Releases :
        (\E b \in Builders : Owns(b) /\ job[b].release = r)
            ~> Issued(r) \/ target[r] = Absent \/ RemovalRefused(r)
=============================================================================
