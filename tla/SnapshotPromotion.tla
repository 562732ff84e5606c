--------------------------- MODULE SnapshotPromotion ---------------------------
(***************************************************************************)
(* Institution snapshots of the travel map (institutions/sync.py):         *)
(* sync-institutions builds a candidate directory and a signed journal     *)
(* entry without any lock; approve-institution-snapshot promotes a         *)
(* reviewed candidate under .promotion.lock, journaling each phase so that *)
(* a promotion that stopped can be taken up again.                         *)
(*                                                                         *)
(* The variables without "disk" are what processes see; disk is what a     *)
(* power loss cannot take back.  A SHA-256 digest is the value it digests. *)
(***************************************************************************)
EXTENDS Naturals, FiniteSets

CONSTANTS
    Snapshots,  \* snapshot ids
    Contents,   \* institutions, sites and provenance of a candidate
    Times,      \* values of approvedAt
    Syncs,      \* sync-institutions processes
    Promoters,  \* approve-institution-snapshot processes
    None

ASSUME NoneIsFresh == None \notin Snapshots \cup Contents \cup Times \cup Promoters

ASSUME ProcessesDiffer == Syncs \cap Promoters = {}

VARIABLES
    candidate,  \* .<id>.candidate directories
    final,      \* <id> directories
    approval,   \* approvedAt in the manifest of <id>, None while unapproved
    current,    \* current.json
    journal,    \* .sync-transactions/<id>.json
    key,        \* the journal's signing key file
    disk,       \* durable copy of the above but key
    packets,    \* review packets a steward has seen
    lock,       \* holder of .promotion.lock
    pc, job     \* control state and locals of every process

snapshotFiles == <<candidate, final, approval, current, journal>>
vars == <<candidate, final, approval, current, journal, key, disk, packets,
          lock, pc, job>>

OptSnapshot == Snapshots \cup {None}
OptTime == Times \cup {None}

\* A snapshot directory; content is None while its files are being written.
Directories == [content: Contents \cup {None}, previous: OptSnapshot]
OptDirectory == Directories \cup {None}

Phases == {"BUILT", "MOVED", "APPROVAL_PREPARED", "VERIFIED", "POINTER_PREPARED",
           "PUBLISHED"}
Prepared == Phases \ {"BUILT", "MOVED"}

Transactions ==
    [phase: Phases, directory: Directories, issues: BOOLEAN, approvedAt: OptTime]

\* No directory and no journal entry is taken for a missing one.
ASSUME FilesAssumption == None \notin Directories /\ None \notin Transactions

SyncSteps == {"idle", "checked", "made", "written", "keying", "journaled"}
PromoterSteps == {"idle", "waiting", "loading", "rename", "move", "prepare", "approve",
                  "verify", "ready", "pointer", "publish", "check",
                  "sync move", "sync prepare", "sync approve", "sync verify",
                  "sync ready", "sync pointer", "sync publish", "sync check"}

Processes == Syncs \cup Promoters

\* snapshot and directory: what a sync builds, or the digest a steward passes.
Jobs == [snapshot: OptSnapshot, directory: OptDirectory]
NoJob == [snapshot |-> None, directory |-> None]

TypeOK ==
    /\ candidate \in [Snapshots -> OptDirectory]
    /\ final \in [Snapshots -> OptDirectory]
    /\ approval \in [Snapshots -> OptTime]
    /\ current \in OptSnapshot
    /\ journal \in [Snapshots -> Transactions \cup {None}]
    /\ key \in {"absent", "empty", "whole"}
    /\ disk \in [candidate: [Snapshots -> OptDirectory],
                 final: [Snapshots -> OptDirectory],
                 approval: [Snapshots -> OptTime],
                 current: OptSnapshot,
                 journal: [Snapshots -> Transactions \cup {None}]]
    /\ packets \in [Snapshots -> SUBSET Directories]
    /\ lock \in Promoters \cup {None}
    /\ pc \in [Processes -> SyncSteps \cup PromoterSteps]
    /\ job \in [Processes -> Jobs]

Init ==
    /\ candidate = [s \in Snapshots |-> None]
    /\ final = [s \in Snapshots |-> None]
    /\ approval = [s \in Snapshots |-> None]
    /\ current = None
    /\ journal = [s \in Snapshots |-> None]
    /\ key = "absent"
    /\ disk = [candidate |-> candidate, final |-> final, approval |-> approval,
               current |-> current, journal |-> journal]
    /\ packets = [s \in Snapshots |-> {}]
    /\ lock = None
    /\ pc = [p \in Processes |-> "idle"]
    /\ job = [p \in Processes |-> NoJob]

-----------------------------------------------------------------------------
Goto(p, step) == pc' = [pc EXCEPT ![p] = step]

\* The process ends, by returning or by raising; the finally clause unlocks.
End(p) ==
    /\ Goto(p, "idle")
    /\ job' = [job EXCEPT ![p] = NoJob]
    /\ lock' = IF lock = p THEN None ELSE lock

\* fsync of the snapshot root makes all its entries durable, whoever made them.
SyncRoot ==
    disk' = [disk EXCEPT !.candidate = candidate, !.final = final, !.current = current]

SyncJournal(s) == disk' = [disk EXCEPT !.journal[s] = journal[s]]

-----------------------------------------------------------------------------
(* sync-institutions                                                       *)

\* verify_snapshot(root): what current.json selects is a whole approved final.
Servable(s) ==
    /\ final[s] # None
    /\ final[s].content # None
    /\ approval[s] # None

\* The script reads the current snapshot, then the id must be unused.
StartSync(p, s, content) ==
    /\ pc[p] = "idle"
    /\ current # None => Servable(current)
    /\ candidate[s] = None /\ final[s] = None
    /\ job' = [job EXCEPT ![p] =
                 [snapshot |-> s,
                  directory |-> [content |-> content, previous |-> current]]]
    /\ Goto(p, "checked")
    /\ UNCHANGED <<snapshotFiles, key, disk, packets, lock>>

\* candidate_path.mkdir(), which fails if the directory exists by now.
MakeCandidate(p) ==
    LET s == job[p].snapshot
    IN  /\ pc[p] = "checked"
        /\ IF candidate[s] = None
           THEN /\ candidate' = [candidate EXCEPT ![s] =
                                   [job[p].directory EXCEPT !.content = None]]
                /\ Goto(p, "made")
                /\ UNCHANGED <<job, lock>>
           ELSE End(p) /\ UNCHANGED candidate
        /\ UNCHANGED <<final, approval, current, journal, key, disk, packets>>

\* The three files, each synced, then the directory and the root.
WriteCandidate(p) ==
    /\ pc[p] = "made"
    /\ candidate' = [candidate EXCEPT ![job[p].snapshot] = job[p].directory]
    /\ disk' = [disk EXCEPT !.candidate = candidate', !.final = final,
                            !.current = current]
    /\ Goto(p, "written")
    /\ UNCHANGED <<final, approval, current, journal, key, packets, lock, job>>

WriteTransaction(p) ==
    \E issues \in BOOLEAN :
        journal' = [journal EXCEPT ![job[p].snapshot] =
                      [phase |-> "BUILT", directory |-> job[p].directory,
                       issues |-> issues, approvedAt |-> None]]

\* _create_build_transaction with the key in place ...
CreateTransaction(p) ==
    /\ pc[p] = "written"
    /\ IF journal[job[p].snapshot] = None /\ key = "whole"
       THEN WriteTransaction(p) /\ Goto(p, "journaled") /\ UNCHANGED <<job, lock>>
       ELSE /\ journal[job[p].snapshot] # None \/ key = "empty"
            /\ End(p)
            /\ UNCHANGED journal
    /\ UNCHANGED <<candidate, final, approval, current, key, disk, packets>>

\* ... or without it: O_CREAT|O_EXCL first, the key's bytes in a second step.
CreateKey(p) ==
    /\ pc[p] = "written"
    /\ journal[job[p].snapshot] = None /\ key = "absent"
    /\ key' = "empty"
    /\ Goto(p, "keying")
    /\ UNCHANGED <<snapshotFiles, disk, packets, lock, job>>

WriteKey(p) ==
    /\ pc[p] = "keying"
    /\ key' = "whole"
    /\ WriteTransaction(p)
    /\ SyncRoot
    /\ Goto(p, "journaled")
    /\ UNCHANGED <<candidate, final, approval, current, packets, lock, job>>

SyncTransaction(p) ==
    /\ pc[p] = "journaled"
    /\ SyncJournal(job[p].snapshot)
    /\ End(p)
    /\ UNCHANGED <<snapshotFiles, key, packets>>

-----------------------------------------------------------------------------
(* review and approval                                                     *)

Selected(s) == IF candidate[s] # None THEN candidate[s] ELSE final[s]

\* Mutant of ExtendsCurrent: the predecessor is not compared.
ExtendsAnything(s) == current # None => Servable(current)

\* _recheck_promotion_quality: the candidate extends what is current.
ExtendsCurrent(s) ==
    /\ current # None => Servable(current)
    /\ current = s \/ Selected(s).previous = current

\* _load_reviewable_candidate.
LoadAccepts(s) ==
    /\ key = "whole"
    /\ journal[s] # None
    /\ ~journal[s].issues
    /\ candidate[s] = None \/ final[s] = None
    /\ Selected(s) # None
    /\ Selected(s).content # None
    /\ Selected(s) = journal[s].directory
    /\ IF candidate[s] # None
       THEN journal[s].phase = "BUILT" /\ approval[s] = None
       ELSE IF approval[s] = None
            THEN journal[s].phase \in {"BUILT", "MOVED", "APPROVAL_PREPARED"}
            ELSE journal[s].phase \in Prepared /\ approval[s] = journal[s].approvedAt
    /\ ExtendsCurrent(s)

\* A steward looks at the review packet and notes its digest.
Review(s) ==
    /\ LoadAccepts(s)
    /\ Selected(s) \notin packets[s]
    /\ packets' = [packets EXCEPT ![s] = @ \cup {Selected(s)}]
    /\ UNCHANGED <<snapshotFiles, key, disk, lock, pc, job>>

\* approve_candidate_snapshot with a digest the steward noted.
Approve(p, s) ==
    /\ pc[p] = "idle"
    /\ \E digest \in packets[s] :
          job' = [job EXCEPT ![p] = [snapshot |-> s, directory |-> digest]]
    /\ Goto(p, "waiting")
    /\ UNCHANGED <<snapshotFiles, key, disk, packets, lock>>

\* Mutant of Lock: no flock.
LockIgnored(p) ==
    /\ pc[p] = "waiting"
    /\ lock' = p
    /\ Goto(p, "loading")
    /\ UNCHANGED <<snapshotFiles, key, disk, packets, job>>

\* flock(LOCK_EX).
Lock(p) ==
    /\ pc[p] = "waiting"
    /\ lock = None
    /\ lock' = p
    /\ Goto(p, "loading")
    /\ UNCHANGED <<snapshotFiles, key, disk, packets, job>>

\* Where a promotion continues, by what the files and the journal say.
ResumeAt(s) ==
    IF candidate[s] # None THEN "rename"
    ELSE IF approval[s] # None THEN "verify"
    ELSE CASE journal[s].phase = "BUILT" -> "move"
           [] journal[s].phase = "MOVED" -> "prepare"
           [] OTHER -> "approve"

\* Both loads under the lock, the digest comparison, and the fsync of the
\* selected directory (the first load only reads, so it can fail no less).
Load(p) ==
    LET s == job[p].snapshot
    IN  /\ pc[p] = "loading"
        /\ IF LoadAccepts(s) /\ Selected(s) = job[p].directory
           THEN /\ Goto(p, ResumeAt(s))
                /\ disk' = [disk EXCEPT !.approval[s] = approval[s]]
                /\ UNCHANGED <<lock, job>>
           ELSE End(p) /\ UNCHANGED disk
        /\ UNCHANGED <<snapshotFiles, key, packets>>

\* os.replace(candidate, final), then fsync of the root.
Rename(p) ==
    LET s == job[p].snapshot
    IN  /\ pc[p] = "rename"
        /\ final' = [final EXCEPT ![s] = candidate[s]]
        /\ candidate' = [candidate EXCEPT ![s] = None]
        /\ Goto(p, "sync move")
        /\ UNCHANGED <<approval, current, journal, key, disk, packets, lock, job>>

\* _advance_build_transaction: the journal is replaced, then its directory synced.
Advance(p, phase, next) ==
    /\ journal' = [journal EXCEPT ![job[p].snapshot].phase = phase]
    /\ Goto(p, next)
    /\ UNCHANGED <<candidate, final, approval, current, key, disk, packets, lock, job>>

AdvanceMoved(p) == pc[p] = "move" /\ Advance(p, "MOVED", "sync prepare")

\* Mutant of PrepareApproval: role and time swapped.
PrepareApprovalSwaps(p) ==
    /\ pc[p] = "prepare"
    /\ journal' = [journal EXCEPT ![job[p].snapshot].phase = "APPROVAL_PREPARED",
                                  ![job[p].snapshot].approvedAt = "data-steward"]
    /\ Goto(p, "sync approve")
    /\ UNCHANGED <<candidate, final, approval, current, key, disk, packets, lock, job>>

\* The approval is journaled before it is written to the manifest.
PrepareApproval(p) ==
    /\ pc[p] = "prepare"
    /\ \E time \in Times :
          journal' = [journal EXCEPT ![job[p].snapshot].phase = "APPROVAL_PREPARED",
                                     ![job[p].snapshot].approvedAt = time]
    /\ Goto(p, "sync approve")
    /\ UNCHANGED <<candidate, final, approval, current, key, disk, packets, lock, job>>

WriteApproval(p) ==
    /\ pc[p] = "approve"
    /\ approval' = [approval EXCEPT ![job[p].snapshot] = journal[job[p].snapshot].approvedAt]
    /\ Goto(p, "sync verify")
    /\ UNCHANGED <<candidate, final, current, journal, key, disk, packets, lock, job>>

\* _transaction_attests_manifest and verify_snapshot_directory, then the phase
\* decides; a promotion that was published before only checks the pointer.
Verify(p) ==
    LET s == job[p].snapshot
    IN  /\ pc[p] = "verify"
        /\ IF ~(Servable(s) /\ approval[s] = journal[s].approvedAt)
           THEN /\ End(p)
                /\ UNCHANGED <<snapshotFiles, key, disk, packets>>
           ELSE \/ /\ journal[s].phase = "APPROVAL_PREPARED"
                   /\ Advance(p, "VERIFIED", "sync ready")
                \/ /\ journal[s].phase = "VERIFIED"
                   /\ Advance(p, "POINTER_PREPARED", "sync pointer")
                \/ /\ journal[s].phase \in {"POINTER_PREPARED", "PUBLISHED"}
                   /\ Goto(p, IF journal[s].phase = "PUBLISHED" THEN "check"
                                                                ELSE "pointer")
                   /\ UNCHANGED <<snapshotFiles, key, disk, packets, lock, job>>

AdvanceReady(p) == pc[p] = "ready" /\ Advance(p, "POINTER_PREPARED", "sync pointer")

\* os.replace of current.json, then fsync of the root.
WritePointer(p) ==
    /\ pc[p] = "pointer"
    /\ current' = job[p].snapshot
    /\ Goto(p, "sync publish")
    /\ UNCHANGED <<candidate, final, approval, journal, key, disk, packets, lock, job>>

AdvancePublished(p) == pc[p] = "publish" /\ Advance(p, "PUBLISHED", "sync check")

\* The closing verify_snapshot can only raise; then the lock is released.
Finish(p) ==
    /\ pc[p] = "check"
    /\ End(p)
    /\ UNCHANGED <<snapshotFiles, key, disk, packets>>

\* The fsync that follows each replacement.
SyncedWith == [move |-> "sync move", prepare |-> "sync prepare",
               approve |-> "sync approve", verify |-> "sync verify",
               ready |-> "sync ready", pointer |-> "sync pointer",
               publish |-> "sync publish", check |-> "sync check"]

\* Mutant of Sync: the root is never synced.
SyncSkipsRoot(p) ==
    \E next \in DOMAIN SyncedWith :
        /\ pc[p] = SyncedWith[next]
        /\ Goto(p, next)
        /\ CASE next \in {"move", "publish"} -> UNCHANGED disk
             [] next = "verify" ->
                    LET s == job[p].snapshot
                    IN  disk' = [disk EXCEPT !.approval[s] = approval[s]]
             [] OTHER -> SyncJournal(job[p].snapshot)
        /\ UNCHANGED <<snapshotFiles, key, packets, lock, job>>

Sync(p) ==
    \E next \in DOMAIN SyncedWith :
        /\ pc[p] = SyncedWith[next]
        /\ Goto(p, next)
        /\ CASE next \in {"move", "publish"} -> SyncRoot
             [] next = "verify" ->
                    LET s == job[p].snapshot
                    IN  disk' = [disk EXCEPT !.approval[s] = approval[s]]
             [] OTHER -> SyncJournal(job[p].snapshot)
        /\ UNCHANGED <<snapshotFiles, key, packets, lock, job>>

-----------------------------------------------------------------------------
\* A step raises (a full disk, a signal) or the process dies.
Stop(p) ==
    /\ pc[p] # "idle"
    /\ End(p)
    /\ UNCHANGED <<snapshotFiles, key, disk, packets>>

\* The machine dies: each unsynced replacement may be lost or kept.
Unsynced(seen, durable) == {s \in Snapshots : seen[s] # durable[s]}

Losing(seen, durable, lost) ==
    [s \in Snapshots |-> IF s \in lost THEN durable[s] ELSE seen[s]]

PowerLoss ==
    /\ \E lost \in SUBSET (Unsynced(candidate, disk.candidate)
                               \cup Unsynced(final, disk.final)) :
          /\ candidate' = Losing(candidate, disk.candidate, lost)
          /\ final' = Losing(final, disk.final, lost)
    /\ \E lost \in SUBSET Unsynced(approval, disk.approval) :
          approval' = Losing(approval, disk.approval, lost)
    /\ \E lost \in SUBSET Unsynced(journal, disk.journal) :
          journal' = Losing(journal, disk.journal, lost)
    /\ current' \in {current, disk.current}
    /\ key' \in {key} \cup (IF key = "empty" THEN {"absent"} ELSE {})
    /\ disk' = [candidate |-> candidate', final |-> final', approval |-> approval',
                current |-> current', journal |-> journal']
    /\ lock' = None
    /\ pc' = [p \in Processes |-> "idle"]
    /\ job' = [p \in Processes |-> NoJob]
    /\ UNCHANGED packets

-----------------------------------------------------------------------------
SyncNext(p) ==
    \/ \E s \in Snapshots, content \in Contents : StartSync(p, s, content)
    \/ MakeCandidate(p)
    \/ WriteCandidate(p)
    \/ CreateTransaction(p)
    \/ CreateKey(p)
    \/ WriteKey(p)
    \/ SyncTransaction(p)

Promotion(p) ==
    \/ Load(p)
    \/ Rename(p)
    \/ AdvanceMoved(p)
    \/ PrepareApproval(p)
    \/ WriteApproval(p)
    \/ Verify(p)
    \/ AdvanceReady(p)
    \/ WritePointer(p)
    \/ AdvancePublished(p)
    \/ Finish(p)
    \/ Sync(p)

PromoterNext(p) == (\E s \in Snapshots : Approve(p, s)) \/ Lock(p) \/ Promotion(p)

ReviewNext == \E s \in Snapshots : Review(s)

NormalNext ==
    \/ \E p \in Syncs : SyncNext(p)
    \/ \E p \in Promoters : PromoterNext(p)
    \/ ReviewNext

(* Faults: either processes stop or the machine does, never both.  A       *)
(* promotion that meets one fault of each kind may be lost (README,        *)
(* section 2).                                                             *)
VARIABLE fault      \* the kind of fault of this behaviour

FaultNext ==
    \/ NormalNext
    \/ fault = "process" /\ \E p \in Processes : Stop(p)
    \/ fault = "machine" /\ PowerLoss

FaultSpec ==
    /\ fault \in {"process", "machine"} /\ Init
    /\ [][FaultNext /\ UNCHANGED fault]_<<vars, fault>>

-----------------------------------------------------------------------------
(* Whatever stopped, current.json selects a whole directory whose approval *)
(* is the journaled one, of contents a steward has seen: the map starts.   *)
CurrentIsServable ==
    current # None =>
        /\ Servable(current)
        /\ journal[current] # None
        /\ approval[current] = journal[current].approvedAt
        /\ final[current] = journal[current].directory
        /\ final[current] \in packets[current]

Lineage == INSTANCE SnapshotLineage WITH
    reviewed <- packets,
    placed   <- final,
    selected <- current

(* Syncs, stewards, promoters, their journal and every fault implement the *)
(* lineage: what is published was reviewed as it is and extends what was   *)
(* current when it was published, so that two candidates of the same       *)
(* predecessor never both make it, it is never changed or replaced, and a  *)
(* power loss takes back the last pointer at most.                         *)
ImplementsLineage == Lineage!Spec

(* A reviewed promotion that stopped can be taken up again, as long as     *)
(* nobody has published another snapshot meanwhile.                        *)
Unfinished(s) ==
    /\ journal[s] # None
    /\ ~journal[s].issues
    /\ current \in {journal[s].directory.previous, s}

PromotionIsRecoverable ==
    lock = None => \A s \in Snapshots : Unfinished(s) => LoadAccepts(s)
=============================================================================
