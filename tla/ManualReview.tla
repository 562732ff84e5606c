------------------------------ MODULE ManualReview ------------------------------
(***************************************************************************)
(* Manual review of one review package of the corpus: the SQLite store of  *)
(* decisions (ingestion/review.py), used by several reviewers through the  *)
(* command line and the broker, the export of the decisions to files       *)
(* (export_review_ready in corpus/staging.py), and the reader of these     *)
(* files (corpus/storage.py, corpus/finalize.py).                          *)
(*                                                                         *)
(* Every operation of the store is one BEGIN IMMEDIATE transaction, hence  *)
(* one action; the export is not.  The flags a row keeps beside its status *)
(* (eligibility, verification, version) follow from it by the CHECKs of    *)
(* the schema and are not modelled.  A content hash names its case.  Of    *)
(* the dates that the clock gives to events, only their order in a case    *)
(* is kept: the clock may step back, nothing in the store compares dates.  *)
(***************************************************************************)
EXTENDS Naturals, Sequences, FiniteSets

CONSTANTS
    Cases,        \* case ids of the package's registry
    Restricted,   \* cases with a restricted-pii location
    Actors,       \* reviewers, as uid:<uid>:<name>
    Uid(_),       \* uid of an actor: an account may have been renamed
    Manifests,    \* hashes of segment manifests
    CasesOf(_),   \* cases of a manifest
    Exporters,    \* processes that run export-ready
    None, Partial

ASSUME RestrictedAreCases == Restricted \subseteq Cases

ASSUME ManifestsNameCases == \A m \in Manifests : CasesOf(m) \in (SUBSET Cases) \ {{}}

ASSUME NoneIsFresh == None \notin Actors \cup Manifests /\ None # Partial

VARIABLES
    store,        \* rows and events of the cases, None before registration
    batches,      \* manifests of review_batch_manifests
    snapshotFile, \* review-decision-snapshot.json
    attestation,  \* review-ready.attestation.json: the snapshot it pins
    exporter      \* control state and snapshot of the exporters

vars == <<store, batches, snapshotFile, attestation, exporter>>

Statuses == {"machine_extracted", "needs_review", "search_approved", "approved", "rejected"}
TerminalStates == {"approved", "rejected"}
Decided == {"search_approved", "approved", "rejected"}
Actions == {"enqueue", "verify_fields", "approve_search", "approve_answer", "reject"}

OptActor == Actors \cup {None}
OptManifest == Manifests \cup {None}

\* The actor of an enqueue event is the quality gate, here None.
Events == [action: Actions, before: Statuses, after: Statuses, actor: OptActor,
           manifest: OptManifest]

\* ordered: no event is dated before the one it follows.
CaseStates == [status: Statuses, critical: OptActor, search: OptActor, answer: OptActor,
               events: Seq(Events), ordered: BOOLEAN]

Files(S) == [Cases -> S] \cup {None, Partial}

\* No row and no whole file is taken for a missing or a torn one.
ASSUME FilesAssumption ==
    None \notin CaseStates /\ \A v \in {None, Partial} : v \notin [Cases -> CaseStates]

ExportSteps == {"idle", "checked", "taken", "writing", "attest", "attesting"}

TypeOK ==
    /\ store \in [Cases -> CaseStates \cup {None}]
    /\ batches \subseteq Manifests
    /\ snapshotFile \in Files(CaseStates)
    /\ attestation \in Files(CaseStates)
    /\ exporter \in [Exporters -> [step: ExportSteps, snapshot: Files(CaseStates)]]

Idle == [step |-> "idle", snapshot |-> None]

Init ==
    /\ store = [c \in Cases |-> None]
    /\ batches = {}
    /\ snapshotFile = None
    /\ attestation = None
    /\ exporter = [x \in Exporters |-> Idle]

-----------------------------------------------------------------------------
(* What an operation does to one case: its row and one event.              *)

Logged(k, action, after, actor, manifest) ==
    [k EXCEPT !.status = after,
              !.events = Append(@, [action |-> action, before |-> k.status,
                                    after |-> after, actor |-> actor,
                                    manifest |-> manifest])]

Candidate == [status |-> "machine_extracted", critical |-> None, search |-> None,
              answer |-> None, events |-> <<>>, ordered |-> TRUE]

Queued(k) == Logged(k, "enqueue", "needs_review", None, None)

Verified(k, actor, manifest) ==
    [Logged(k, "verify_fields", k.status, actor, manifest) EXCEPT !.critical = actor]

SearchApproved(k, actor, manifest) ==
    [Logged(k, "approve_search", "search_approved", actor, manifest) EXCEPT !.search = actor]

AnswerApproved(k, actor, manifest) ==
    [Logged(k, "approve_answer", "approved", actor, manifest) EXCEPT !.answer = actor]

Rejected(k, actor) == Logged(k, "reject", "rejected", actor, None)

\* _verify_fields_tx, _approve_search_tx, _approve_answer_tx, reject.
CanVerify(k) == k # None /\ k.status = "needs_review" /\ k.critical = None

\* Mutant of CanApproveSearch: restricted locations are not looked up.
CanApproveSearchAny(c, k) == k # None /\ k.status = "needs_review" /\ k.critical # None

CanApproveSearch(c, k) ==
    /\ k # None /\ k.status = "needs_review"
    /\ k.critical # None
    /\ c \notin Restricted

SameReviewer(first, second) == first # None /\ second # None /\ Uid(first) = Uid(second)

\* Mutant of CanApproveAnswer: names are compared, not uids.
CanApproveAnswerByName(c, k, actor) ==
    /\ k # None /\ k.status = "search_approved"
    /\ c \notin Restricted
    /\ actor \notin {k.critical, k.search}

CanApproveAnswer(c, k, actor) ==
    /\ k # None /\ k.status = "search_approved"
    /\ c \notin Restricted
    /\ ~SameReviewer(k.critical, actor) /\ ~SameReviewer(k.search, actor)

\* Mutant of CanReject: an approved case may still be rejected.
CanRejectApproved(k) == k # None /\ k.status # "rejected"

CanReject(k) == k # None /\ k.status \notin TerminalStates

-----------------------------------------------------------------------------
(* The operations of ReviewStore.                                          *)

\* The clock has stepped back since an event of the case.
Late(k) == [k EXCEPT !.ordered = FALSE]

Dated(k) == IF Len(k.events) > 1 THEN {k, Late(k)} ELSE {k}

Update(c, k) ==
    /\ \E dated \in Dated(k) : store' = [store EXCEPT ![c] = dated]
    /\ UNCHANGED <<batches, snapshotFile, attestation, exporter>>

RegisterCandidate(c) == store[c] = None /\ Update(c, Candidate)

Enqueue(c) == store[c] = None /\ Update(c, Queued(Candidate))

MarkNeedsReview(c) ==
    /\ store[c] # None /\ store[c].status = "machine_extracted"
    /\ Update(c, Queued(store[c]))

VerifyCriticalFields(c, actor) ==
    CanVerify(store[c]) /\ Update(c, Verified(store[c], actor, None))

ApproveSearch(c, actor) ==
    CanApproveSearch(c, store[c]) /\ Update(c, SearchApproved(store[c], actor, None))

ApproveAnswer(c, actor) ==
    CanApproveAnswer(c, store[c], actor) /\ Update(c, AnswerApproved(store[c], actor, None))

Reject(c, actor) == CanReject(store[c]) /\ Update(c, Rejected(store[c], actor))

\* run_mode for one case, as the command line and the broker call it.
\* Mutant of RunCriticalFields: the approval is a transaction of its own.
RunVerifyOnly(c, actor, manifest) ==
    /\ c \in CasesOf(manifest)
    /\ \/ CanVerify(store[c]) /\ Update(c, Verified(store[c], actor, manifest))
       \/ /\ CanApproveSearch(c, store[c])
          /\ Update(c, SearchApproved(store[c], actor, manifest))

RunCriticalFields(c, actor, manifest) ==
    LET verified == Verified(store[c], actor, manifest)
    IN  /\ c \in CasesOf(manifest)
        /\ CanVerify(store[c])
        /\ CanApproveSearch(c, verified)
        /\ Update(c, SearchApproved(verified, actor, manifest))

RunAnswerAndBasis(c, actor, manifest) ==
    /\ c \in CasesOf(manifest)
    /\ CanApproveAnswer(c, store[c], actor)
    /\ Update(c, AnswerApproved(store[c], actor, manifest))

\* run_case_complete: a run of this manifest need not do this case again.
RunComplete(k, mode, manifest) ==
    LET done == {k.events[i].action : i \in {j \in DOMAIN k.events :
                                                k.events[j].manifest = manifest}}
    IN  IF mode = "critical-fields-all"
        THEN /\ k.status \in {"search_approved", "approved"}
             /\ {"verify_fields", "approve_search"} \subseteq done
        ELSE k.status = "approved" /\ "approve_answer" \in done

\* All cases of the manifest or none; a manifest is used once.
ApproveSearchBatch(manifest, actor) ==
    /\ manifest \notin batches
    /\ \A c \in CasesOf(manifest) : CanApproveSearch(c, store[c])
    /\ batches' = batches \cup {manifest}
    /\ \E late \in SUBSET CasesOf(manifest) :
          store' = [c \in Cases |->
                      LET approved == SearchApproved(store[c], actor, manifest)
                      IN  IF c \in late THEN Late(approved)
                          ELSE IF c \in CasesOf(manifest) THEN approved ELSE store[c]]
    /\ UNCHANGED <<snapshotFile, attestation, exporter>>

-----------------------------------------------------------------------------
(* The export and its readers.                                             *)

\* export_decision_snapshot: every case of the registry is decided.
Exportable == \A c \in Cases : store[c] # None /\ store[c].status \in Decided

Allowed ==
    {<<"machine_extracted", "enqueue", "needs_review">>,
     <<"needs_review", "verify_fields", "needs_review">>,
     <<"needs_review", "approve_search", "search_approved">>,
     <<"search_approved", "approve_answer", "approved">>,
     <<"machine_extracted", "reject", "rejected">>,
     <<"needs_review", "reject", "rejected">>,
     <<"search_approved", "reject", "rejected">>}

StateBefore(events, i) == IF i = 1 THEN "machine_extracted" ELSE events[i - 1].after

\* The actor of the event with this action, None if there is no such event.
ActorOf(events, action) ==
    IF \E i \in DOMAIN events : events[i].action = action
    THEN events[CHOOSE i \in DOMAIN events : events[i].action = action].actor
    ELSE None

\* _parse_review_case: the events replay to the row, and their dates do not go
\* back.
ReplayAccepts(k) ==
    /\ k.status \in Decided
    /\ k.events # <<>>
    /\ k.ordered
    /\ \A i \in DOMAIN k.events :
          /\ k.events[i].before = StateBefore(k.events, i)
          /\ <<k.events[i].before, k.events[i].action, k.events[i].after>> \in Allowed
    /\ \A i, j \in DOMAIN k.events : k.events[i].action = k.events[j].action => i = j
    /\ k.events[Len(k.events)].after = k.status
    /\ k.critical = ActorOf(k.events, "verify_fields")
    /\ k.search = ActorOf(k.events, "approve_search")
    /\ k.answer = ActorOf(k.events, "approve_answer")
    /\ k.status = "approved" =>
          k.answer # None /\ ~SameReviewer(k.answer, k.critical)
                          /\ ~SameReviewer(k.answer, k.search)

\* load_review_decision_snapshot, as both the export and finalize use it.
LoadAccepts(snapshot) == \A c \in Cases : ReplayAccepts(snapshot[c])

\* Finalization takes the decisions of the files, not of the store.
FinalizeAccepts ==
    /\ attestation \notin {None, Partial}
    /\ snapshotFile = attestation
    /\ LoadAccepts(snapshotFile)

-----------------------------------------------------------------------------
Goto(x, step) == exporter' = [exporter EXCEPT ![x].step = step]

EndExport(x) == exporter' = [exporter EXCEPT ![x] = Idle]

StartExport(x) ==
    /\ exporter[x].step = "idle"
    /\ attestation = None
    /\ Goto(x, "checked")
    /\ UNCHANGED <<store, batches, snapshotFile, attestation>>

\* review_not_ready ends the export.
TakeSnapshot(x) ==
    /\ exporter[x].step = "checked"
    /\ IF Exportable /\ LoadAccepts(store)
       THEN exporter' = [exporter EXCEPT ![x] = [step |-> "taken", snapshot |-> store]]
       ELSE EndExport(x)
    /\ UNCHANGED <<store, batches, snapshotFile, attestation>>

\* Mutant of UseSnapshotFile: a file that is there is taken for the same.
UseAnySnapshotFile(x) ==
    /\ exporter[x].step = "taken"
    /\ IF snapshotFile = None
       THEN snapshotFile' = Partial /\ Goto(x, "writing")
       ELSE Goto(x, "attest") /\ UNCHANGED snapshotFile
    /\ UNCHANGED <<store, batches, attestation>>

\* Mutant of UseSnapshotFile: the file an earlier export left is attested.
UseLeftSnapshotFile(x) ==
    /\ exporter[x].step = "taken"
    /\ \/ /\ snapshotFile = None
          /\ snapshotFile' = Partial
          /\ Goto(x, "writing")
       \/ /\ snapshotFile \notin {None, Partial}
          /\ exporter' = [exporter EXCEPT ![x] = [step |-> "attest", snapshot |-> snapshotFile]]
          /\ UNCHANGED snapshotFile
    /\ UNCHANGED <<store, batches, attestation>>

\* The file is created (O_EXCL), or an earlier export has left the same one.
UseSnapshotFile(x) ==
    /\ exporter[x].step = "taken"
    /\ \/ /\ snapshotFile = None
          /\ snapshotFile' = Partial
          /\ Goto(x, "writing")
       \/ /\ snapshotFile = exporter[x].snapshot
          /\ Goto(x, "attest")
          /\ UNCHANGED snapshotFile
       \/ /\ snapshotFile \notin {None, exporter[x].snapshot}
          /\ EndExport(x)
          /\ UNCHANGED snapshotFile
    /\ UNCHANGED <<store, batches, attestation>>

WriteSnapshotFile(x) ==
    /\ exporter[x].step = "writing"
    /\ snapshotFile' = exporter[x].snapshot
    /\ Goto(x, "attest")
    /\ UNCHANGED <<store, batches, attestation>>

\* O_EXCL again: of several exporters one attests.
CreateAttestation(x) ==
    /\ exporter[x].step = "attest"
    /\ IF attestation = None
       THEN attestation' = Partial /\ Goto(x, "attesting")
       ELSE EndExport(x) /\ UNCHANGED attestation
    /\ UNCHANGED <<store, batches, snapshotFile>>

WriteAttestation(x) ==
    /\ exporter[x].step = "attesting"
    /\ attestation' = exporter[x].snapshot
    /\ EndExport(x)
    /\ UNCHANGED <<store, batches, snapshotFile>>

\* A write fails or the process dies; nothing is cleaned up.
StopExport(x) ==
    /\ exporter[x].step # "idle"
    /\ EndExport(x)
    /\ UNCHANGED <<store, batches, snapshotFile, attestation>>

-----------------------------------------------------------------------------
StoreNext ==
    \/ \E c \in Cases : RegisterCandidate(c) \/ Enqueue(c) \/ MarkNeedsReview(c)
    \/ \E c \in Cases, actor \in Actors :
          \/ VerifyCriticalFields(c, actor)
          \/ ApproveSearch(c, actor)
          \/ ApproveAnswer(c, actor)
          \/ Reject(c, actor)
          \/ \E manifest \in Manifests :
                RunCriticalFields(c, actor, manifest) \/ RunAnswerAndBasis(c, actor, manifest)
    \/ \E manifest \in Manifests, actor \in Actors : ApproveSearchBatch(manifest, actor)

ExportNext(x) ==
    \/ StartExport(x)
    \/ TakeSnapshot(x)
    \/ UseSnapshotFile(x)
    \/ WriteSnapshotFile(x)
    \/ CreateAttestation(x)
    \/ WriteAttestation(x)
    \/ StopExport(x)

Next == StoreNext \/ \E x \in Exporters : ExportNext(x)

Spec == Init /\ [][Next]_vars

-----------------------------------------------------------------------------
(* Two validators agree but for the dates: of a store that exports its     *)
(* decisions the loader, which replays the events and compares reviewers   *)
(* again, refuses those cases only in which the clock went back between    *)
(* two events, and all decisions for them.                                 *)
ExportIsLoadable ==
    Exportable => \A c \in Cases : ReplayAccepts(store[c]) <=> store[c].ordered

(* A case with restricted personal data never becomes searchable, by       *)
(* whichever of the four ways of approving.                                *)
RestrictedStaysOut ==
    \A c \in Restricted :
        store[c] # None => store[c].status \notin {"search_approved", "approved"}

(* However exports interleave and stop, a whole attestation pins the       *)
(* snapshot file beside it, finalization accepts the pair, and what it     *)
(* pins is a past of the store: the store's events continue its events.    *)
AttestationHolds ==
    attestation \notin {None, Partial} =>
        /\ FinalizeAccepts
        /\ \A c \in Cases :
              attestation[c].events = SubSeq(store[c].events, 1, Len(attestation[c].events))

(* A run that was interrupted can be resumed with its manifest: every case *)
(* that was decided by runs of this manifest only is complete for the      *)
(* first mode or still open to it, and complete for the second mode once   *)
(* it is approved.                                                         *)
RunIsResumable ==
    \A manifest \in Manifests : \A c \in CasesOf(manifest) \ Restricted :
        LET k == store[c]
        IN  (/\ k # None /\ k.status \in {"needs_review", "search_approved", "approved"}
             /\ \A i \in DOMAIN k.events :
                   k.events[i].action # "enqueue" => k.events[i].manifest = manifest
             /\ manifest \notin batches)
            => /\ RunComplete(k, "critical-fields-all", manifest) \/ CanVerify(k)
               /\ k.status = "approved" => RunComplete(k, "answer-and-basis-all", manifest)

(* What finalization publishes of a case that was approved or rejected is  *)
(* what the store says for ever after.                                     *)
TerminalIsPublished ==
    [][attestation \notin {None, Partial} =>
          \A c \in Cases : attestation[c].status \in TerminalStates =>
              store'[c].status = attestation[c].status]_vars

-----------------------------------------------------------------------------
(* The decisions behind rows, snapshots and files.                         *)
DecisionOf(k) ==
    IF k = None THEN [status |-> "open", critical |-> None, search |-> None, answer |-> None]
    ELSE [status |-> IF k.status \in Decided THEN k.status ELSE "open",
          critical |-> k.critical, search |-> k.search, answer |-> k.answer]

DecisionsOf(snapshot) == [c \in Cases |-> DecisionOf(snapshot[c])]

Holding == {x \in Exporters : exporter[x].step \in {"taken", "writing", "attest", "attesting"}}

Review == INSTANCE ReviewDecisions WITH
    decision  <- DecisionsOf(store),
    drafts    <- {DecisionsOf(exporter[x].snapshot) : x \in Holding},
    published <- IF FinalizeAccepts THEN DecisionsOf(snapshotFile) ELSE None

(* The store, its runs and batches, the exporters and their two files are  *)
(* a review: nobody answers for a case alone, and finalization takes the   *)
(* decisions of all cases as they stood at one moment, and no others ever  *)
(* after.                                                                  *)
ImplementsReview == Review!Spec
=============================================================================
