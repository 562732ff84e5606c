-------------------------- MODULE QuarantineResolution --------------------------
(***************************************************************************)
(* Decisions about quarantined parser occurrences: the sidecar file with   *)
(* the chain of decisions (ingestion/quarantine_review.py) and the brokers *)
(* that append to it for reviewers (ingestion/review_broker.py), each of   *)
(* which serves one connection at a time.                                  *)
(*                                                                         *)
(* A request carries the digest of the head it is meant for; the chain     *)
(* stands for its digest.  Temporary files have random names and are not   *)
(* state.                                                                  *)
(***************************************************************************)
EXTENDS QuarantineRecords

CONSTANTS
    Manifests,  \* frozen annotation manifests: what they decide
    Brokers

ASSUME ManifestsDecide == Manifests \subseteq [event: EventIds, occurrence: Occurrences]

ASSUME NoneIsNoBroker == None \notin Brokers \cup Manifests

VARIABLES
    sidecar,      \* the file as processes see it
    durable,      \* the file as of the last fsync of its directory
    lock,         \* broker that holds the flock
    pc,           \* step of each broker
    serving,      \* reviewer whose connection a broker handles
    base,         \* the chain a broker has read under the lock
    reviewer,     \* what each reviewer has read and asked
    acknowledged  \* resolution_appended replies that were received

file == <<sidecar, durable>>
vars == <<file, lock, pc, serving, base, reviewer, acknowledged>>

Chains == Seq(Events)

\* The steps that follow the lock up to its release.
LockedSteps == {"deciding", "writing", "replacing", "syncing", "reading"}
Outcomes == {"appended", "refused"}
Steps == {"idle", "locking"} \cup LockedSteps \cup Outcomes

\* A reviewer has read a head and drafts a request, or waits for its reply.
ReviewerStates ==
    [state: {"drafting", "sent"}, head: Chains, manifest: Manifests \cup {None},
     broker: Brokers \cup {None}]

Acknowledgements == [head: Chains, event: Events]

TypeOK ==
    /\ sidecar \in Chains
    /\ durable \in Chains
    /\ lock \in Brokers \cup {None}
    /\ pc \in [Brokers -> Steps]
    /\ serving \in [Brokers -> Reviewers \cup {None}]
    /\ base \in [Brokers -> Chains]
    /\ reviewer \in [Reviewers -> ReviewerStates]
    /\ acknowledged \subseteq Acknowledgements

Drafting(head) == [state |-> "drafting", head |-> head, manifest |-> None, broker |-> None]

\* create_resolution_draft has no events.
Init ==
    /\ sidecar = <<>>
    /\ durable = <<>>
    /\ lock = None
    /\ pc = [b \in Brokers |-> "idle"]
    /\ serving = [b \in Brokers |-> None]
    /\ base = [b \in Brokers |-> <<>>]
    /\ reviewer = [r \in Reviewers |-> Drafting(<<>>)]
    /\ acknowledged = {}

-----------------------------------------------------------------------------
(* Reviewers                                                               *)

\* A reviewer learns the current head.
ReadHead(r) ==
    /\ reviewer[r].state = "drafting"
    /\ reviewer' = [reviewer EXCEPT ![r] = Drafting(sidecar)]
    /\ UNCHANGED <<file, lock, pc, serving, base, acknowledged>>

\* It sends a request, or repeats one, for the head it has read.
Send(r, m, b) ==
    /\ reviewer[r].state = "drafting"
    /\ reviewer' = [reviewer EXCEPT ![r] = [state |-> "sent", head |-> reviewer[r].head,
                                            manifest |-> m, broker |-> b]]
    /\ UNCHANGED <<file, lock, pc, serving, base, acknowledged>>

-----------------------------------------------------------------------------
(* Brokers                                                                 *)

Goto(b, step) == pc' = [pc EXCEPT ![b] = step]

Request(b) == reviewer[serving[b]]

\* What append_resolution_event adds: the actor is the peer's.
EventOf(b) ==
    [event |-> Request(b).manifest.event, occurrence |-> Request(b).manifest.occurrence,
     actor |-> serving[b]]

\* Mutant of Replayed: only a whole repeated decision is a replay.
ReplayedDecision(chain, m) ==
    \E i \in 1 .. Len(chain) :
        chain[i].event = m.event /\ chain[i].occurrence = m.occurrence

\* resolution_replay.
Replayed(chain, m) == \E i \in 1 .. Len(chain) : chain[i].event = m.event

Accept(b, r) ==
    /\ pc[b] = "idle"
    /\ reviewer[r].state = "sent" /\ reviewer[r].broker = b
    /\ serving' = [serving EXCEPT ![b] = r]
    /\ Goto(b, "locking")
    /\ UNCHANGED <<file, lock, base, reviewer, acknowledged>>

\* Mutant of Release: an error leaves the flock held.
ReleaseOnSuccess(b, outcome) ==
    /\ lock' = IF lock = b /\ outcome = "appended" THEN None ELSE lock
    /\ base' = [base EXCEPT ![b] = <<>>]
    /\ Goto(b, outcome)

\* The with block ends, or is never entered: the flock is released before
\* the reply is sent.
Release(b, outcome) ==
    /\ lock' = IF lock = b THEN None ELSE lock
    /\ base' = [base EXCEPT ![b] = <<>>]
    /\ Goto(b, outcome)

\* Mutant of Lock: shared instead of exclusive.
LockShared(b) ==
    /\ pc[b] = "locking"
    /\ lock' = b
    /\ Goto(b, "deciding")
    /\ UNCHANGED <<file, serving, base, reviewer, acknowledged>>

\* flock(LOCK_EX) waits; opening the lock file may fail.
Lock(b) ==
    /\ pc[b] = "locking"
    /\ \/ lock = None /\ lock' = b /\ Goto(b, "deciding") /\ UNCHANGED base
       \/ Release(b, "refused")
    /\ UNCHANGED <<file, serving, reviewer, acknowledged>>

\* append_resolution_event: the occurrence is unresolved and a boundary
\* quarantine.
Decidable(chain, m) ==
    /\ m.occurrence \notin Upstream
    /\ \A i \in 1 .. Len(chain) : chain[i].occurrence # m.occurrence

\* Mutant of Decide: the expected head is not compared.
DecideOnAnyHead(b) ==
    /\ pc[b] = "deciding"
    /\ \/ /\ ~Replayed(sidecar, Request(b).manifest)
          /\ Decidable(sidecar, Request(b).manifest)
          /\ base' = [base EXCEPT ![b] = sidecar]
          /\ Goto(b, "writing")
          /\ UNCHANGED lock
       \/ Release(b, "refused")
    /\ UNCHANGED <<file, serving, reviewer, acknowledged>>

\* The chain is read and everything is checked against it; if a check or a
\* read fails, the request is refused.
Decide(b) ==
    /\ pc[b] = "deciding"
    /\ \/ /\ sidecar = Request(b).head
          /\ ~Replayed(sidecar, Request(b).manifest)
          /\ Decidable(sidecar, Request(b).manifest)
          /\ base' = [base EXCEPT ![b] = sidecar]
          /\ Goto(b, "writing")
          /\ UNCHANGED lock
       \/ Release(b, "refused")
    /\ UNCHANGED <<file, serving, reviewer, acknowledged>>

\* The temporary file is written, or not; then the head is compared again.
WriteTemporary(b) ==
    /\ pc[b] = "writing"
    /\ \/ sidecar = base[b] /\ Goto(b, "replacing") /\ UNCHANGED <<lock, base>>
       \/ Release(b, "refused")
    /\ UNCHANGED <<file, serving, reviewer, acknowledged>>

Replace(b) ==
    /\ pc[b] = "replacing"
    /\ sidecar' = Append(base[b], EventOf(b))
    /\ Goto(b, "syncing")
    /\ UNCHANGED <<durable, lock, serving, base, reviewer, acknowledged>>

\* Mutant of SyncDirectory: a failed fsync is taken for a success.
SyncIgnored(b) ==
    /\ pc[b] = "syncing"
    /\ durable' \in {durable, sidecar}
    /\ Goto(b, "reading")
    /\ UNCHANGED <<sidecar, lock, base, serving, reviewer, acknowledged>>

\* fsync of the directory; if it fails the decision stays, but is reported
\* as resolution_write_failed.
SyncDirectory(b) ==
    /\ pc[b] = "syncing"
    /\ \/ durable' = sidecar /\ Goto(b, "reading") /\ UNCHANGED <<lock, base>>
       \/ Release(b, "refused") /\ UNCHANGED durable
    /\ UNCHANGED <<sidecar, serving, reviewer, acknowledged>>

\* The file is read back; that may fail as well.
ReadBack(b) ==
    /\ pc[b] = "reading"
    /\ \/ sidecar = Append(base[b], EventOf(b)) /\ Release(b, "appended")
       \/ Release(b, "refused")
    /\ UNCHANGED <<file, serving, reviewer, acknowledged>>

\* The reply arrives, or the peer is gone (_send_response ignores it); either
\* way the reviewer may repeat the request.
Answer(b) ==
    /\ pc[b] \in Outcomes
    /\ acknowledged' \in
          {acknowledged,
           IF pc[b] = "appended"
           THEN acknowledged \cup {[head |-> Request(b).head, event |-> EventOf(b)]}
           ELSE acknowledged}
    /\ reviewer' = [reviewer EXCEPT ![serving[b]] = Drafting(reviewer[serving[b]].head)]
    /\ serving' = [serving EXCEPT ![b] = None]
    /\ Goto(b, "idle")
    /\ UNCHANGED <<file, lock, base>>

-----------------------------------------------------------------------------
\* The connections of brokers that end are closed.
Dropped(gone) ==
    [r \in Reviewers |->
        IF reviewer[r].broker \in gone THEN Drafting(reviewer[r].head) ELSE reviewer[r]]

\* A broker dies; the kernel releases its flock.  It is started again.
Crash(b) ==
    /\ pc[b] # "idle"
    /\ lock' = IF lock = b THEN None ELSE lock
    /\ Goto(b, "idle")
    /\ serving' = [serving EXCEPT ![b] = None]
    /\ base' = [base EXCEPT ![b] = <<>>]
    /\ reviewer' = Dropped({b})
    /\ UNCHANGED <<file, acknowledged>>

\* The machine dies: the directory entry is any replacement since the fsync.
PowerLoss ==
    /\ sidecar' \in {durable} \cup
                       {SubSeq(sidecar, 1, n) : n \in Len(durable) .. Len(sidecar)}
    /\ durable' = sidecar'
    /\ lock' = None
    /\ pc' = [b \in Brokers |-> "idle"]
    /\ serving' = [b \in Brokers |-> None]
    /\ base' = [b \in Brokers |-> <<>>]
    /\ reviewer' = Dropped(Brokers)
    /\ UNCHANGED acknowledged

-----------------------------------------------------------------------------
ReviewerNext(r) ==
    \/ ReadHead(r)
    \/ \E m \in Manifests, b \in Brokers : Send(r, m, b)

BrokerNext(b) ==
    \/ \E r \in Reviewers : Accept(b, r)
    \/ Lock(b)
    \/ Decide(b)
    \/ WriteTemporary(b)
    \/ Replace(b)
    \/ SyncDirectory(b)
    \/ ReadBack(b)
    \/ Answer(b)

Next ==
    \/ \E r \in Reviewers : ReviewerNext(r)
    \/ \E b \in Brokers : BrokerNext(b) \/ Crash(b)
    \/ PowerLoss

Spec == Init /\ [][Next]_vars

-----------------------------------------------------------------------------
(* Whatever brokers, crashes and power losses do, the sidecar validates    *)
(* when it is next read, no event id is used twice, and no upstream        *)
(* failure was closed by a reviewer (has_exact_occurrence_set, replay).    *)
SidecarIsValid == Valid(sidecar) /\ Valid(durable)

(* A decision whose success was reported is never lost, and it was made on *)
(* exactly the head the reviewer had named (manual-review.md, section 7).  *)
AcknowledgedIsKept ==
    \A a \in acknowledged : Extends(durable, Append(a.head, a.event))

(* Of the requests for one head one at most is reported as a success: the  *)
(* integration test that manual-review.md:384 calls a release blocker.     *)
OneSuccessPerHead ==
    \A a1, a2 \in acknowledged : a1.head = a2.head => a1 = a2

(* The durable sidecar is a log that only grows (DecisionLog).             *)
Log == INSTANCE DecisionLog WITH log <- durable

ImplementsDecisionLog == Log!Spec

(* The lock never outlives the work it protects, whichever way that ends: *)
(* whoever waits for it waits for a broker that is about to release it.    *)
LockHolderWorks == lock # None => pc[lock] \in LockedSteps
=============================================================================
