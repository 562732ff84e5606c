--------------------------- MODULE ManualReview_proofs ---------------------------
(***************************************************************************)
(* Proofs about ManualReview, for any set of cases, reviewers, manifests   *)
(* and exporters.  Every case walks one path, from which it may be         *)
(* rejected, and its events are the steps it has taken: this makes the     *)
(* store exportable, and whatever was exported a past of the store.        *)
(***************************************************************************)
EXTENDS ManualReview, ApprovedRelations, SampledReview, SequenceTheorems, TLAPS

\* Where a case is after n steps of the path.
Position(n) ==
    IF n = 0 THEN "machine_extracted" ELSE IF n <= 2 THEN "needs_review"
    ELSE IF n = 3 THEN "search_approved" ELSE "approved"

Step(k, i, action, before, after) ==
    /\ k.events[i].action = action
    /\ k.events[i].before = before /\ k.events[i].after = after

Path(k, n) ==
    /\ 1 <= n => Step(k, 1, "enqueue", "machine_extracted", "needs_review")
    /\ 2 <= n => Step(k, 2, "verify_fields", "needs_review", "needs_review")
    /\ 3 <= n => Step(k, 3, "approve_search", "needs_review", "search_approved")
    /\ 4 <= n => Step(k, 4, "approve_answer", "search_approved", "approved")

Signed(k, n) ==
    /\ IF 2 <= n THEN k.critical = k.events[2].actor /\ k.critical \in Actors ELSE k.critical = None
    /\ IF 3 <= n THEN k.search = k.events[3].actor /\ k.search \in Actors ELSE k.search = None
    /\ IF 4 <= n THEN k.answer = k.events[4].actor /\ k.answer \in Actors ELSE k.answer = None
    /\ 4 <= n => ~SameReviewer(k.answer, k.critical) /\ ~SameReviewer(k.answer, k.search)

\* The case is on the path, or has left it by its last event.
OnPath(k, n) == Len(k.events) = n /\ k.status = Position(n)

LeftPath(k, n) ==
    /\ Len(k.events) = n + 1 /\ n < 4 /\ k.status = "rejected"
    /\ Step(k, n + 1, "reject", Position(n), "rejected")

Walked(k, n) == Path(k, n) /\ Signed(k, n) /\ (OnPath(k, n) \/ LeftPath(k, n))

\* Fields are verified by a run of a manifest only together with approval.
CaseInv(c, k) ==
    \E n \in 0 .. 4 :
        /\ Walked(k, n)
        /\ n = 2 => k.events[2].manifest = None
        /\ c \in Restricted => n < 3

StoreInv == \A c \in Cases : store[c] # None => CaseInv(c, store[c])

Whole(file) == file \notin {None, Partial}

Prefix(s, t) == Len(s) <= Len(t) /\ \A i \in 1 .. Len(s) : s[i] = t[i]

\* A snapshot that was taken: the loader accepts it, and the store continues it.
Past(snapshot) ==
    \A c \in Cases :
        /\ store[c] # None /\ Prefix(snapshot[c].events, store[c].events)
        /\ snapshot[c].status \in TerminalStates => store[c] = snapshot[c]

Taken(snapshot) ==
    snapshot \in [Cases -> CaseStates] /\ LoadAccepts(snapshot) /\ Past(snapshot)

ExportInv ==
    \A x \in Exporters :
        LET e == exporter[x]
        IN  /\ e.step \in {"taken", "writing", "attest", "attesting"} => Taken(e.snapshot)
            /\ e.step = "writing" => snapshotFile = Partial
            /\ e.step \in {"attest", "attesting"} => snapshotFile = e.snapshot
            /\ e.step = "attesting" => attestation = Partial

\* A file is written by the one that created it.
WriterInv ==
    \A x, y \in Exporters :
        exporter[x].step \in {"writing", "attesting"} /\ exporter[y].step = exporter[x].step => x = y

AttestInv == Whole(attestation) => snapshotFile = attestation /\ Taken(attestation)

IInv == TypeOK /\ StoreInv /\ ExportInv /\ WriterInv /\ AttestInv

-----------------------------------------------------------------------------
(* What is logged                                                          *)

LEMMA LoggedCase ==
    ASSUME NEW k \in CaseStates, NEW action \in Actions, NEW after \in Statuses,
           NEW actor \in OptActor, NEW manifest \in OptManifest
    PROVE  LET l == Logged(k, action, after, actor, manifest)
           IN  /\ l \in CaseStates /\ l.status = after /\ Len(l.events) = Len(k.events) + 1
               /\ l.critical = k.critical /\ l.search = k.search /\ l.answer = k.answer
               /\ \A i \in 1 .. Len(k.events) : l.events[i] = k.events[i]
               /\ l.events[Len(k.events) + 1] =
                     [action |-> action, before |-> k.status, after |-> after,
                      actor |-> actor, manifest |-> manifest]
<1> DEFINE e == [action |-> action, before |-> k.status, after |-> after,
                 actor |-> actor, manifest |-> manifest]
           l == Logged(k, action, after, actor, manifest)
<1>1. k.status \in Statuses /\ k.events \in Seq(Events) /\ e \in Events
  BY DEF CaseStates, Events
<1>2. /\ Append(k.events, e) \in Seq(Events) /\ Len(Append(k.events, e)) = Len(k.events) + 1
      /\ \A i \in 1 .. Len(k.events) : Append(k.events, e)[i] = k.events[i]
      /\ Append(k.events, e)[Len(k.events) + 1] = e
  BY <1>1, AppendProperties
<1>3. l = [k EXCEPT !.status = after, !.events = Append(k.events, e)]
  BY DEF Logged
<1> HIDE DEF e, l
<1>4. /\ l \in CaseStates /\ l.status = after /\ l.events = Append(k.events, e)
      /\ l.critical = k.critical /\ l.search = k.search /\ l.answer = k.answer
  BY <1>2, <1>3 DEF CaseStates
<1> QED
  BY <1>2, <1>4 DEF l, e

\* A case and what an operation of the store makes of it.
Decides(c, k, l) ==
    \/ k = None /\ l \in {Candidate, Queued(Candidate)}
    \/ k # None /\ k.status = "machine_extracted" /\ l = Queued(k)
    \/ \E actor \in Actors :
          \/ CanVerify(k) /\ l = Verified(k, actor, None)
          \/ CanReject(k) /\ l = Rejected(k, actor)
          \/ \E manifest \in OptManifest :
                \/ CanApproveSearch(c, k) /\ l = SearchApproved(k, actor, manifest)
                \/ CanApproveAnswer(c, k, actor) /\ l = AnswerApproved(k, actor, manifest)
                \/ LET v == Verified(k, actor, manifest)
                   IN  /\ CanVerify(k) /\ CanApproveSearch(c, v)
                       /\ l = SearchApproved(v, actor, manifest)

\* The case and its successor in one step of the store, dated in order or late.
Moves(c, k, l) == \E m : Decides(c, k, m) /\ l \in {m, Late(m)}

LEMMA CandidateCase == Candidate \in CaseStates /\ Walked(Candidate, 0)
<1>1. <<>> \in Seq(Events) /\ Len(<<>>) = 0
  BY EmptySeq
<1>2. Candidate \in CaseStates
  BY <1>1 DEF Candidate, CaseStates, Statuses, OptActor
<1> QED
  BY <1>1, <1>2 DEF Candidate, Walked, Path, Signed, OnPath, Position

LEMMA QueuedCase ==
    ASSUME NEW k \in CaseStates, Walked(k, 0), k.status = "machine_extracted"
    PROVE  /\ Queued(k) \in CaseStates /\ Walked(Queued(k), 1)
           /\ Prefix(k.events, Queued(k).events)
<1> DEFINE l == Queued(k)
<1>1. Len(k.events) = 0
  BY DEF Walked, OnPath, LeftPath
<1>2. "enqueue" \in Actions /\ "needs_review" \in Statuses /\ None \in OptActor /\ None \in OptManifest
  BY DEF Actions, Statuses, OptActor, OptManifest
<1>3. /\ l \in CaseStates /\ l.status = "needs_review" /\ Len(l.events) = 1
      /\ l.critical = k.critical /\ l.search = k.search /\ l.answer = k.answer
      /\ l.events[1].action = "enqueue" /\ l.events[1].before = "machine_extracted"
      /\ l.events[1].after = "needs_review"
  <2>1. k.status = "machine_extracted" /\ l = Logged(k, "enqueue", "needs_review", None, None)
    BY DEF Queued
  <2>2. /\ l \in CaseStates /\ l.status = "needs_review" /\ Len(l.events) = Len(k.events) + 1
        /\ l.critical = k.critical /\ l.search = k.search /\ l.answer = k.answer
        /\ l.events[Len(k.events) + 1] =
              [action |-> "enqueue", before |-> k.status, after |-> "needs_review",
               actor |-> None, manifest |-> None]
    BY <1>2, <2>1, LoggedCase
  <2>3. Len(k.events) + 1 = 1
    BY <1>1
  <2> HIDE DEF l
  <2>4. Len(l.events) = 1 /\ l.events[1] = [action |-> "enqueue", before |-> "machine_extracted",
                                         after |-> "needs_review", actor |-> None, manifest |-> None]
    BY <2>1, <2>2, <2>3, Zenon
  <2> QED
    BY <2>2, <2>4
<1> HIDE DEF l
<1>4. Walked(l, 1)
  BY <1>3 DEF Walked, Path, Step, Signed, OnPath, Position
<1> QED
  BY <1>1, <1>3, <1>4 DEF Prefix, l

LEMMA VerifiedCase ==
    ASSUME NEW k \in CaseStates, NEW n \in 0 .. 4, Walked(k, n), CanVerify(k),
           NEW actor \in Actors, NEW manifest \in OptManifest
    PROVE  LET l == Verified(k, actor, manifest)
           IN  /\ n = 1 /\ l \in CaseStates /\ Walked(l, 2) /\ Prefix(k.events, l.events)
               /\ l.events[2].manifest = manifest /\ l.critical = actor /\ l.status = "needs_review"
<1> DEFINE g == Logged(k, "verify_fields", k.status, actor, manifest)
           l == Verified(k, actor, manifest)
<1>1. n = 1 /\ k.status = "needs_review" /\ Len(k.events) = 1
  <2>1. k.status = "needs_review" /\ k.critical = None
    BY DEF CanVerify
  <2>2. OnPath(k, n)
    BY <2>1 DEF Walked, LeftPath
  <2>3. n \in {1, 2}
    BY <2>1, <2>2 DEF OnPath, Position
  <2>4. n # 2
    BY <2>1, NoneIsFresh DEF Walked, Signed
  <2> QED
    BY <2>1, <2>2, <2>3, <2>4 DEF OnPath
<1>2. "verify_fields" \in Actions /\ k.status \in Statuses /\ actor \in OptActor
  BY <1>1 DEF Actions, Statuses, OptActor
<1>3. /\ g \in CaseStates /\ g.status = "needs_review" /\ Len(g.events) = 2
      /\ g.critical = k.critical /\ g.search = k.search /\ g.answer = k.answer
      /\ g.events[1] = k.events[1]
      /\ g.events[2] = [action |-> "verify_fields", before |-> "needs_review",
                        after |-> "needs_review", actor |-> actor, manifest |-> manifest]
  <2>1. /\ g \in CaseStates /\ g.status = k.status /\ Len(g.events) = Len(k.events) + 1
        /\ g.critical = k.critical /\ g.search = k.search /\ g.answer = k.answer
        /\ \A i \in 1 .. Len(k.events) : g.events[i] = k.events[i]
        /\ g.events[Len(k.events) + 1] =
              [action |-> "verify_fields", before |-> k.status, after |-> k.status,
               actor |-> actor, manifest |-> manifest]
    BY <1>2, LoggedCase
  <2>2. Len(k.events) + 1 = 2 /\ 1 .. Len(k.events) = 1 .. 1
    BY <1>1
  <2> HIDE DEF g
  <2> QED
    BY <1>1, <2>1, <2>2
<1>4. l = [g EXCEPT !.critical = actor]
  BY DEF Verified
<1> HIDE DEF g, l
<1>5. /\ l \in CaseStates /\ l.status = "needs_review" /\ l.events = g.events
      /\ l.critical = actor /\ l.search = k.search /\ l.answer = k.answer
  BY <1>3, <1>4 DEF CaseStates, OptActor
<1>6. Walked(l, 2)
  BY <1>1, <1>3, <1>5 DEF Walked, Path, Step, Signed, OnPath, Position
<1>7. Prefix(k.events, l.events) /\ l.events[2].manifest = manifest
  BY <1>1, <1>3, <1>5 DEF Prefix
<1> QED
  BY <1>1, <1>5, <1>6, <1>7 DEF l

LEMMA SearchCase ==
    ASSUME NEW k \in CaseStates, NEW n \in 0 .. 4, Walked(k, n), NEW c, CanApproveSearch(c, k),
           NEW actor \in Actors, NEW manifest \in OptManifest
    PROVE  LET l == SearchApproved(k, actor, manifest)
           IN  /\ l \in CaseStates /\ Walked(l, 3) /\ Prefix(k.events, l.events)
               /\ c \notin Restricted
<1> DEFINE g == Logged(k, "approve_search", "search_approved", actor, manifest)
           l == SearchApproved(k, actor, manifest)
<1>1. n = 2 /\ k.status = "needs_review" /\ Len(k.events) = 2 /\ c \notin Restricted
  <2>1. k.status = "needs_review" /\ k.critical # None /\ c \notin Restricted
    BY DEF CanApproveSearch
  <2>2. OnPath(k, n)
    BY <2>1 DEF Walked, LeftPath
  <2>3. n \in {1, 2}
    BY <2>1, <2>2 DEF OnPath, Position
  <2>4. n # 1
    BY <2>1 DEF Walked, Signed
  <2> QED
    BY <2>1, <2>2, <2>3, <2>4 DEF OnPath
<1>2. "approve_search" \in Actions /\ "search_approved" \in Statuses /\ actor \in OptActor
  BY DEF Actions, Statuses, OptActor
<1>3. /\ g \in CaseStates /\ g.status = "search_approved" /\ Len(g.events) = 3
      /\ g.critical = k.critical /\ g.search = k.search /\ g.answer = k.answer
      /\ g.events[1] = k.events[1] /\ g.events[2] = k.events[2]
      /\ g.events[3] = [action |-> "approve_search", before |-> "needs_review",
                        after |-> "search_approved", actor |-> actor, manifest |-> manifest]
  <2>1. /\ g \in CaseStates /\ g.status = "search_approved" /\ Len(g.events) = Len(k.events) + 1
        /\ g.critical = k.critical /\ g.search = k.search /\ g.answer = k.answer
        /\ \A i \in 1 .. Len(k.events) : g.events[i] = k.events[i]
        /\ g.events[Len(k.events) + 1] =
              [action |-> "approve_search", before |-> k.status, after |-> "search_approved",
               actor |-> actor, manifest |-> manifest]
    BY <1>2, LoggedCase
  <2>2. Len(k.events) + 1 = 3 /\ 1 .. Len(k.events) = 1 .. 2
    BY <1>1
  <2> HIDE DEF g
  <2> QED
    BY <1>1, <2>1, <2>2
<1>4. l = [g EXCEPT !.search = actor]
  BY DEF SearchApproved
<1> HIDE DEF g, l
<1>5. /\ l \in CaseStates /\ l.status = "search_approved" /\ l.events = g.events
      /\ l.search = actor /\ l.critical = k.critical /\ l.answer = k.answer
  BY <1>3, <1>4 DEF CaseStates, OptActor
<1>6. Walked(l, 3)
  BY <1>1, <1>3, <1>5 DEF Walked, Path, Step, Signed, OnPath, Position
<1>7. Prefix(k.events, l.events)
  BY <1>1, <1>3, <1>5 DEF Prefix
<1> QED
  BY <1>1, <1>5, <1>6, <1>7 DEF l

LEMMA AnswerCase ==
    ASSUME NEW k \in CaseStates, NEW n \in 0 .. 4, Walked(k, n), NEW c,
           NEW actor \in Actors, CanApproveAnswer(c, k, actor), NEW manifest \in OptManifest
    PROVE  LET l == AnswerApproved(k, actor, manifest)
           IN  /\ l \in CaseStates /\ Walked(l, 4) /\ Prefix(k.events, l.events)
               /\ c \notin Restricted
<1> DEFINE g == Logged(k, "approve_answer", "approved", actor, manifest)
           l == AnswerApproved(k, actor, manifest)
<1>1. n = 3 /\ k.status = "search_approved" /\ Len(k.events) = 3 /\ c \notin Restricted
  <2>1. k.status = "search_approved" /\ c \notin Restricted
    BY DEF CanApproveAnswer
  <2>2. OnPath(k, n)
    BY <2>1 DEF Walked, LeftPath
  <2> QED
    BY <2>1, <2>2 DEF OnPath, Position
<1>2. "approve_answer" \in Actions /\ "approved" \in Statuses /\ actor \in OptActor
  BY DEF Actions, Statuses, OptActor
<1>3. /\ g \in CaseStates /\ g.status = "approved" /\ Len(g.events) = 4
      /\ g.critical = k.critical /\ g.search = k.search /\ g.answer = k.answer
      /\ g.events[1] = k.events[1] /\ g.events[2] = k.events[2] /\ g.events[3] = k.events[3]
      /\ g.events[4] = [action |-> "approve_answer", before |-> "search_approved",
                        after |-> "approved", actor |-> actor, manifest |-> manifest]
  <2>1. /\ g \in CaseStates /\ g.status = "approved" /\ Len(g.events) = Len(k.events) + 1
        /\ g.critical = k.critical /\ g.search = k.search /\ g.answer = k.answer
        /\ \A i \in 1 .. Len(k.events) : g.events[i] = k.events[i]
        /\ g.events[Len(k.events) + 1] =
              [action |-> "approve_answer", before |-> k.status, after |-> "approved",
               actor |-> actor, manifest |-> manifest]
    BY <1>2, LoggedCase
  <2>2. Len(k.events) + 1 = 4 /\ 1 .. Len(k.events) = 1 .. 3
    BY <1>1
  <2> HIDE DEF g
  <2> QED
    BY <1>1, <2>1, <2>2
<1>4. l = [g EXCEPT !.answer = actor]
  BY DEF AnswerApproved
<1> HIDE DEF g, l
<1>5. /\ l \in CaseStates /\ l.status = "approved" /\ l.events = g.events
      /\ l.answer = actor /\ l.critical = k.critical /\ l.search = k.search
  BY <1>3, <1>4 DEF CaseStates, OptActor
<1>6. ~SameReviewer(l.answer, l.critical) /\ ~SameReviewer(l.answer, l.search)
  BY <1>5 DEF CanApproveAnswer, SameReviewer
<1>7. Walked(l, 4)
  BY <1>1, <1>3, <1>5, <1>6 DEF Walked, Path, Step, Signed, OnPath, Position
<1>8. Prefix(k.events, l.events)
  BY <1>1, <1>3, <1>5 DEF Prefix
<1> QED
  BY <1>1, <1>5, <1>7, <1>8 DEF l

LEMMA RejectedCase ==
    ASSUME NEW k \in CaseStates, NEW n \in 0 .. 4, Walked(k, n), CanReject(k), NEW actor \in Actors
    PROVE  LET l == Rejected(k, actor)
           IN  /\ l \in CaseStates /\ Walked(l, n) /\ Prefix(k.events, l.events)
               /\ n = 2 => l.events[2] = k.events[2]
<1> DEFINE l == Rejected(k, actor)
<1>1. n < 4 /\ k.status = Position(n) /\ Len(k.events) = n
  <2>1. k.status \notin {"approved", "rejected"}
    BY DEF CanReject, TerminalStates
  <2>2. OnPath(k, n)
    BY <2>1 DEF Walked, LeftPath
  <2> QED
    BY <2>1, <2>2 DEF OnPath, Position
<1>2. "reject" \in Actions /\ "rejected" \in Statuses /\ actor \in OptActor /\ None \in OptManifest
  BY DEF Actions, Statuses, OptActor, OptManifest
<1>3. /\ l \in CaseStates /\ l.status = "rejected" /\ Len(l.events) = n + 1
      /\ l.critical = k.critical /\ l.search = k.search /\ l.answer = k.answer
      /\ \A i \in 1 .. n : l.events[i] = k.events[i]
      /\ l.events[n + 1] = [action |-> "reject", before |-> Position(n),
                            after |-> "rejected", actor |-> actor, manifest |-> None]
  BY <1>1, <1>2, LoggedCase DEF Rejected
<1> HIDE DEF l
<1>4. /\ 1 <= n => l.events[1] = k.events[1]
      /\ 2 <= n => l.events[2] = k.events[2]
      /\ 3 <= n => l.events[3] = k.events[3]
  BY <1>1, <1>3
<1>5. Path(l, n)
  BY <1>1, <1>4 DEF Walked, Path, Step
<1>6. Signed(l, n)
  BY <1>1, <1>3, <1>4 DEF Walked, Signed
<1>7. LeftPath(l, n)
  BY <1>1, <1>3 DEF LeftPath, Step
<1>8. Prefix(k.events, l.events)
  BY <1>1, <1>3 DEF Prefix
<1> QED
  BY <1>3, <1>4, <1>5, <1>6, <1>7, <1>8 DEF Walked, l

-----------------------------------------------------------------------------
(* The store                                                               *)

(* An operation keeps each case on its path, continues its events and      *)
(* leaves a decision that is final alone.                                  *)
LEMMA DecidesKeeps ==
    ASSUME NEW c \in Cases, NEW k \in CaseStates \cup {None}, k # None => CaseInv(c, k),
           NEW l, Decides(c, k, l)
    PROVE  /\ l \in CaseStates /\ CaseInv(c, l)
           /\ k # None => Prefix(k.events, l.events) /\ k.status \notin TerminalStates
<1>1. CASE k = None
  <2>1. 0 \in 0 .. 4 /\ 1 \in 0 .. 4
    OBVIOUS
  <2>2. CASE l = Candidate
    BY <1>1, <2>1, <2>2, CandidateCase DEF CaseInv
  <2>3. CASE l = Queued(Candidate)
    <3>1. Candidate.status = "machine_extracted"
      BY DEF Candidate
    <3>2. l \in CaseStates /\ Walked(l, 1)
      BY <2>3, <3>1, CandidateCase, QueuedCase
    <3> QED
      BY <1>1, <2>1, <3>2 DEF CaseInv
  <2> QED
    BY <1>1, <2>2, <2>3 DEF Decides, CanVerify, CanReject, CanApproveSearch, CanApproveAnswer
<1>2. CASE k # None
  <2>1. k \in CaseStates
    BY <1>2
  <2>2. PICK n \in 0 .. 4 : /\ Walked(k, n)
                            /\ n = 2 => k.events[2].manifest = None
                            /\ c \in Restricted => n < 3
    BY <1>2 DEF CaseInv
  <2>3. CASE k.status = "machine_extracted" /\ l = Queued(k)
    <3>1. n = 0
      BY <2>2, <2>3 DEF Walked, OnPath, LeftPath, Position
    <3>2. l \in CaseStates /\ Walked(l, 1) /\ Prefix(k.events, l.events)
      BY <2>1, <2>2, <2>3, <3>1, QueuedCase
    <3>3. 1 \in 0 .. 4
      OBVIOUS
    <3> QED
      BY <2>3, <3>2, <3>3 DEF CaseInv, TerminalStates
  <2>4. ASSUME NEW actor \in Actors, CanVerify(k), l = Verified(k, actor, None)
        PROVE  /\ l \in CaseStates /\ CaseInv(c, l)
               /\ Prefix(k.events, l.events) /\ k.status \notin TerminalStates
    <3>1. None \in OptManifest
      BY DEF OptManifest
    <3>2. /\ l \in CaseStates /\ Walked(l, 2) /\ Prefix(k.events, l.events)
          /\ l.events[2].manifest = None
      BY <2>1, <2>2, <2>4, <3>1, VerifiedCase
    <3>3. 2 \in 0 .. 4
      OBVIOUS
    <3> QED
      BY <2>4, <3>2, <3>3 DEF CaseInv, CanVerify, TerminalStates
  <2>5. ASSUME NEW actor \in Actors, CanReject(k), l = Rejected(k, actor)
        PROVE  /\ l \in CaseStates /\ CaseInv(c, l)
               /\ Prefix(k.events, l.events) /\ k.status \notin TerminalStates
    <3>1. /\ l \in CaseStates /\ Walked(l, n) /\ Prefix(k.events, l.events)
          /\ n = 2 => l.events[2] = k.events[2]
      BY <2>1, <2>2, <2>5, RejectedCase
    <3> QED
      BY <2>2, <2>5, <3>1 DEF CaseInv, CanReject
  <2>6. ASSUME NEW actor \in Actors, NEW manifest \in OptManifest,
               CanApproveSearch(c, k), l = SearchApproved(k, actor, manifest)
        PROVE  /\ l \in CaseStates /\ CaseInv(c, l)
               /\ Prefix(k.events, l.events) /\ k.status \notin TerminalStates
    <3>1. l \in CaseStates /\ Walked(l, 3) /\ Prefix(k.events, l.events) /\ c \notin Restricted
      BY <2>1, <2>2, <2>6, SearchCase
    <3>2. 3 \in 0 .. 4
      OBVIOUS
    <3> QED
      BY <2>6, <3>1, <3>2 DEF CaseInv, CanApproveSearch, TerminalStates
  <2>7. ASSUME NEW actor \in Actors, NEW manifest \in OptManifest,
               CanApproveAnswer(c, k, actor), l = AnswerApproved(k, actor, manifest)
        PROVE  /\ l \in CaseStates /\ CaseInv(c, l)
               /\ Prefix(k.events, l.events) /\ k.status \notin TerminalStates
    <3>1. l \in CaseStates /\ Walked(l, 4) /\ Prefix(k.events, l.events) /\ c \notin Restricted
      BY <2>1, <2>2, <2>7, AnswerCase
    <3>2. 4 \in 0 .. 4
      OBVIOUS
    <3> QED
      BY <2>7, <3>1, <3>2 DEF CaseInv, CanApproveAnswer, TerminalStates
  <2>8. ASSUME NEW actor \in Actors, NEW manifest \in OptManifest, CanVerify(k),
               CanApproveSearch(c, Verified(k, actor, manifest)),
               l = SearchApproved(Verified(k, actor, manifest), actor, manifest)
        PROVE  /\ l \in CaseStates /\ CaseInv(c, l)
               /\ Prefix(k.events, l.events) /\ k.status \notin TerminalStates
    <3> DEFINE v == Verified(k, actor, manifest)
    <3>1. v \in CaseStates /\ Walked(v, 2) /\ Prefix(k.events, v.events)
      BY <2>1, <2>2, <2>8, VerifiedCase
    <3>2. CanApproveSearch(c, v) /\ l = SearchApproved(v, actor, manifest)
      BY <2>8
    <3> HIDE DEF v
    <3>3. 2 \in 0 .. 4 /\ 3 \in 0 .. 4
      OBVIOUS
    <3>4. l \in CaseStates /\ Walked(l, 3) /\ Prefix(v.events, l.events) /\ c \notin Restricted
      BY <3>1, <3>2, <3>3, SearchCase
    <3>5. Prefix(k.events, l.events)
      <4>1. Len(k.events) \in Nat /\ Len(v.events) \in Nat /\ Len(l.events) \in Nat
        BY <2>1, <3>1, <3>4, LenProperties DEF CaseStates
      <4> QED
        BY <3>1, <3>4, <4>1 DEF Prefix
    <3> QED
      BY <2>8, <3>3, <3>4, <3>5 DEF CaseInv, CanVerify, TerminalStates
  <2> QED
    BY <1>2, <2>3, <2>4, <2>5, <2>6, <2>7, <2>8 DEF Decides
<1> QED
  BY <1>1, <1>2

(* The dates of its events are no part of the path of a case.              *)
LEMMA LateKeeps ==
    ASSUME NEW l \in CaseStates
    PROVE  /\ Late(l) \in CaseStates /\ \A c : CaseInv(c, l) => CaseInv(c, Late(l))
           /\ Late(l).events = l.events /\ DecisionOf(Late(l)) = DecisionOf(l)
<1> DEFINE d == Late(l)
<1>1. /\ d \in CaseStates /\ d.status = l.status /\ d.events = l.events
      /\ d.critical = l.critical /\ d.search = l.search /\ d.answer = l.answer
  BY DEF Late, CaseStates
<1> HIDE DEF d
<1>2. \A n : Walked(l, n) => Walked(d, n)
  BY <1>1 DEF Walked, Path, Step, Signed, OnPath, LeftPath
<1>3. \A c : CaseInv(c, l) => CaseInv(c, d)
  BY <1>1, <1>2 DEF CaseInv
<1>4. DecisionOf(d) = DecisionOf(l)
  BY <1>1, FilesAssumption DEF DecisionOf
<1> QED
  BY <1>1, <1>3, <1>4 DEF d

(* So does a step of the store, whatever the clock says.                   *)
LEMMA MovesKeep ==
    ASSUME NEW c \in Cases, NEW k \in CaseStates \cup {None}, k # None => CaseInv(c, k),
           NEW l, Moves(c, k, l)
    PROVE  /\ l \in CaseStates /\ CaseInv(c, l)
           /\ k # None => Prefix(k.events, l.events) /\ k.status \notin TerminalStates
<1>1. PICK m : Decides(c, k, m) /\ l \in {m, Late(m)}
  BY DEF Moves
<1>2. /\ m \in CaseStates /\ CaseInv(c, m)
      /\ k # None => Prefix(k.events, m.events) /\ k.status \notin TerminalStates
  BY <1>1, DecidesKeeps
<1>3. Late(m) \in CaseStates /\ CaseInv(c, Late(m)) /\ Late(m).events = m.events
  BY <1>2, LateKeeps
<1> QED
  BY <1>1, <1>2, <1>3

\* Each case stays what it is or moves.
StoreMoves == \A c \in Cases : store'[c] = store[c] \/ Moves(c, store[c], store'[c])

LEMMA StoreNextMoves ==
    ASSUME TypeOK, StoreNext
    PROVE  /\ store' = [c \in Cases |-> store'[c]] /\ batches' \subseteq Manifests
           /\ StoreMoves /\ UNCHANGED <<snapshotFile, attestation, exporter>>
<1> DEFINE Goal == /\ store' = [c \in Cases |-> store'[c]] /\ batches' \subseteq Manifests
                   /\ StoreMoves /\ UNCHANGED <<snapshotFile, attestation, exporter>>
<1>1. ASSUME NEW c \in Cases, NEW l, Update(c, l), Decides(c, store[c], l)
      PROVE  Goal
  <2>1. PICK d \in Dated(l) : store' = [store EXCEPT ![c] = d]
    BY <1>1 DEF Update
  <2>2. Moves(c, store[c], d)
    BY <1>1, <2>1 DEF Moves, Dated
  <2> QED
    BY <1>1, <2>1, <2>2 DEF Update, TypeOK, StoreMoves
<1> HIDE DEF Goal
<1>2. ASSUME NEW c \in Cases, RegisterCandidate(c) \/ Enqueue(c) \/ MarkNeedsReview(c)
      PROVE  Goal
  BY <1>1, <1>2 DEF RegisterCandidate, Enqueue, MarkNeedsReview, Decides
<1>3. ASSUME NEW c \in Cases, NEW actor \in Actors,
             \/ VerifyCriticalFields(c, actor) \/ ApproveSearch(c, actor)
             \/ ApproveAnswer(c, actor) \/ Reject(c, actor)
      PROVE  Goal
  <2>1. None \in OptManifest
    BY DEF OptManifest
  <2> QED
    BY <1>1, <1>3, <2>1 DEF VerifyCriticalFields, ApproveSearch, ApproveAnswer, Reject, Decides
<1>4. ASSUME NEW c \in Cases, NEW actor \in Actors, NEW manifest \in Manifests,
             RunCriticalFields(c, actor, manifest) \/ RunAnswerAndBasis(c, actor, manifest)
      PROVE  Goal
  <2>1. manifest \in OptManifest
    BY DEF OptManifest
  <2> QED
    BY <1>1, <1>4, <2>1 DEF RunCriticalFields, RunAnswerAndBasis, Decides
<1>5. ASSUME NEW manifest \in Manifests, NEW actor \in Actors, ApproveSearchBatch(manifest, actor)
      PROVE  Goal
  <2>1. manifest \in OptManifest
    BY DEF OptManifest
  <2>2. StoreMoves
    <3> SUFFICES ASSUME NEW c \in Cases
                 PROVE  store'[c] = store[c] \/ Moves(c, store[c], store'[c])
      BY DEF StoreMoves
    <3>1. CASE c \in CasesOf(manifest)
      <4> DEFINE l == SearchApproved(store[c], actor, manifest)
      <4>1. store'[c] \in {l, Late(l)} /\ CanApproveSearch(c, store[c])
        BY <1>5, <3>1 DEF ApproveSearchBatch
      <4>2. Decides(c, store[c], l)
        BY <2>1, <4>1 DEF Decides
      <4> QED
        BY <4>1, <4>2 DEF Moves
    <3>2. CASE c \notin CasesOf(manifest)
      BY <1>5, <3>2 DEF ApproveSearchBatch
    <3> QED
      BY <3>1, <3>2
  <2>3. store' = [c \in Cases |-> store'[c]]
    BY <1>5 DEF ApproveSearchBatch
  <2> QED
    BY <1>5, <2>2, <2>3 DEF ApproveSearchBatch, TypeOK, Goal
<1> QED
  BY <1>2, <1>3, <1>4, <1>5 DEF StoreNext, Goal

-----------------------------------------------------------------------------
(* What the loader accepts                                                 *)

\* The action of the i-th event of a case that took n steps.
Name(n, i) == IF i = n + 1 THEN "reject"
              ELSE IF i = 1 THEN "enqueue" ELSE IF i = 2 THEN "verify_fields"
              ELSE IF i = 3 THEN "approve_search" ELSE "approve_answer"

LEMMA ReplayHolds ==
    ASSUME NEW c, NEW k \in CaseStates, CaseInv(c, k), k.status \in Decided
    PROVE  ReplayAccepts(k) <=> k.ordered
<1> DEFINE e == k.events
<1>1. PICK n \in 0 .. 4 : Walked(k, n)
  BY DEF CaseInv
<1>2. e \in Seq(Events) /\ DOMAIN e = 1 .. Len(e) /\ Len(e) \in Nat
  BY LenProperties DEF CaseStates
<1>3. \/ OnPath(k, n) /\ n \in {3, 4}
      \/ LeftPath(k, n)
  BY <1>1 DEF Walked, OnPath, Position, Decided
<1>4. Len(e) \in n .. n + 1 /\ Len(e) > 0
  BY <1>1, <1>3 DEF OnPath, LeftPath
<1>5. ASSUME NEW i \in DOMAIN e
      PROVE  /\ e[i].action = Name(n, i)
             /\ e[i].before = StateBefore(e, i)
             /\ <<e[i].before, e[i].action, e[i].after>> \in Allowed
  <2>1. CASE i = n + 1
    <3>1. LeftPath(k, n)
      BY <1>2, <1>3, <2>1 DEF OnPath
    <3>2. Step(k, n + 1, "reject", Position(n), "rejected") /\ n \in 0 .. 3
      BY <3>1 DEF LeftPath
    <3>3. StateBefore(e, n + 1) = Position(n)
      <4>1. CASE n = 0
        BY <4>1 DEF StateBefore, Position
      <4>2. CASE n = 1
        BY <1>1, <4>2 DEF StateBefore, Position, Walked, Path, Step
      <4>3. CASE n = 2
        BY <1>1, <4>3 DEF StateBefore, Position, Walked, Path, Step
      <4>4. CASE n = 3
        BY <1>1, <4>4 DEF StateBefore, Position, Walked, Path, Step
      <4> QED
        BY <3>2, <4>1, <4>2, <4>3, <4>4
    <3>4. <<Position(n), "reject", "rejected">> \in Allowed
      BY <3>2 DEF Position, Allowed
    <3> QED
      BY <2>1, <3>2, <3>3, <3>4 DEF Step, Name
  <2>2. CASE i # n + 1
    <3>1. i \in 1 .. n
      BY <1>2, <1>4, <2>2
    <3>2. CASE i = 1
      BY <1>1, <2>2, <3>1, <3>2 DEF Walked, Path, Step, Name, StateBefore, Allowed
    <3>3. CASE i = 2
      BY <1>1, <2>2, <3>1, <3>3 DEF Walked, Path, Step, Name, StateBefore, Allowed
    <3>4. CASE i = 3
      BY <1>1, <2>2, <3>1, <3>4 DEF Walked, Path, Step, Name, StateBefore, Allowed
    <3>5. CASE i = 4
      BY <1>1, <2>2, <3>1, <3>5 DEF Walked, Path, Step, Name, StateBefore, Allowed
    <3> QED
      BY <3>1, <3>2, <3>3, <3>4, <3>5
  <2> QED
    BY <2>1, <2>2
<1>6. \A i \in DOMAIN e : i \in 1 .. n + 1 /\ e[i].action = Name(n, i)
  <2>1. \A i \in DOMAIN e : i \in 1 .. n + 1
    BY <1>2, <1>4
  <2>2. \A i \in DOMAIN e : e[i].action = Name(n, i)
    BY <1>5, Zenon
  <2> QED
    BY <2>1, <2>2
<1>7. \A i, j \in DOMAIN e : e[i].action = e[j].action => i = j
  <2> SUFFICES ASSUME NEW i \in DOMAIN e, NEW j \in DOMAIN e, e[i].action = e[j].action
               PROVE  i = j
    OBVIOUS
  <2>1. i \in 1 .. n + 1 /\ j \in 1 .. n + 1 /\ Name(n, i) = Name(n, j)
    BY <1>6
  <2> QED
    BY <2>1 DEF Name
<1>8. e # <<>> /\ e[Len(e)].after = k.status
  <2>1. e # <<>>
    BY <1>4
  <2>2. CASE LeftPath(k, n)
    BY <2>2 DEF LeftPath, Step
  <2>3. CASE OnPath(k, n) /\ n \in {3, 4}
    BY <1>1, <2>3 DEF OnPath, Position, Walked, Path, Step
  <2> QED
    BY <1>3, <2>1, <2>2, <2>3
<1>9. ASSUME NEW m \in 2 .. 4
      PROVE  ActorOf(e, Name(5, m)) = IF m <= n THEN e[m].actor ELSE None
  <2>1. CASE m <= n
    <3>1. m \in DOMAIN e /\ e[m].action = Name(5, m)
      <4>1. m \in DOMAIN e
        BY <1>2, <1>4, <2>1
      <4> QED
        BY <1>6, <2>1, <4>1 DEF Name
    <3>2. \A i \in DOMAIN e : e[i].action = Name(5, m) => i = m
      BY <1>7, <3>1
    <3>3. (CHOOSE i \in DOMAIN e : e[i].action = Name(5, m)) = m
      BY <3>1, <3>2
    <3> QED
      BY <2>1, <3>1, <3>3 DEF ActorOf
  <2>2. CASE ~(m <= n)
    <3>1. ASSUME NEW i \in DOMAIN e
          PROVE  e[i].action # Name(5, m)
      <4>1. i \in 1 .. n + 1 /\ e[i].action = Name(n, i)
        BY <1>6
      <4> QED
        BY <2>2, <4>1 DEF Name
    <3> QED
      BY <2>2, <3>1 DEF ActorOf
  <2> QED
    BY <2>1, <2>2
<1>10. /\ k.critical = ActorOf(e, "verify_fields")
       /\ k.search = ActorOf(e, "approve_search")
       /\ k.answer = ActorOf(e, "approve_answer")
  <2>1. Name(5, 2) = "verify_fields" /\ Name(5, 3) = "approve_search" /\ Name(5, 4) = "approve_answer"
    BY DEF Name
  <2>2. /\ ActorOf(e, "verify_fields") = IF 2 <= n THEN e[2].actor ELSE None
        /\ ActorOf(e, "approve_search") = IF 3 <= n THEN e[3].actor ELSE None
        /\ ActorOf(e, "approve_answer") = IF 4 <= n THEN e[4].actor ELSE None
    <3>1. 2 \in 2 .. 4 /\ 3 \in 2 .. 4 /\ 4 \in 2 .. 4
      OBVIOUS
    <3> HIDE DEF e
    <3> QED
      BY <1>9, <2>1, <3>1
  <2> QED
    BY <1>1, <2>2 DEF Walked, Signed
<1>11. k.status = "approved" =>
          k.answer # None /\ ~SameReviewer(k.answer, k.critical) /\ ~SameReviewer(k.answer, k.search)
  <2> HAVE k.status = "approved"
  <2>1. n = 4
    BY <1>3 DEF OnPath, LeftPath, Position
  <2> QED
    BY <1>1, <2>1, NoneIsFresh DEF Walked, Signed
<1> QED
  BY <1>5, <1>7, <1>8, <1>10, <1>11 DEF ReplayAccepts

-----------------------------------------------------------------------------
(* Snapshots and files                                                     *)

(* Whatever the store does, a snapshot that was taken stays a past of it.  *)
LEMMA TakenStays ==
    ASSUME IInv, StoreMoves, store' = [c \in Cases |-> store'[c]], NEW s, Taken(s)
    PROVE  Taken(s)'
<1> SUFFICES ASSUME NEW c \in Cases
             PROVE  /\ store'[c] # None /\ Prefix(s[c].events, store'[c].events)
                    /\ s[c].status \in TerminalStates => store'[c] = s[c]
  BY DEF Taken, Past
<1>1. /\ store[c] # None /\ Prefix(s[c].events, store[c].events)
      /\ s[c].status \in TerminalStates => store[c] = s[c]
      /\ s[c] \in CaseStates /\ store[c] \in CaseStates /\ CaseInv(c, store[c])
  BY DEF Taken, Past, IInv, TypeOK, StoreInv
<1>2. CASE store'[c] = store[c]
  BY <1>1, <1>2
<1>3. CASE Moves(c, store[c], store'[c])
  <2>1. /\ store'[c] \in CaseStates /\ Prefix(store[c].events, store'[c].events)
        /\ store[c].status \notin TerminalStates
    BY <1>1, <1>3, MovesKeep
  <2>2. Prefix(s[c].events, store'[c].events)
    <3>1. Len(s[c].events) \in Nat /\ Len(store[c].events) \in Nat /\ Len(store'[c].events) \in Nat
      BY <1>1, <2>1, LenProperties DEF CaseStates
    <3> QED
      BY <1>1, <2>1, <3>1 DEF Prefix
  <2> QED
    BY <1>1, <2>1, <2>2, FilesAssumption
<1> QED
  BY <1>2, <1>3 DEF StoreMoves

LEMMA StoreKeeps ==
    ASSUME IInv, StoreNext
    PROVE  IInv'
<1>1. /\ store' = [c \in Cases |-> store'[c]] /\ batches' \subseteq Manifests
      /\ StoreMoves /\ UNCHANGED <<snapshotFile, attestation, exporter>>
  BY StoreNextMoves DEF IInv
<1>2. \A c \in Cases : /\ store'[c] \in CaseStates \cup {None}
                       /\ store'[c] # None => CaseInv(c, store'[c])
  <2> SUFFICES ASSUME NEW c \in Cases
               PROVE  /\ store'[c] \in CaseStates \cup {None}
                      /\ store'[c] # None => CaseInv(c, store'[c])
    OBVIOUS
  <2>1. store[c] \in CaseStates \cup {None} /\ (store[c] # None => CaseInv(c, store[c]))
    BY DEF IInv, TypeOK, StoreInv
  <2>2. CASE store'[c] = store[c]
    BY <2>1, <2>2
  <2>3. CASE Moves(c, store[c], store'[c])
    BY <2>1, <2>3, MovesKeep
  <2> QED
    BY <1>1, <2>2, <2>3 DEF StoreMoves
<1>3. TypeOK' /\ StoreInv'
  <2>1. store' \in [Cases -> CaseStates \cup {None}]
    BY <1>1, <1>2
  <2> QED
    BY <1>1, <1>2, <2>1 DEF IInv, TypeOK, StoreInv
<1>4. \A s : Taken(s) => Taken(s)'
  BY <1>1, TakenStays
<1>5. ExportInv' /\ WriterInv' /\ AttestInv'
  BY <1>1, <1>4 DEF IInv, ExportInv, WriterInv, AttestInv
<1> QED
  BY <1>3, <1>5 DEF IInv

ExporterState == [step : ExportSteps, snapshot : Files(CaseStates)]

LEMMA SameTaken ==
    ASSUME UNCHANGED store
    PROVE  StoreInv' = StoreInv /\ \A s : Taken(s)' <=> Taken(s)
BY DEF StoreInv, Taken, Past

LEMMA ExporterMoves ==
    ASSUME IInv, NEW x \in Exporters, NEW e \in ExporterState, exporter' = [exporter EXCEPT ![x] = e]
    PROVE  /\ exporter' \in [Exporters -> ExporterState] /\ exporter'[x] = e
           /\ \A y \in Exporters : y # x => exporter'[y] = exporter[y]
BY DEF IInv, TypeOK, ExporterState

\* A snapshot that was taken is no marker of a file.
LEMMA TakenIsWhole ==
    ASSUME NEW s, Taken(s)
    PROVE  s \in Files(CaseStates) /\ s # None /\ s # Partial
BY FilesAssumption DEF Taken, Files

LEMMA StepIsTyped ==
    ASSUME IInv, NEW x \in Exporters, NEW step \in ExportSteps
    PROVE  /\ [exporter[x] EXCEPT !.step = step] \in ExporterState /\ Idle \in ExporterState
           /\ [exporter[x] EXCEPT !.step = step].step = step
           /\ [exporter[x] EXCEPT !.step = step].snapshot = exporter[x].snapshot
           /\ Idle.step = "idle"
BY DEF IInv, TypeOK, ExporterState, Idle, Files, ExportSteps

(* An exporter that begins, stops or ends touches no file.                 *)
LEMMA EndKeeps ==
    ASSUME IInv, NEW x \in Exporters, NEW e \in ExporterState, exporter' = [exporter EXCEPT ![x] = e],
           e.step \in {"idle", "checked"}, UNCHANGED <<store, batches, snapshotFile, attestation>>
    PROVE  IInv'
<1>1. /\ exporter' \in [Exporters -> ExporterState] /\ exporter'[x] = e
      /\ \A y \in Exporters : y # x => exporter'[y] = exporter[y]
  BY ExporterMoves
<1>2. StoreInv' = StoreInv /\ \A s : Taken(s)' <=> Taken(s)
  BY SameTaken
<1>3. ExportInv' /\ WriterInv'
  BY <1>1, <1>2 DEF IInv, ExportInv, WriterInv
<1>4. TypeOK' /\ AttestInv'
  BY <1>1, <1>2 DEF IInv, TypeOK, AttestInv, ExporterState
<1> QED
  BY <1>2, <1>3, <1>4 DEF IInv

LEMMA TakeSnapshotKeeps ==
    ASSUME IInv, NEW x \in Exporters, TakeSnapshot(x)
    PROVE  IInv'
<1>1. UNCHANGED <<store, batches, snapshotFile, attestation>>
  BY DEF TakeSnapshot
<1>2. CASE Exportable /\ LoadAccepts(store)
  <2> DEFINE e == [step |-> "taken", snapshot |-> store]
  <2>1. exporter' = [exporter EXCEPT ![x] = e]
    BY <1>2 DEF TakeSnapshot
  <2>2. Taken(store)
    <3>1. store \in [Cases -> CaseStates]
      BY <1>2 DEF Exportable, IInv, TypeOK
    <3>2. \A c \in Cases : store[c] # None /\ Prefix(store[c].events, store[c].events)
      <4> SUFFICES ASSUME NEW c \in Cases
                   PROVE  store[c] # None /\ Prefix(store[c].events, store[c].events)
        OBVIOUS
      <4>1. store[c].events \in Seq(Events)
        BY <3>1 DEF CaseStates
      <4> QED
        BY <1>2, <4>1, LenProperties DEF Exportable, Prefix
    <3> QED
      BY <1>2, <3>1, <3>2 DEF Taken, Past
  <2>3. e \in ExporterState /\ e.step = "taken" /\ e.snapshot = store
    BY <2>2, TakenIsWhole DEF ExporterState, ExportSteps
  <2> HIDE DEF e
  <2>4. /\ exporter' \in [Exporters -> ExporterState] /\ exporter'[x] = e
        /\ \A y \in Exporters : y # x => exporter'[y] = exporter[y]
    BY <2>1, <2>3, ExporterMoves
  <2>5. StoreInv' = StoreInv /\ \A s : Taken(s)' <=> Taken(s)
    BY <1>1, SameTaken
  <2>6. ExportInv' /\ WriterInv'
    BY <1>1, <2>2, <2>3, <2>4, <2>5 DEF IInv, ExportInv, WriterInv
  <2>7. TypeOK' /\ AttestInv'
    BY <1>1, <2>4, <2>5 DEF IInv, TypeOK, AttestInv, ExporterState
  <2> QED
    BY <2>5, <2>6, <2>7 DEF IInv
<1>3. CASE ~(Exportable /\ LoadAccepts(store))
  <2>1. exporter' = [exporter EXCEPT ![x] = Idle] /\ "idle" \in ExportSteps
    BY <1>3 DEF TakeSnapshot, EndExport, ExportSteps
  <2> QED
    BY <1>1, <2>1, StepIsTyped, EndKeeps
<1> QED
  BY <1>2, <1>3

(* The file is created by x, or is the one x would have written.           *)
LEMMA UseSnapshotFileKeeps ==
    ASSUME IInv, NEW x \in Exporters, UseSnapshotFile(x)
    PROVE  IInv'
<1>1. UNCHANGED <<store, batches, attestation>> /\ exporter[x].step = "taken"
  BY DEF UseSnapshotFile
<1>2. Taken(exporter[x].snapshot)
  BY <1>1 DEF IInv, ExportInv
<1>3. StoreInv' = StoreInv /\ \A s : Taken(s)' <=> Taken(s)
  BY <1>1, SameTaken
<1>4. CASE snapshotFile = None /\ snapshotFile' = Partial /\ Goto(x, "writing")
  <2> DEFINE e == [exporter[x] EXCEPT !.step = "writing"]
  <2>1. exporter' = [exporter EXCEPT ![x] = e]
    BY <1>4 DEF Goto
  <2>2. e \in ExporterState /\ e.step = "writing" /\ e.snapshot = exporter[x].snapshot
    BY StepIsTyped DEF ExportSteps
  <2> HIDE DEF e
  <2>3. /\ exporter' \in [Exporters -> ExporterState] /\ exporter'[x] = e
        /\ \A y \in Exporters : y # x => exporter'[y] = exporter[y]
    BY <2>1, <2>2, ExporterMoves
  <2>4. \A y \in Exporters : exporter[y].step \notin {"writing", "attest", "attesting"}
    BY <1>4, NoneIsFresh, TakenIsWhole DEF IInv, ExportInv
  <2>5. ExportInv' /\ WriterInv'
    BY <1>1, <1>2, <1>3, <1>4, <2>2, <2>3, <2>4 DEF IInv, ExportInv, WriterInv
  <2>6. ~Whole(attestation)
    BY <1>4, TakenIsWhole DEF IInv, AttestInv
  <2>7. TypeOK' /\ AttestInv'
    BY <1>1, <1>4, <2>3, <2>6 DEF IInv, TypeOK, AttestInv, ExporterState, Files, Whole
  <2> QED
    BY <1>3, <2>5, <2>7 DEF IInv
<1>5. CASE snapshotFile = exporter[x].snapshot /\ Goto(x, "attest") /\ UNCHANGED snapshotFile
  <2> DEFINE e == [exporter[x] EXCEPT !.step = "attest"]
  <2>1. exporter' = [exporter EXCEPT ![x] = e]
    BY <1>5 DEF Goto
  <2>2. e \in ExporterState /\ e.step = "attest" /\ e.snapshot = exporter[x].snapshot
    BY StepIsTyped DEF ExportSteps
  <2> HIDE DEF e
  <2>3. /\ exporter' \in [Exporters -> ExporterState] /\ exporter'[x] = e
        /\ \A y \in Exporters : y # x => exporter'[y] = exporter[y]
    BY <2>1, <2>2, ExporterMoves
  <2>4. ExportInv' /\ WriterInv'
    BY <1>1, <1>2, <1>3, <1>5, <2>2, <2>3 DEF IInv, ExportInv, WriterInv
  <2>5. TypeOK' /\ AttestInv'
    BY <1>1, <1>3, <1>5, <2>3 DEF IInv, TypeOK, AttestInv, ExporterState
  <2> QED
    BY <1>3, <2>4, <2>5 DEF IInv
<1>6. CASE EndExport(x) /\ UNCHANGED snapshotFile
  <2>1. exporter' = [exporter EXCEPT ![x] = Idle] /\ "idle" \in ExportSteps
    BY <1>6 DEF EndExport, ExportSteps
  <2> QED
    BY <1>1, <1>6, <2>1, StepIsTyped, EndKeeps
<1> QED
  BY <1>4, <1>5, <1>6 DEF UseSnapshotFile

LEMMA WriteSnapshotFileKeeps ==
    ASSUME IInv, NEW x \in Exporters, WriteSnapshotFile(x)
    PROVE  IInv'
<1>1. /\ UNCHANGED <<store, batches, attestation>> /\ exporter[x].step = "writing"
      /\ snapshotFile' = exporter[x].snapshot /\ Goto(x, "attest")
  BY DEF WriteSnapshotFile
<1>2. Taken(exporter[x].snapshot) /\ snapshotFile = Partial
  BY <1>1 DEF IInv, ExportInv
<1>3. StoreInv' = StoreInv /\ \A s : Taken(s)' <=> Taken(s)
  BY <1>1, SameTaken
<1> DEFINE e == [exporter[x] EXCEPT !.step = "attest"]
<1>4. exporter' = [exporter EXCEPT ![x] = e]
  BY <1>1 DEF Goto
<1>5. e \in ExporterState /\ e.step = "attest" /\ e.snapshot = exporter[x].snapshot
  BY StepIsTyped DEF ExportSteps
<1> HIDE DEF e
<1>6. /\ exporter' \in [Exporters -> ExporterState] /\ exporter'[x] = e
      /\ \A y \in Exporters : y # x => exporter'[y] = exporter[y]
  BY <1>4, <1>5, ExporterMoves
\* Nobody else is writing the file, and nobody has built on it.
<1>7. \A y \in Exporters : /\ exporter[y].step \notin {"attest", "attesting"}
                           /\ y # x => exporter[y].step # "writing"
  BY <1>1, <1>2, TakenIsWhole DEF IInv, ExportInv, WriterInv
<1>8. ExportInv' /\ WriterInv'
  BY <1>1, <1>2, <1>3, <1>5, <1>6, <1>7 DEF IInv, ExportInv, WriterInv
<1>9. ~Whole(attestation)
  BY <1>2, TakenIsWhole DEF IInv, AttestInv
<1>10. TypeOK' /\ AttestInv'
  BY <1>1, <1>2, <1>6, <1>9, TakenIsWhole DEF IInv, TypeOK, AttestInv, ExporterState, Whole
<1> QED
  BY <1>3, <1>8, <1>10 DEF IInv

LEMMA CreateAttestationKeeps ==
    ASSUME IInv, NEW x \in Exporters, CreateAttestation(x)
    PROVE  IInv'
<1>1. UNCHANGED <<store, batches, snapshotFile>> /\ exporter[x].step = "attest"
  BY DEF CreateAttestation
<1>2. CASE attestation = None
  <2> DEFINE e == [exporter[x] EXCEPT !.step = "attesting"]
  <2>1. exporter' = [exporter EXCEPT ![x] = e] /\ attestation' = Partial
    BY <1>2 DEF CreateAttestation, Goto
  <2>2. e \in ExporterState /\ e.step = "attesting" /\ e.snapshot = exporter[x].snapshot
    BY StepIsTyped DEF ExportSteps
  <2> HIDE DEF e
  <2>3. /\ exporter' \in [Exporters -> ExporterState] /\ exporter'[x] = e
        /\ \A y \in Exporters : y # x => exporter'[y] = exporter[y]
    BY <2>1, <2>2, ExporterMoves
  <2>4. \A y \in Exporters : exporter[y].step # "attesting"
    BY <1>2, NoneIsFresh DEF IInv, ExportInv
  <2>5. StoreInv' = StoreInv /\ \A s : Taken(s)' <=> Taken(s)
    BY <1>1, SameTaken
  <2>6. ExportInv' /\ WriterInv'
    BY <1>1, <2>1, <2>2, <2>3, <2>4, <2>5 DEF IInv, ExportInv, WriterInv
  <2>7. TypeOK' /\ AttestInv'
    BY <1>1, <2>1, <2>3 DEF IInv, TypeOK, AttestInv, ExporterState, Files, Whole
  <2> QED
    BY <2>5, <2>6, <2>7 DEF IInv
<1>3. CASE attestation # None
  <2>1. exporter' = [exporter EXCEPT ![x] = Idle] /\ UNCHANGED attestation /\ "idle" \in ExportSteps
    BY <1>3 DEF CreateAttestation, EndExport, ExportSteps
  <2> QED
    BY <1>1, <2>1, StepIsTyped, EndKeeps
<1> QED
  BY <1>2, <1>3

LEMMA WriteAttestationKeeps ==
    ASSUME IInv, NEW x \in Exporters, WriteAttestation(x)
    PROVE  IInv'
<1>1. /\ UNCHANGED <<store, batches, snapshotFile>> /\ exporter[x].step = "attesting"
      /\ attestation' = exporter[x].snapshot /\ exporter' = [exporter EXCEPT ![x] = Idle]
  BY DEF WriteAttestation, EndExport
<1>2. Taken(exporter[x].snapshot) /\ snapshotFile = exporter[x].snapshot /\ attestation = Partial
  BY <1>1 DEF IInv, ExportInv
<1>3. StoreInv' = StoreInv /\ \A s : Taken(s)' <=> Taken(s)
  BY <1>1, SameTaken
<1>4. Idle \in ExporterState /\ Idle.step = "idle"
  BY StepIsTyped DEF ExportSteps
<1>5. /\ exporter' \in [Exporters -> ExporterState] /\ exporter'[x] = Idle
      /\ \A y \in Exporters : y # x => exporter'[y] = exporter[y]
  BY <1>1, <1>4, ExporterMoves
<1>6. \A y \in Exporters : y # x => exporter[y].step # "attesting"
  BY <1>1 DEF IInv, WriterInv
<1>7. ExportInv' /\ WriterInv'
  BY <1>1, <1>3, <1>4, <1>5, <1>6 DEF IInv, ExportInv, WriterInv
<1>8. TypeOK' /\ AttestInv'
  BY <1>1, <1>2, <1>3, <1>5, TakenIsWhole DEF IInv, TypeOK, AttestInv, ExporterState
<1> QED
  BY <1>3, <1>7, <1>8 DEF IInv

LEMMA ExportKeeps ==
    ASSUME IInv, NEW x \in Exporters, ExportNext(x)
    PROVE  IInv'
<1>1. CASE StartExport(x)
  <2> DEFINE e == [exporter[x] EXCEPT !.step = "checked"]
  <2>1. e \in ExporterState /\ e.step = "checked"
    BY StepIsTyped DEF ExportSteps
  <2>2. exporter' = [exporter EXCEPT ![x] = e] /\ UNCHANGED <<store, batches, snapshotFile, attestation>>
    BY <1>1 DEF StartExport, Goto
  <2> HIDE DEF e
  <2> QED
    BY <2>1, <2>2, EndKeeps
<1>2. CASE StopExport(x)
  <2>1. /\ exporter' = [exporter EXCEPT ![x] = Idle] /\ "idle" \in ExportSteps
        /\ UNCHANGED <<store, batches, snapshotFile, attestation>>
    BY <1>2 DEF StopExport, EndExport, ExportSteps
  <2> QED
    BY <2>1, StepIsTyped, EndKeeps
<1> QED
  BY <1>1, <1>2, TakeSnapshotKeeps, UseSnapshotFileKeeps, WriteSnapshotFileKeeps,
     CreateAttestationKeeps, WriteAttestationKeeps DEF ExportNext

-----------------------------------------------------------------------------
(* The theorems                                                            *)

LEMMA InitHolds == Init => IInv
<1> SUFFICES ASSUME Init
             PROVE  IInv
  OBVIOUS
<1>1. TypeOK
  BY DEF Init, TypeOK, Files, Idle, ExportSteps
<1>2. \A x \in Exporters : exporter[x].step = "idle"
  BY DEF Init, Idle
<1>3. ExportInv /\ WriterInv
  BY <1>2 DEF ExportInv, WriterInv
<1>4. StoreInv /\ AttestInv
  BY DEF Init, StoreInv, AttestInv, Whole
<1> QED
  BY <1>1, <1>3, <1>4 DEF IInv

LEMMA Inductive == IInv /\ [Next]_vars => IInv'
<1> SUFFICES ASSUME IInv, [Next]_vars
             PROVE  IInv'
  OBVIOUS
<1>1. CASE StoreNext
  BY <1>1, StoreKeeps
<1>2. CASE \E x \in Exporters : ExportNext(x)
  BY <1>2, ExportKeeps
<1>3. CASE UNCHANGED vars
  <2>1. StoreInv' = StoreInv /\ \A s : Taken(s)' <=> Taken(s)
    BY <1>3, SameTaken DEF vars
  <2> QED
    BY <1>3, <2>1 DEF vars, IInv, TypeOK, ExportInv, WriterInv, AttestInv
<1> QED
  BY <1>1, <1>2, <1>3 DEF Next

(* What reviewers, runs and exporters can do, in any order and stopped     *)
(* anywhere, keeps every case on its path and every file what it was.      *)
THEOREM Invariance == Spec => []IInv
<1> QED
  BY InitHolds, Inductive, PTL DEF Spec

(* Rows, events, snapshots and files keep their types.                     *)
THEOREM TypeCorrect == Spec => []TypeOK
<1>1. IInv => TypeOK
  BY DEF IInv
<1> QED
  BY <1>1, Invariance, PTL

(* Of a store that may be exported, the loader refuses the cases in which  *)
(* the clock went back, and no others: a package whose cases are all       *)
(* decided is stuck by nothing else.                                       *)
THEOREM ReadyIsLoadable == Spec => []ExportIsLoadable
<1>1. ASSUME IInv
      PROVE  ExportIsLoadable
  <2> SUFFICES ASSUME Exportable, NEW c \in Cases
               PROVE  ReplayAccepts(store[c]) <=> store[c].ordered
    BY DEF ExportIsLoadable
  <2>1. /\ store[c] \in CaseStates /\ CaseInv(c, store[c]) /\ store[c].status \in Decided
    BY <1>1 DEF Exportable, IInv, TypeOK, StoreInv
  <2> QED
    BY <2>1, ReplayHolds
<1> QED
  BY <1>1, Invariance, PTL

(* A restricted case is approved by none of the four ways.                 *)
THEOREM RestrictedIsNeverApproved == Spec => []RestrictedStaysOut
<1>1. ASSUME IInv
      PROVE  RestrictedStaysOut
  <2> SUFFICES ASSUME NEW c \in Restricted, store[c] # None
               PROVE  store[c].status \notin {"search_approved", "approved"}
    BY DEF RestrictedStaysOut
  <2>1. c \in Cases
    BY RestrictedAreCases
  <2>2. PICK n \in 0 .. 4 : Walked(store[c], n) /\ n < 3
    BY <1>1, <2>1 DEF IInv, StoreInv, CaseInv
  <2> QED
    BY <2>2 DEF Walked, OnPath, LeftPath, Position
<1> QED
  BY <1>1, Invariance, PTL

(* A whole attestation pins the snapshot file, finalization accepts it,    *)
(* and the store continues what it pins.                                   *)
THEOREM AttestationIsPast == Spec => []AttestationHolds
<1>1. ASSUME IInv
      PROVE  AttestationHolds
  <2> SUFFICES ASSUME attestation \notin {None, Partial}
               PROVE  /\ FinalizeAccepts
                      /\ \A c \in Cases : attestation[c].events =
                            SubSeq(store[c].events, 1, Len(attestation[c].events))
    BY DEF AttestationHolds
  <2>1. snapshotFile = attestation /\ Taken(attestation)
    BY <1>1 DEF IInv, AttestInv, Whole
  <2>2. FinalizeAccepts
    BY <2>1 DEF FinalizeAccepts, Taken
  <2>3. ASSUME NEW c \in Cases
        PROVE  attestation[c].events = SubSeq(store[c].events, 1, Len(attestation[c].events))
    <3> DEFINE a == attestation[c].events
               e == store[c].events
               b == SubSeq(e, 1, Len(a))
    <3>1. a \in Seq(Events) /\ e \in Seq(Events) /\ Prefix(a, e)
      <4>1. attestation[c] \in CaseStates /\ store[c] # None /\ Prefix(a, e)
        BY <2>1 DEF Taken, Past
      <4>2. store[c] \in CaseStates
        BY <1>1, <4>1 DEF IInv, TypeOK
      <4> QED
        BY <4>1, <4>2 DEF CaseStates
    <3> HIDE DEF a, e
    <3>2. Len(a) \in Nat /\ Len(e) \in Nat /\ Len(a) <= Len(e) /\ \A i \in 1 .. Len(a) : a[i] = e[i]
      BY <3>1, LenProperties DEF Prefix
    <3>3. \A i \in 1 .. Len(a) : e[i] \in Events
      BY <3>1, <3>2, ElementOfSeq
    <3>4. b \in Seq(Events) /\ Len(b) = Len(a) /\ \A i \in 1 .. Len(a) : b[i] = e[i]
      BY <3>2, <3>3, SubSeqProperties
    <3> HIDE DEF b
    <3>5. a = b
      BY <3>1, <3>2, <3>4, SeqEqual
    <3> QED
      BY <3>5 DEF a, b, e
  <2> QED
    BY <2>2, <2>3
<1> QED
  BY <1>1, Invariance, PTL

(* An interrupted run is resumed with its manifest, because the fields of  *)
(* a case are verified by a run only in the transaction that approves it.  *)
THEOREM RunsResume == Spec => []RunIsResumable
<1>1. ASSUME IInv
      PROVE  RunIsResumable
  <2> SUFFICES ASSUME NEW manifest \in Manifests, NEW c \in CasesOf(manifest) \ Restricted,
                      store[c] # None,
                      store[c].status \in {"needs_review", "search_approved", "approved"},
                      \A i \in DOMAIN store[c].events :
                         store[c].events[i].action # "enqueue" => store[c].events[i].manifest = manifest
               PROVE  /\ RunComplete(store[c], "critical-fields-all", manifest) \/ CanVerify(store[c])
                      /\ store[c].status = "approved" =>
                            RunComplete(store[c], "answer-and-basis-all", manifest)
    BY DEF RunIsResumable
  <2> DEFINE k == store[c]
             done == {k.events[i].action : i \in {j \in DOMAIN k.events :
                                                     k.events[j].manifest = manifest}}
  <2>1. c \in Cases
    BY ManifestsNameCases
  <2>2. k \in CaseStates
    BY <1>1, <2>1 DEF IInv, TypeOK
  <2>3. PICK n \in 0 .. 4 : Walked(k, n) /\ (n = 2 => k.events[2].manifest = None)
    BY <1>1, <2>1 DEF IInv, StoreInv, CaseInv
  <2>4. OnPath(k, n) /\ DOMAIN k.events = 1 .. n /\ n >= 1
    <3>1. OnPath(k, n)
      BY <2>3 DEF Walked, LeftPath
    <3>2. DOMAIN k.events = 1 .. Len(k.events)
      BY <2>2, LenProperties DEF CaseStates
    <3> QED
      BY <3>1, <3>2 DEF OnPath, Position
  <2>5. n # 2
    <3> SUFFICES ASSUME n = 2
                 PROVE  FALSE
      OBVIOUS
    <3>1. k.events[2].action = "verify_fields" /\ 2 \in DOMAIN k.events
      BY <2>3, <2>4 DEF Walked, Path, Step
    <3>2. k.events[2].manifest = manifest
      BY <3>1
    <3> QED
      BY <2>3, <3>2, NoneIsFresh
  <2>6. n >= 3 => {"verify_fields", "approve_search"} \subseteq done
    <3> SUFFICES ASSUME n >= 3
                 PROVE  "verify_fields" \in done /\ "approve_search" \in done
      OBVIOUS
    <3>1. /\ 2 \in DOMAIN k.events /\ k.events[2].action = "verify_fields"
          /\ 3 \in DOMAIN k.events /\ k.events[3].action = "approve_search"
      BY <2>3, <2>4 DEF Walked, Path, Step
    <3> QED
      BY <3>1
  <2>7. n = 4 => "approve_answer" \in done
    <3> SUFFICES ASSUME n = 4
                 PROVE  "approve_answer" \in done
      OBVIOUS
    <3>1. 4 \in DOMAIN k.events /\ k.events[4].action = "approve_answer"
      BY <2>3, <2>4 DEF Walked, Path, Step
    <3> QED
      BY <3>1
  <2> HIDE DEF done
  <2>8. n >= 3 => RunComplete(k, "critical-fields-all", manifest)
    BY <2>4, <2>6 DEF RunComplete, done, OnPath, Position
  <2>9. n = 1 => CanVerify(k)
    BY <2>3, <2>4 DEF CanVerify, OnPath, Position, Walked, Signed
  <2>10. k.status = "approved" => n = 4
    BY <2>4 DEF OnPath, Position
  <2>11. n = 4 => RunComplete(k, "answer-and-basis-all", manifest)
    BY <2>4, <2>7 DEF RunComplete, done, OnPath, Position
  <2> QED
    BY <2>4, <2>5, <2>8, <2>9, <2>10, <2>11
<1> QED
  BY <1>1, Invariance, PTL

(* What an attestation says of a case that was approved or rejected stays  *)
(* what the store says, whatever happens after.                            *)
THEOREM FinalIsFinal == Spec => TerminalIsPublished
<1> DEFINE Kept == attestation \notin {None, Partial} =>
                      \A c \in Cases : attestation[c].status \in TerminalStates =>
                          store'[c].status = attestation[c].status
<1>1. ASSUME IInv, [Next]_vars
      PROVE  [Kept]_vars
  <2> SUFFICES ASSUME attestation \notin {None, Partial}, NEW c \in Cases,
                      attestation[c].status \in TerminalStates
               PROVE  store'[c].status = attestation[c].status
    OBVIOUS
  <2>1. store[c] = attestation[c] /\ store[c] # None
    BY <1>1 DEF IInv, AttestInv, Whole, Taken, Past
  <2>2. store'[c] = store[c]
    <3>1. CASE StoreNext
      <4>1. CASE store'[c] = store[c]
        BY <4>1
      <4>2. CASE Moves(c, store[c], store'[c])
        <5>1. store[c] \in CaseStates \cup {None} /\ CaseInv(c, store[c])
          BY <1>1, <2>1 DEF IInv, TypeOK, StoreInv
        <5> QED
          BY <2>1, <4>2, <5>1, MovesKeep
      <4>3. StoreMoves
        BY <1>1, <3>1, StoreNextMoves DEF IInv
      <4> QED
        BY <4>1, <4>2, <4>3 DEF StoreMoves
    <3>2. CASE \E x \in Exporters : ExportNext(x)
      BY <3>2 DEF ExportNext, StartExport, TakeSnapshot, UseSnapshotFile, WriteSnapshotFile,
                  CreateAttestation, WriteAttestation, StopExport
    <3>3. CASE UNCHANGED vars
      BY <3>3 DEF vars
    <3> QED
      BY <1>1, <3>1, <3>2, <3>3 DEF Next
  <2> QED
    BY <2>1, <2>2
<1> HIDE DEF Kept
<1>2. Spec => [][Kept]_vars
  BY <1>1, Invariance, PTL DEF Spec
<1> QED
  BY <1>2 DEF TerminalIsPublished, Kept

-----------------------------------------------------------------------------
(* The refinement.  A step of the store is what one person signs for, or   *)
(* nothing; an export holds a draft from the moment it is taken.           *)

\* One person signs, for each case, for what the store's step does to it.
Signing(actor) ==
    \A c \in Cases : Review!Signs(c, DecisionOf(store[c]), DecisionOf(store'[c]), actor)

LEMMA DecisionOfCase ==
    ASSUME NEW k \in CaseStates
    PROVE  /\ k # None
           /\ DecisionOf(k) = [status |-> IF k.status \in Decided THEN k.status ELSE "open",
                               critical |-> k.critical, search |-> k.search, answer |-> k.answer]
BY FilesAssumption DEF DecisionOf

LEMMA LoggedRow ==
    ASSUME NEW k \in CaseStates, NEW action \in Actions, NEW after \in Statuses,
           NEW actor \in OptActor, NEW manifest \in OptManifest
    PROVE  /\ Logged(k, action, after, actor, manifest) \in CaseStates
           /\ Logged(k, action, after, actor, manifest).status = after
           /\ Logged(k, action, after, actor, manifest).critical = k.critical
           /\ Logged(k, action, after, actor, manifest).search = k.search
           /\ Logged(k, action, after, actor, manifest).answer = k.answer
<1> DEFINE l == Logged(k, action, after, actor, manifest)
<1>1. /\ l \in CaseStates /\ l.status = after /\ Len(l.events) = Len(k.events) + 1
      /\ l.critical = k.critical /\ l.search = k.search /\ l.answer = k.answer
      /\ \A i \in 1 .. Len(k.events) : l.events[i] = k.events[i]
      /\ l.events[Len(k.events) + 1] =
            [action |-> action, before |-> k.status, after |-> after,
             actor |-> actor, manifest |-> manifest]
  BY LoggedCase
<1> QED
  BY <1>1

LEMMA VerifiedSigns ==
    ASSUME NEW k \in CaseStates, NEW n \in 0 .. 4, Walked(k, n), CanVerify(k),
           NEW actor \in Actors, NEW manifest \in OptManifest
    PROVE  /\ Review!Verify(DecisionOf(k), DecisionOf(Verified(k, actor, manifest)), actor)
           /\ Verified(k, actor, manifest).answer = k.answer
<1> DEFINE l == Verified(k, actor, manifest)
<1>1. k.status = "needs_review" /\ k.critical = None
  BY DEF CanVerify
<1>2. l \in CaseStates /\ l.status = "needs_review" /\ l.critical = actor
  BY VerifiedCase
<1>3. l.search = k.search /\ l.answer = k.answer
  <2>1. "verify_fields" \in Actions /\ k.status \in Statuses /\ actor \in OptActor
    BY <1>1 DEF Actions, Statuses, OptActor
  <2> DEFINE g == Logged(k, "verify_fields", k.status, actor, manifest)
  <2>2. g \in CaseStates /\ g.search = k.search /\ g.answer = k.answer
    BY <2>1, LoggedRow
  <2>3. l = [g EXCEPT !.critical = actor]
    BY DEF Verified
  <2> HIDE DEF g, l
  <2> QED
    BY <2>2, <2>3 DEF CaseStates
<1> HIDE DEF l
<1>4. /\ DecisionOf(k) = [status |-> "open", critical |-> None, search |-> k.search, answer |-> k.answer]
      /\ DecisionOf(l) = [status |-> "open", critical |-> actor, search |-> k.search, answer |-> k.answer]
  BY <1>1, <1>2, <1>3, DecisionOfCase DEF Decided
<1> QED
  BY <1>3, <1>4 DEF Review!Verify, l

Verdict(status, critical, search, answer) ==
    [status |-> status, critical |-> critical, search |-> search, answer |-> answer]

LEMMA OpenIsApproved ==
    ASSUME NEW f, NEW r, NEW a, NEW actor
    PROVE  Review!ApproveSearch(Verdict("open", f, r, a),
                                Verdict("search_approved", IF f = None THEN actor ELSE f, actor, a),
                                actor)
<1> DEFINE g == IF f = None THEN actor ELSE f
<1>1. Verdict("open", f, r, a).status = "open"
  BY DEF Verdict
<1>2. [Verdict("open", f, r, a) EXCEPT !.status = "search_approved"]
        = Verdict("search_approved", f, r, a)
  BY DEF Verdict
<1>3. [Verdict("search_approved", f, r, a) EXCEPT !.search = actor]
        = Verdict("search_approved", f, actor, a)
  BY DEF Verdict
<1>4. Verdict("search_approved", f, actor, a).critical = f
  BY DEF Verdict
<1>5. [Verdict("search_approved", f, actor, a) EXCEPT !.critical = g]
        = Verdict("search_approved", g, actor, a)
  <2> HIDE DEF g
  <2> QED
    BY DEF Verdict
<1>6. [Verdict("search_approved", f, actor, a) EXCEPT !.critical = IF @ = None THEN actor ELSE @]
        = Verdict("search_approved", g, actor, a)
  BY <1>4, <1>5
<1> QED
  BY <1>1, <1>2, <1>3, <1>6 DEF Review!ApproveSearch

LEMMA OtherAnswers ==
    ASSUME NEW f, NEW r, NEW a, NEW actor,
           \A signer \in {f, r} : signer # None /\ Uid(signer) # Uid(actor)
    PROVE  Review!ApproveAnswer(Verdict("search_approved", f, r, a),
                                Verdict("approved", f, r, actor), actor)
<1>1. /\ Verdict("search_approved", f, r, a).status = "search_approved"
      /\ Verdict("search_approved", f, r, a).critical = f
      /\ Verdict("search_approved", f, r, a).search = r
  BY DEF Verdict
<1>2. [Verdict("search_approved", f, r, a) EXCEPT !.status = "approved"] = Verdict("approved", f, r, a)
  BY DEF Verdict
<1>3. [Verdict("approved", f, r, a) EXCEPT !.answer = actor] = Verdict("approved", f, r, actor)
  BY DEF Verdict
<1> QED
  BY <1>1, <1>2, <1>3 DEF Review!ApproveAnswer

LEMMA SearchSigns ==
    ASSUME NEW k \in CaseStates, k.status = "needs_review",
           NEW actor \in Actors, NEW manifest \in OptManifest
    PROVE  /\ DecisionOf(k) = Verdict("open", k.critical, k.search, k.answer)
           /\ DecisionOf(SearchApproved(k, actor, manifest))
                 = Verdict("search_approved", k.critical, actor, k.answer)
<1> DEFINE g == Logged(k, "approve_search", "search_approved", actor, manifest)
           l == SearchApproved(k, actor, manifest)
<1>1. "approve_search" \in Actions /\ "search_approved" \in Statuses /\ actor \in OptActor
  BY DEF Actions, Statuses, OptActor
<1>2. /\ g \in CaseStates /\ g.status = "search_approved"
      /\ g.critical = k.critical /\ g.answer = k.answer
  BY <1>1, LoggedRow
<1>3. l = [g EXCEPT !.search = actor]
  BY DEF SearchApproved
<1> HIDE DEF g, l
<1>4. /\ l \in CaseStates /\ l.status = "search_approved" /\ l.search = actor
      /\ l.critical = k.critical /\ l.answer = k.answer
  BY <1>1, <1>2, <1>3 DEF CaseStates
<1>5. DecisionOf(k) = Verdict("open", k.critical, k.search, k.answer)
  BY DecisionOfCase DEF Decided, Verdict
<1>6. DecisionOf(l) = Verdict("search_approved", k.critical, actor, k.answer)
  BY <1>4, DecisionOfCase DEF Decided, Verdict
<1> QED
  BY <1>5, <1>6 DEF l

LEMMA AnswerSigns ==
    ASSUME NEW k \in CaseStates, NEW n \in 0 .. 4, Walked(k, n), NEW c, NEW actor \in Actors,
           CanApproveAnswer(c, k, actor), NEW manifest \in OptManifest
    PROVE  /\ c \notin Restricted
           /\ Review!ApproveAnswer(DecisionOf(k), DecisionOf(AnswerApproved(k, actor, manifest)), actor)
<1> DEFINE g == Logged(k, "approve_answer", "approved", actor, manifest)
           l == AnswerApproved(k, actor, manifest)
<1>1. /\ k.status = "search_approved" /\ c \notin Restricted
      /\ ~SameReviewer(k.critical, actor) /\ ~SameReviewer(k.search, actor)
  BY DEF CanApproveAnswer
<1>2. n = 3 /\ k.critical \in Actors /\ k.search \in Actors
  <2>1. OnPath(k, n)
    BY <1>1 DEF Walked, LeftPath
  <2>2. n = 3
    BY <1>1, <2>1 DEF OnPath, Position
  <2> QED
    BY <2>2 DEF Walked, Signed
<1>3. "approve_answer" \in Actions /\ "approved" \in Statuses /\ actor \in OptActor
  BY DEF Actions, Statuses, OptActor
<1>4. /\ g \in CaseStates /\ g.status = "approved"
      /\ g.critical = k.critical /\ g.search = k.search
  BY <1>3, LoggedRow
<1>5. l = [g EXCEPT !.answer = actor]
  BY DEF AnswerApproved
<1> HIDE DEF g, l
<1>6. /\ l \in CaseStates /\ l.status = "approved" /\ l.answer = actor
      /\ l.critical = k.critical /\ l.search = k.search
  BY <1>3, <1>4, <1>5 DEF CaseStates
<1>7. DecisionOf(k) = Verdict("search_approved", k.critical, k.search, k.answer)
  BY <1>1, DecisionOfCase DEF Decided, Verdict
<1>8. DecisionOf(l) = Verdict("approved", k.critical, k.search, actor)
  BY <1>6, DecisionOfCase DEF Decided, Verdict
<1>9. \A signer \in {k.critical, k.search} : signer # None /\ Uid(signer) # Uid(actor)
  BY <1>1, <1>2, NoneIsFresh DEF SameReviewer
<1> QED
  BY <1>1, <1>7, <1>8, <1>9, OtherAnswers DEF l

LEMMA RejectSigns ==
    ASSUME NEW k \in CaseStates, CanReject(k), NEW actor \in Actors
    PROVE  Review!Reject(DecisionOf(k), DecisionOf(Rejected(k, actor)))
<1> DEFINE l == Rejected(k, actor)
<1>1. k.status \in Statuses /\ k.status \notin {"approved", "rejected"}
  BY DEF CanReject, TerminalStates, CaseStates
<1>2. "reject" \in Actions /\ "rejected" \in Statuses /\ actor \in OptActor /\ None \in OptManifest
  BY DEF Actions, Statuses, OptActor, OptManifest
<1>3. /\ l \in CaseStates /\ l.status = "rejected"
      /\ l.critical = k.critical /\ l.search = k.search /\ l.answer = k.answer
  BY <1>2, LoggedRow DEF Rejected
<1> HIDE DEF l
<1>4. DecisionOf(l) = [DecisionOf(k) EXCEPT !.status = "rejected"]
  BY <1>3, DecisionOfCase DEF Decided
<1>5. DecisionOf(k).status \in {"open", "search_approved"}
  BY <1>1, DecisionOfCase DEF Decided, Statuses
<1> QED
  BY <1>4, <1>5 DEF Review!Reject, l

LEMMA QueuedIsUndecided ==
    ASSUME NEW k \in CaseStates, k.status = "machine_extracted"
    PROVE  Queued(k) \in CaseStates /\ DecisionOf(Queued(k)) = DecisionOf(k)
<1>1. "enqueue" \in Actions /\ "needs_review" \in Statuses /\ None \in OptActor /\ None \in OptManifest
  BY DEF Actions, Statuses, OptActor, OptManifest
<1>2. /\ Queued(k) \in CaseStates /\ Queued(k).status = "needs_review"
      /\ Queued(k).critical = k.critical /\ Queued(k).search = k.search /\ Queued(k).answer = k.answer
  BY <1>1, LoggedRow DEF Queued
<1> QED
  BY <1>2, DecisionOfCase DEF Decided

(* Every operation makes a case of a case.                                 *)
LEMMA OperationIsTyped ==
    ASSUME NEW k \in CaseStates, NEW actor \in Actors, NEW manifest \in OptManifest
    PROVE  /\ Queued(k) \in CaseStates /\ Rejected(k, actor) \in CaseStates
           /\ Verified(k, actor, manifest) \in CaseStates
           /\ SearchApproved(k, actor, manifest) \in CaseStates
           /\ AnswerApproved(k, actor, manifest) \in CaseStates
<1>1. /\ Actions = {"enqueue", "verify_fields", "approve_search", "approve_answer", "reject"}
      /\ {"needs_review", "search_approved", "approved", "rejected"} \subseteq Statuses
      /\ k.status \in Statuses
      /\ actor \in OptActor /\ None \in OptActor /\ None \in OptManifest
  BY DEF Actions, Statuses, OptActor, OptManifest, CaseStates
<1>2. Queued(k) \in CaseStates /\ Rejected(k, actor) \in CaseStates
  BY <1>1, LoggedRow DEF Queued, Rejected
<1>3. ASSUME NEW g \in CaseStates
      PROVE  /\ [g EXCEPT !.critical = actor] \in CaseStates
             /\ [g EXCEPT !.search = actor] \in CaseStates
             /\ [g EXCEPT !.answer = actor] \in CaseStates
  BY <1>1 DEF CaseStates
<1>4. Verified(k, actor, manifest) \in CaseStates
  BY <1>1, <1>3, LoggedRow DEF Verified
<1>5. SearchApproved(k, actor, manifest) \in CaseStates
  BY <1>1, <1>3, LoggedRow DEF SearchApproved
<1>6. AnswerApproved(k, actor, manifest) \in CaseStates
  BY <1>1, <1>3, LoggedRow DEF AnswerApproved
<1> QED
  BY <1>2, <1>4, <1>5, <1>6

(* Whatever the operation, alone or for a whole manifest, one person has   *)
(* signed for all that it decides, or it decides nothing.                  *)
LEMMA StoreSigns ==
    ASSUME TypeOK, StoreInv, StoreNext
    PROVE  \/ \E actor \in Actors : Signing(actor)
           \/ \A c \in Cases : DecisionOf(store'[c]) = DecisionOf(store[c])
<1> DEFINE Goal == \/ \E actor \in Actors : Signing(actor)
                   \/ \A c \in Cases : DecisionOf(store'[c]) = DecisionOf(store[c])
\* One case changes.
<1>0. ASSUME NEW c \in Cases, NEW l \in CaseStates, Update(c, l)
      PROVE  /\ DecisionOf(store'[c]) = DecisionOf(l)
             /\ \A b \in Cases : b # c => store'[b] = store[b]
  <2>1. PICK d \in Dated(l) : store' = [store EXCEPT ![c] = d]
    BY <1>0 DEF Update
  <2>2. DecisionOf(d) = DecisionOf(l)
    BY <2>1, LateKeeps DEF Dated
  <2> QED
    BY <2>1, <2>2 DEF TypeOK
<1>1. ASSUME NEW c \in Cases, NEW l \in CaseStates, Update(c, l),
             DecisionOf(l) = DecisionOf(store[c])
      PROVE  Goal
  BY <1>0, <1>1
<1>2. ASSUME NEW c \in Cases, NEW actor \in Actors, NEW l \in CaseStates, Update(c, l),
             Review!Signs(c, DecisionOf(store[c]), DecisionOf(l), actor)
      PROVE  Goal
  <2>1. /\ DecisionOf(store'[c]) = DecisionOf(l)
        /\ \A b \in Cases : b # c => store'[b] = store[b]
    BY <1>0, <1>2
  <2>2. Signing(actor)
    BY <1>2, <2>1 DEF Signing, Review!Signs
  <2> QED
    BY <2>2
<1> HIDE DEF Goal
<1>3. ASSUME NEW c \in Cases, store[c] # None
      PROVE  store[c] \in CaseStates /\ \E n \in 0 .. 4 : Walked(store[c], n)
  BY <1>3 DEF TypeOK, StoreInv, CaseInv
<1>4. ASSUME NEW c \in Cases, RegisterCandidate(c) \/ Enqueue(c) \/ MarkNeedsReview(c)
      PROVE  Goal
  <2>1. Candidate \in CaseStates /\ Candidate.status = "machine_extracted"
    BY CandidateCase DEF Candidate
  <2>2. DecisionOf(Candidate) = DecisionOf(None)
    BY <2>1, DecisionOfCase DEF DecisionOf, Candidate, Decided
  <2>3. DecisionOf(Queued(Candidate)) = DecisionOf(None)
    BY <2>1, <2>2, QueuedIsUndecided
  <2>4. CASE RegisterCandidate(c)
    BY <1>1, <2>1, <2>2, <2>4 DEF RegisterCandidate
  <2>5. CASE Enqueue(c)
    <3>1. Queued(Candidate) \in CaseStates
      BY <2>1, QueuedIsUndecided
    <3> QED
      BY <1>1, <2>3, <2>5, <3>1 DEF Enqueue
  <2>6. CASE MarkNeedsReview(c)
    <3>1. Queued(store[c]) \in CaseStates /\ DecisionOf(Queued(store[c])) = DecisionOf(store[c])
      BY <1>3, <2>6, QueuedIsUndecided DEF MarkNeedsReview
    <3> QED
      BY <1>1, <2>6, <3>1 DEF MarkNeedsReview
  <2> QED
    BY <1>4, <2>4, <2>5, <2>6
<1>5. ASSUME NEW c \in Cases, NEW actor \in Actors, NEW manifest \in OptManifest,
             \/ CanVerify(store[c]) /\ Update(c, Verified(store[c], actor, manifest))
             \/ CanApproveSearch(c, store[c]) /\ Update(c, SearchApproved(store[c], actor, manifest))
             \/ CanApproveAnswer(c, store[c], actor) /\ Update(c, AnswerApproved(store[c], actor, manifest))
             \/ CanReject(store[c]) /\ Update(c, Rejected(store[c], actor))
      PROVE  Goal
  <2>1. store[c] # None
    BY <1>5 DEF CanVerify, CanApproveSearch, CanApproveAnswer, CanReject
  <2>2. PICK n \in 0 .. 4 : Walked(store[c], n)
    BY <1>3, <2>1
  <2>3. /\ store[c] \in CaseStates
        /\ Verified(store[c], actor, manifest) \in CaseStates
        /\ SearchApproved(store[c], actor, manifest) \in CaseStates
        /\ AnswerApproved(store[c], actor, manifest) \in CaseStates
        /\ Rejected(store[c], actor) \in CaseStates
    BY <1>3, <2>1, OperationIsTyped
  <2>4. CASE CanVerify(store[c]) /\ Update(c, Verified(store[c], actor, manifest))
    <3>1. Review!Verify(DecisionOf(store[c]), DecisionOf(Verified(store[c], actor, manifest)), actor)
      BY <2>2, <2>3, <2>4, VerifiedSigns
    <3> QED
      BY <1>2, <2>3, <2>4, <3>1 DEF Review!Signs
  <2>5. CASE CanApproveSearch(c, store[c]) /\ Update(c, SearchApproved(store[c], actor, manifest))
    <3>1. Review!ApproveSearch(DecisionOf(store[c]),
                               DecisionOf(SearchApproved(store[c], actor, manifest)), actor)
      <4>1. store[c].status = "needs_review" /\ store[c].critical # None
        BY <2>5 DEF CanApproveSearch
      <4> QED
        BY <2>3, <4>1, SearchSigns, OpenIsApproved
    <3>2. c \notin Restricted
      BY <2>5 DEF CanApproveSearch
    <3> QED
      BY <1>2, <2>3, <2>5, <3>1, <3>2 DEF Review!Signs
  <2>6. CASE CanApproveAnswer(c, store[c], actor) /\ Update(c, AnswerApproved(store[c], actor, manifest))
    <3>1. /\ c \notin Restricted
          /\ Review!ApproveAnswer(DecisionOf(store[c]),
                                  DecisionOf(AnswerApproved(store[c], actor, manifest)), actor)
      BY <2>2, <2>3, <2>6, AnswerSigns
    <3> QED
      BY <1>2, <2>3, <2>6, <3>1 DEF Review!Signs
  <2>7. CASE CanReject(store[c]) /\ Update(c, Rejected(store[c], actor))
    <3>1. Review!Reject(DecisionOf(store[c]), DecisionOf(Rejected(store[c], actor)))
      BY <2>3, <2>7, RejectSigns
    <3> QED
      BY <1>2, <2>3, <2>7, <3>1 DEF Review!Signs
  <2> QED
    BY <1>5, <2>4, <2>5, <2>6, <2>7
<1>6. None \in OptManifest /\ \A manifest \in Manifests : manifest \in OptManifest
  BY DEF OptManifest
<1>7. ASSUME NEW c \in Cases, NEW actor \in Actors,
             \/ VerifyCriticalFields(c, actor) \/ ApproveSearch(c, actor)
             \/ ApproveAnswer(c, actor) \/ Reject(c, actor)
      PROVE  Goal
  BY <1>5, <1>6, <1>7 DEF VerifyCriticalFields, ApproveSearch, ApproveAnswer, Reject
<1>8. ASSUME NEW c \in Cases, NEW actor \in Actors, NEW manifest \in Manifests,
             RunAnswerAndBasis(c, actor, manifest)
      PROVE  Goal
  BY <1>5, <1>6, <1>8 DEF RunAnswerAndBasis
\* A run verifies and approves in one transaction: the same person signs.
<1>9. ASSUME NEW c \in Cases, NEW actor \in Actors, NEW manifest \in Manifests,
             RunCriticalFields(c, actor, manifest)
      PROVE  Goal
  <2> DEFINE k == store[c]
             v == Verified(k, actor, manifest)
  <2>1. CanVerify(k) /\ CanApproveSearch(c, v) /\ Update(c, SearchApproved(v, actor, manifest))
    BY <1>9 DEF RunCriticalFields
  <2>2. k # None /\ k.status = "needs_review" /\ k.critical = None
    BY <2>1 DEF CanVerify
  <2>3. PICK n \in 0 .. 4 : Walked(k, n)
    BY <1>3, <2>2
  <2>4. k \in CaseStates
    BY <1>3, <2>2
  <2>5. v \in CaseStates /\ v.status = "needs_review" /\ c \notin Restricted
    BY <1>6, <2>1, <2>3, <2>4, VerifiedCase DEF CanApproveSearch
  <2>6. v.critical = actor /\ v.answer = k.answer
    BY <1>6, <2>1, <2>3, <2>4, VerifiedCase, VerifiedSigns
  <2> HIDE DEF v
  <2>7. DecisionOf(SearchApproved(v, actor, manifest))
           = Verdict("search_approved", actor, actor, k.answer)
    BY <1>6, <2>5, <2>6, SearchSigns
  <2>8. DecisionOf(k) = Verdict("open", None, k.search, k.answer)
    BY <2>2, <2>4, DecisionOfCase DEF Decided, Verdict
  <2>9. Review!ApproveSearch(DecisionOf(k), DecisionOf(SearchApproved(v, actor, manifest)), actor)
    BY <2>7, <2>8, OpenIsApproved
  <2>10. Review!Signs(c, DecisionOf(k), DecisionOf(SearchApproved(v, actor, manifest)), actor)
    BY <2>5, <2>9 DEF Review!Signs
  <2>11. SearchApproved(v, actor, manifest) \in CaseStates
    BY <1>6, <2>5, OperationIsTyped
  <2> QED
    BY <1>2, <2>1, <2>10, <2>11
<1>10. ASSUME NEW manifest \in Manifests, NEW actor \in Actors, ApproveSearchBatch(manifest, actor)
       PROVE  Goal
  <2>1. Signing(actor)
    <3> SUFFICES ASSUME NEW c \in Cases
                 PROVE  Review!Signs(c, DecisionOf(store[c]), DecisionOf(store'[c]), actor)
      BY DEF Signing
    <3>1. CASE c \in CasesOf(manifest)
      <4> DEFINE l == SearchApproved(store[c], actor, manifest)
      <4>1. store'[c] \in {l, Late(l)} /\ CanApproveSearch(c, store[c])
        BY <1>10, <3>1 DEF ApproveSearchBatch
      <4>2. store[c].status = "needs_review" /\ store[c].critical # None /\ c \notin Restricted
        BY <4>1 DEF CanApproveSearch
      <4>3. store[c] \in CaseStates
        BY <1>3, <4>1 DEF CanApproveSearch
      <4>4. Review!ApproveSearch(DecisionOf(store[c]),
                                 DecisionOf(SearchApproved(store[c], actor, manifest)), actor)
        BY <1>6, <4>2, <4>3, SearchSigns, OpenIsApproved
      <4>5. DecisionOf(store'[c]) = DecisionOf(l)
        BY <1>6, <4>1, <4>3, OperationIsTyped, LateKeeps
      <4> QED
        BY <4>2, <4>4, <4>5 DEF Review!Signs
    <3>2. CASE c \notin CasesOf(manifest)
      BY <1>10, <3>2 DEF ApproveSearchBatch, Review!Signs
    <3> QED
      BY <3>1, <3>2
  <2> QED
    BY <2>1 DEF Goal
<1> QED
  BY <1>4, <1>7, <1>8, <1>9, <1>10 DEF StoreNext, Goal

Drafts == {DecisionsOf(exporter[x].snapshot) : x \in Holding}

Published == IF FinalizeAccepts THEN DecisionsOf(snapshotFile) ELSE None

HoldingSteps == {"taken", "writing", "attest", "attesting"}

\* The drafts when an exporter moves: its own may come or go.
LEMMA DraftsMove ==
    ASSUME IInv, NEW x \in Exporters, NEW e \in ExporterState, exporter' = [exporter EXCEPT ![x] = e]
    PROVE  /\ e.step \notin HoldingSteps => Drafts' \subseteq Drafts
           /\ exporter[x].step \in HoldingSteps /\ e.snapshot = exporter[x].snapshot =>
                  Drafts' \subseteq Drafts
           /\ \A d \in Drafts' \ Drafts : d = DecisionsOf(e.snapshot)
<1>1. exporter'[x] = e /\ \A y \in Exporters : y # x => exporter'[y] = exporter[y]
  BY ExporterMoves
<1>2. Drafts = {DecisionsOf(exporter[y].snapshot) : y \in {z \in Exporters : exporter[z].step \in HoldingSteps}}
  BY DEF Drafts, Holding, HoldingSteps
<1>3. Drafts' = {DecisionsOf(exporter'[y].snapshot) : y \in {z \in Exporters : exporter'[z].step \in HoldingSteps}}
  BY DEF Drafts, Holding, HoldingSteps, DecisionsOf
<1>4. ASSUME NEW d \in Drafts'
      PROVE  /\ d \in Drafts \/ (d = DecisionsOf(e.snapshot) /\ e.step \in HoldingSteps)
  <2>1. PICK y \in Exporters : exporter'[y].step \in HoldingSteps /\ d = DecisionsOf(exporter'[y].snapshot)
    BY <1>3, <1>4
  <2>2. CASE y = x
    BY <1>1, <2>1, <2>2
  <2>3. CASE y # x
    BY <1>1, <1>2, <2>1, <2>3
  <2> QED
    BY <2>2, <2>3
<1>5. exporter[x].step \in HoldingSteps => DecisionsOf(exporter[x].snapshot) \in Drafts
  BY <1>2
<1> HIDE DEF HoldingSteps
<1> QED
  BY <1>4, <1>5

\* Finalization accepts exactly when an attestation is there.
LEMMA FinalizeWhenWhole ==
    ASSUME IInv
    PROVE  FinalizeAccepts <=> Whole(attestation)
BY DEF IInv, AttestInv, Taken, Whole, FinalizeAccepts

LEMMA SamePublished ==
    ASSUME UNCHANGED <<snapshotFile, attestation>>
    PROVE  Published' = Published
BY DEF Published, FinalizeAccepts, DecisionsOf

\* Nothing is published while no attestation is whole.
LEMMA NonePublished ==
    ASSUME IInv, ~Whole(attestation)
    PROVE  Published = None
BY FinalizeWhenWhole DEF Published

(* What an exporter does is a draft, a publication or nothing to a reader  *)
(* of the decisions.                                                       *)
LEMMA ExportDecides ==
    ASSUME IInv, IInv', NEW x \in Exporters, ExportNext(x)
    PROVE  /\ UNCHANGED store
           /\ \/ /\ Published' = Published
                 /\ \A d \in Drafts' \ Drafts : d = DecisionsOf(store) /\ Exportable
              \/ Published = None /\ Published' \in Drafts /\ Drafts' \subseteq Drafts
<1>1. UNCHANGED store
  BY DEF ExportNext, StartExport, TakeSnapshot, UseSnapshotFile, WriteSnapshotFile,
         CreateAttestation, WriteAttestation, StopExport
<1>2. \A step \in ExportSteps :
         /\ [exporter[x] EXCEPT !.step = step] \in ExporterState
         /\ [exporter[x] EXCEPT !.step = step].step = step
         /\ [exporter[x] EXCEPT !.step = step].snapshot = exporter[x].snapshot
  BY StepIsTyped
<1>3. Idle \in ExporterState /\ Idle.step = "idle" /\ "idle" \in ExportSteps
  BY StepIsTyped DEF ExportSteps
\* Leaving drops a draft, moving on keeps it.
<1>4. ASSUME EndExport(x)
      PROVE  Drafts' \subseteq Drafts
  <2>1. exporter' = [exporter EXCEPT ![x] = Idle] /\ Idle.step \notin HoldingSteps
    BY <1>3, <1>4 DEF EndExport, HoldingSteps
  <2> QED
    BY <1>3, <2>1, DraftsMove
<1>5. ASSUME NEW step \in ExportSteps, Goto(x, step), exporter[x].step \in HoldingSteps
      PROVE  Drafts' \subseteq Drafts
  <2> DEFINE e == [exporter[x] EXCEPT !.step = step]
  <2>1. e \in ExporterState /\ e.snapshot = exporter[x].snapshot /\ exporter' = [exporter EXCEPT ![x] = e]
    BY <1>2, <1>5 DEF Goto
  <2> HIDE DEF e
  <2> QED
    BY <1>5, <2>1, DraftsMove
<1>6. CASE StartExport(x)
  <2> DEFINE e == [exporter[x] EXCEPT !.step = "checked"]
  <2>1. "checked" \in ExportSteps /\ "checked" \notin HoldingSteps
    BY DEF ExportSteps, HoldingSteps
  <2>2. e \in ExporterState /\ e.step = "checked" /\ exporter' = [exporter EXCEPT ![x] = e]
    BY <1>2, <1>6, <2>1 DEF StartExport, Goto
  <2> HIDE DEF e
  <2>3. Drafts' \subseteq Drafts
    BY <2>1, <2>2, DraftsMove
  <2>4. Published' = Published
    BY <1>6, SamePublished DEF StartExport
  <2> QED
    BY <1>1, <2>3, <2>4
<1>7. CASE TakeSnapshot(x)
  <2>1. Published' = Published
    BY <1>7, SamePublished DEF TakeSnapshot
  <2>2. CASE Exportable /\ LoadAccepts(store)
    <3> DEFINE e == [step |-> "taken", snapshot |-> store]
    <3>1. exporter' = [exporter EXCEPT ![x] = e]
      BY <1>7, <2>2 DEF TakeSnapshot
    <3>2. e \in ExporterState /\ e.snapshot = store
      <4>1. store \in [Cases -> CaseStates]
        BY <2>2 DEF Exportable, IInv, TypeOK
      <4> QED
        BY <4>1 DEF ExporterState, ExportSteps, Files
    <3> HIDE DEF e
    <3>3. \A d \in Drafts' \ Drafts : d = DecisionsOf(store)
      BY <3>1, <3>2, DraftsMove
    <3> QED
      BY <1>1, <2>1, <2>2, <3>3
  <2>3. CASE ~(Exportable /\ LoadAccepts(store))
    <3>1. Drafts' \subseteq Drafts
      BY <1>4, <1>7, <2>3 DEF TakeSnapshot
    <3> QED
      BY <1>1, <2>1, <3>1
  <2> QED
    BY <2>2, <2>3
<1>8. CASE UseSnapshotFile(x)
  <2>1. exporter[x].step \in HoldingSteps /\ {"writing", "attest"} \subseteq ExportSteps
    BY <1>8 DEF UseSnapshotFile, HoldingSteps, ExportSteps
  <2>2. Drafts' \subseteq Drafts
    BY <1>4, <1>5, <1>8, <2>1 DEF UseSnapshotFile
  <2>3. Published' = Published
    <3>1. CASE UNCHANGED snapshotFile
      BY <1>8, <3>1, SamePublished DEF UseSnapshotFile
    <3>2. CASE snapshotFile = None /\ snapshotFile' = Partial
      <4>1. ~Whole(attestation) /\ ~Whole(attestation)'
        BY <1>8, <3>2, TakenIsWhole DEF UseSnapshotFile, IInv, AttestInv, Whole
      <4>2. Published = None
        BY <4>1, NonePublished
      <4>3. ~FinalizeAccepts'
        BY <4>1 DEF FinalizeAccepts, Whole
      <4> QED
        BY <4>2, <4>3 DEF Published
    <3> QED
      BY <1>8, <3>1, <3>2 DEF UseSnapshotFile
  <2> QED
    BY <1>1, <2>2, <2>3
<1>9. CASE WriteSnapshotFile(x)
  <2>1. exporter[x].step = "writing" /\ Goto(x, "attest") /\ "attest" \in ExportSteps
    BY <1>9 DEF WriteSnapshotFile, ExportSteps
  <2>2. Drafts' \subseteq Drafts
    BY <1>5, <2>1 DEF HoldingSteps
  <2>3. snapshotFile = Partial /\ UNCHANGED attestation
    BY <1>9 DEF WriteSnapshotFile, IInv, ExportInv
  <2>4. ~Whole(attestation)
    BY <2>3, TakenIsWhole DEF IInv, AttestInv
  <2>5. ~FinalizeAccepts' /\ Published = None
    BY <2>3, <2>4, NonePublished DEF FinalizeAccepts, Whole
  <2> QED
    BY <1>1, <2>2, <2>5 DEF Published
<1>10. CASE CreateAttestation(x)
  <2>1. CASE attestation = None
    <3>1. Goto(x, "attesting") /\ "attesting" \in ExportSteps /\ exporter[x].step \in HoldingSteps
      BY <1>10, <2>1 DEF CreateAttestation, ExportSteps, HoldingSteps
    <3>2. Drafts' \subseteq Drafts
      BY <1>5, <3>1
    <3>3. ~Whole(attestation) /\ ~FinalizeAccepts'
      BY <1>10, <2>1 DEF CreateAttestation, FinalizeAccepts, Whole
    <3>4. Published = None
      BY <3>3, NonePublished
    <3> QED
      BY <1>1, <3>2, <3>3, <3>4 DEF Published
  <2>2. CASE attestation # None
    <3>1. EndExport(x) /\ UNCHANGED <<snapshotFile, attestation>>
      BY <1>10, <2>2 DEF CreateAttestation
    <3> QED
      BY <1>1, <1>4, <3>1, SamePublished
  <2> QED
    BY <2>1, <2>2
<1>11. CASE WriteAttestation(x)
  <2>1. /\ exporter[x].step = "attesting" /\ attestation' = exporter[x].snapshot
        /\ UNCHANGED snapshotFile /\ EndExport(x)
    BY <1>11 DEF WriteAttestation
  <2>2. /\ Taken(exporter[x].snapshot) /\ attestation = Partial
        /\ snapshotFile = exporter[x].snapshot
    BY <2>1 DEF IInv, ExportInv
  <2>3. Published = None
    BY <2>2, NonePublished DEF Whole
  <2>4. FinalizeAccepts'
    <3>1. attestation' \notin {None, Partial} /\ snapshotFile' = attestation'
      BY <2>1, <2>2, TakenIsWhole
    <3>2. LoadAccepts(exporter[x].snapshot)
      BY <2>2 DEF Taken
    <3> QED
      BY <2>1, <2>2, <3>1, <3>2 DEF FinalizeAccepts
  <2>5. Published' = DecisionsOf(exporter[x].snapshot)
    BY <2>1, <2>2, <2>4 DEF Published, DecisionsOf
  <2>6. DecisionsOf(exporter[x].snapshot) \in Drafts
    BY <2>1 DEF Drafts, Holding
  <2>7. Drafts' \subseteq Drafts
    BY <1>4, <2>1
  <2> QED
    BY <1>1, <2>3, <2>5, <2>6, <2>7
<1>12. CASE StopExport(x)
  <2>1. EndExport(x) /\ UNCHANGED <<snapshotFile, attestation>>
    BY <1>12 DEF StopExport
  <2> QED
    BY <1>1, <1>4, <2>1, SamePublished
<1> QED
  BY <1>6, <1>7, <1>8, <1>9, <1>10, <1>11, <1>12 DEF ExportNext

LEMMA StepDecides ==
    ASSUME IInv, IInv', [Next]_vars
    PROVE  [Review!Next]_<<DecisionsOf(store), Drafts, Published>>
<1>1. CASE StoreNext
  <2>1. UNCHANGED <<snapshotFile, attestation, exporter>>
    BY <1>1, StoreNextMoves DEF IInv
  <2>2. Drafts' = Drafts /\ Published' = Published
    BY <2>1, SamePublished DEF Drafts, Holding, DecisionsOf
  <2>3. CASE \E actor \in Actors : Signing(actor)
    <3>1. PICK actor \in Actors : Signing(actor)
      BY <2>3
    <3>2. Review!Decide(actor)
      BY <2>2, <3>1 DEF Signing, Review!Decide, DecisionsOf, Drafts, Published
    <3> QED
      BY <3>2 DEF Review!Next
  <2>4. CASE \A c \in Cases : DecisionOf(store'[c]) = DecisionOf(store[c])
    BY <2>2, <2>4 DEF DecisionsOf
  <2> QED
    BY <1>1, <2>3, <2>4, StoreSigns DEF IInv
<1>2. CASE \E x \in Exporters : ExportNext(x)
  <2>1. UNCHANGED store
    BY <1>2, ExportDecides
  <2>2. DecisionsOf(store)' = DecisionsOf(store)
    BY <2>1 DEF DecisionsOf
  <2>3. CASE /\ Published' = Published
             /\ \A d \in Drafts' \ Drafts : d = DecisionsOf(store) /\ Exportable
    <3>1. Exportable => Review!Complete
      <4> SUFFICES ASSUME Exportable, NEW c \in Cases
                   PROVE  DecisionOf(store[c]).status # "open"
        BY DEF Review!Complete, DecisionsOf
      <4>1. store[c] \in CaseStates /\ store[c].status \in Decided
        BY DEF Exportable, IInv, TypeOK
      <4> QED
        BY <4>1, DecisionOfCase DEF Decided
    <3>2. Review!Draft
      BY <2>2, <2>3, <3>1 DEF Review!Draft, Drafts, Published
    <3> QED
      BY <3>2 DEF Review!Next
  <2>4. CASE Published = None /\ Published' \in Drafts /\ Drafts' \subseteq Drafts
    <3>1. Review!Publish
      BY <2>2, <2>4 DEF Review!Publish, Drafts, Published
    <3> QED
      BY <3>1 DEF Review!Next
  <2> QED
    BY <1>2, <2>3, <2>4, ExportDecides
<1>3. CASE UNCHANGED vars
  <2>1. UNCHANGED <<store, snapshotFile, attestation, exporter>>
    BY <1>3 DEF vars
  <2> QED
    BY <2>1, SamePublished DEF Drafts, Holding, DecisionsOf
<1> QED
  BY <1>1, <1>2, <1>3 DEF Next

(* The store with its runs and batches, and the exporters with their two   *)
(* files, are a review: a decision is somebody's signature and the answer  *)
(* another person's, and finalization takes the decisions of one moment,   *)
(* complete, the same ones for ever.                                       *)
THEOREM Refinement == Spec => ImplementsReview
<1>1. Init => Review!Init
  <2> SUFFICES ASSUME Init
               PROVE  Review!Init
    OBVIOUS
  <2>1. DecisionsOf(store) = [c \in Cases |-> Review!Undecided]
    BY DEF Init, DecisionsOf, DecisionOf, Review!Undecided
  <2>2. Holding = {}
    BY DEF Init, Idle, Holding
  <2>3. ~FinalizeAccepts
    BY DEF Init, FinalizeAccepts
  <2> QED
    BY <2>1, <2>2, <2>3 DEF Review!Init
<1>2. IInv /\ IInv' /\ [Next]_vars => [Review!Next]_<<DecisionsOf(store), Drafts, Published>>
  BY StepDecides
<1> QED
  BY <1>1, <1>2, Invariance, PTL DEF Spec, ImplementsReview, Review!Spec, Drafts, Published
-----------------------------------------------------------------------------
(* The relations that reviewers approve.                                   *)

\* A relation of s with t, as it is proposed.
Proposal(type, s, t) ==
    [type |-> type, source |-> s.id, target |-> t.id, confidence |-> 1, evidence |-> "e",
     sourceContent |-> s, targetContent |-> t]

\* The two cases in the order of a proposal.
Turned(type, a, b) == type \in Related!Symmetric /\ a.id > b.id
FirstOf(type, a, b) == IF Turned(type, a, b) THEN b ELSE a
SecondOf(type, a, b) == IF Turned(type, a, b) THEN a ELSE b

Approved(fields) == [id |-> Related!RelationId(fields), fields |-> fields, reviewer |-> "r"]

LEMMA NoneIsRejected ==
    ASSUME NEW id, NEW fields, NEW reviewer
    PROVE  /\ [id |-> id, fields |-> fields] # Related!Rejected
           /\ [id |-> id, fields |-> fields, reviewer |-> reviewer] # Related!Rejected
<1>1. DOMAIN Related!Rejected = {"rejected"}
  BY DEF Related!Rejected
<1>2. /\ DOMAIN [id |-> id, fields |-> fields] = {"id", "fields"}
      /\ DOMAIN [id |-> id, fields |-> fields, reviewer |-> reviewer] = {"id", "fields", "reviewer"}
  OBVIOUS
<1> QED
  BY <1>1, <1>2

LEMMA ProposedOf ==
    ASSUME NEW a, NEW b, NEW type, a.id \in Nat, b.id \in Nat
    PROVE  LET proposed == Related!ProposeRelation(a, b, type, 1, "e")
               fields == Proposal(type, FirstOf(type, a, b), SecondOf(type, a, b))
           IN  /\ a.id = b.id => proposed = Related!Rejected
               /\ a.id # b.id => /\ proposed # Related!Rejected
                                 /\ proposed = [id |-> Related!RelationId(fields), fields |-> fields]
<1> DEFINE proposed == Related!ProposeRelation(a, b, type, 1, "e")
           fields == Proposal(type, FirstOf(type, a, b), SecondOf(type, a, b))
<1>1. a.id = b.id => proposed = Related!Rejected
  BY DEF Related!ProposeRelation
<1>2. ASSUME a.id # b.id
      PROVE  proposed = [id |-> Related!RelationId(fields), fields |-> fields]
  BY <1>2 DEF Related!ProposeRelation, Related!Candidate, Related!CanonicalCase, Proposal,
              FirstOf, SecondOf, Turned
<1> HIDE DEF fields
<1>3. [id |-> Related!RelationId(fields), fields |-> fields] # Related!Rejected
  BY NoneIsRejected
<1> QED
  BY <1>1, <1>2, <1>3 DEF fields

\* The id of a relation tells all its fields.
LEMMA IdsDiffer ==
    ASSUME NEW type, NEW s, NEW t, NEW type2, NEW s2, NEW t2
    PROVE  Related!RelationId(Proposal(type, s, t)) = Related!RelationId(Proposal(type2, s2, t2))
              <=> Proposal(type, s, t) = Proposal(type2, s2, t2)
<1> DEFINE p == Proposal(type, s, t)
           q == Proposal(type2, s2, t2)
<1>1. DOMAIN p = Related!RelationFields /\ DOMAIN q = Related!RelationFields
  BY DEF Proposal, Related!RelationFields
<1>2. p = [f \in Related!RelationFields |-> p[f]] /\ q = [f \in Related!RelationFields |-> q[f]]
  BY <1>1 DEF Proposal
<1> HIDE DEF p, q
<1>3. Related!RelationId(p) = p /\ Related!RelationId(q) = q
  BY <1>2 DEF Related!RelationId
<1> QED
  BY <1>3 DEF p, q

\* Who may present a relation that was approved of s with t.
LEMMA AcceptedWithItsCases ==
    ASSUME NEW s, NEW t, s.id # t.id, NEW type, NEW x, NEW y
    PROVE  LET fields == Proposal(type, s, t)
               approval == Approved(fields)
               verified == Related!VerifiedRelation(Related!CaseRelation(fields), approval, approval)
           IN  Related!AcceptsRelation(verified, x, y, approval) <=> {x, y} = {s, t}
<1> DEFINE fields == Proposal(type, s, t)
           approval == Approved(fields)
           relation == Related!CaseRelation(fields)
           verified == Related!VerifiedRelation(relation, approval, approval)
<1>1. /\ fields.source = s.id /\ fields.target = t.id
      /\ fields.sourceContent = s /\ fields.targetContent = t
  BY DEF Proposal
<1> HIDE DEF fields
<1>2. /\ approval.fields = fields /\ approval.id = Related!RelationId(fields)
      /\ approval # Related!Rejected
  BY NoneIsRejected DEF Approved
<1>3. relation.source = s.id /\ relation.target = t.id
  BY <1>1 DEF Related!CaseRelation
<1> HIDE DEF approval, relation
<1>4. Related!LegalApproval(approval)
  BY <1>1, <1>2 DEF Related!LegalApproval
<1>5. /\ verified.relation = relation /\ verified.approval = approval /\ verified.digest = approval
      /\ verified.sourceContent = s /\ verified.targetContent = t
      /\ verified.binding = <<relation, approval, approval>>
  BY <1>1, <1>2 DEF Related!VerifiedRelation
<1>6. relation = Related!CaseRelation(approval.fields)
  BY <1>2 DEF relation
<1> HIDE DEF verified
<1> DEFINE named(id) == IF x.id = id THEN x ELSE y
<1>7. Related!AcceptsRelation(verified, x, y, approval)
        <=> /\ x.id # y.id /\ {x.id, y.id} = {s.id, t.id}
            /\ s = named(s.id) /\ t = named(t.id)
  BY <1>1, <1>2, <1>3, <1>4, <1>5, <1>6 DEF Related!AcceptsRelation, Related!CanonicalCase
<1>8. (x.id # y.id /\ {x.id, y.id} = {s.id, t.id} /\ s = named(s.id) /\ t = named(t.id))
        <=> {x, y} = {s, t}
  OBVIOUS
<1> QED
  BY <1>7, <1>8 DEF verified, relation, approval, fields
\* The other proposal of the same two cases.
LEMMA SameProposal ==
    ASSUME NEW a, NEW b, NEW type, NEW other, a.id \in Nat, b.id \in Nat, a.id # b.id
    PROVE  Proposal(other, FirstOf(other, b, a), SecondOf(other, b, a))
             = Proposal(type, FirstOf(type, a, b), SecondOf(type, a, b))
           <=> type = other /\ type \in Related!Symmetric
<1> DEFINE p == Proposal(type, FirstOf(type, a, b), SecondOf(type, a, b))
           q == Proposal(other, FirstOf(other, b, a), SecondOf(other, b, a))
<1>1. ASSUME p = q
      PROVE  type = other /\ type \in Related!Symmetric
  <2>1. type = other /\ FirstOf(type, a, b).id = FirstOf(other, b, a).id
    <3>1. p.type = type /\ q.type = other
      BY DEF Proposal
    <3>2. p.source = FirstOf(type, a, b).id /\ q.source = FirstOf(other, b, a).id
      BY DEF Proposal
    <3> HIDE DEF p, q
    <3> QED
      BY <1>1, <3>1, <3>2
  <2> QED
    BY <2>1 DEF FirstOf, Turned
<1>2. ASSUME type = other, type \in Related!Symmetric
      PROVE  p = q
  <2>1. (a.id > b.id /\ ~ (b.id > a.id)) \/ (b.id > a.id /\ ~ (a.id > b.id))
    OBVIOUS
  <2>2. FirstOf(type, a, b) = FirstOf(other, b, a) /\ SecondOf(type, a, b) = SecondOf(other, b, a)
    BY <1>2, <2>1 DEF FirstOf, SecondOf, Turned
  <2> QED
    BY <1>2, <2>2
<1> QED
  BY <1>1, <1>2

LEMMA CanonicalOf ==
    ASSUME NEW s, NEW t, s.id # t.id, NEW type, NEW s2, NEW t2, s2.id # t2.id, NEW other
    PROVE  LET fields == Proposal(type, s, t)
               given == Proposal(other, s2, t2)
               candidate == [id |-> Related!RelationId(given), fields |-> given]
               approval == Approved(fields)
               verified == Related!CanonicalizeRelation(candidate, approval, approval)
           IN  /\ given = fields => verified = Related!VerifiedRelation(Related!CaseRelation(fields),
                                                                       approval, approval)
               /\ verified # Related!Rejected <=> given = fields
<1> DEFINE fields == Proposal(type, s, t)
           given == Proposal(other, s2, t2)
           candidate == [id |-> Related!RelationId(given), fields |-> given]
           approval == Approved(fields)
           verified == Related!CanonicalizeRelation(candidate, approval, approval)
           made(f) == Related!VerifiedRelation(Related!CaseRelation(f), approval, approval)
<1>1. /\ fields.source = s.id /\ fields.target = t.id
      /\ given.source = s2.id /\ given.target = t2.id
  BY DEF Proposal
<1>2. Related!RelationId(given) = Related!RelationId(fields) <=> given = fields
  BY IdsDiffer
<1> HIDE DEF fields, given
<1>3. /\ approval.fields = fields /\ approval.id = Related!RelationId(fields)
      /\ approval # Related!Rejected
  BY NoneIsRejected DEF Approved
<1>4. /\ candidate.fields = given /\ candidate.id = Related!RelationId(given)
      /\ candidate # Related!Rejected
  BY NoneIsRejected
<1> HIDE DEF candidate, approval
<1>5. Related!LegalCandidate(candidate) /\ Related!LegalApproval(approval)
  BY <1>1, <1>3, <1>4 DEF Related!LegalCandidate, Related!LegalApproval
<1>6. verified = IF given = fields THEN made(given) ELSE Related!Rejected
  BY <1>2, <1>3, <1>4, <1>5 DEF Related!CanonicalizeRelation
<1>7. made(given) # Related!Rejected
  <2>1. DOMAIN made(given) = {"relation", "approval", "digest", "sourceContent", "targetContent", "binding"}
    BY DEF Related!VerifiedRelation
  <2>2. DOMAIN Related!Rejected = {"rejected"}
    BY DEF Related!Rejected
  <2> QED
    BY <2>1, <2>2
<1> QED
  BY <1>6, <1>7 DEF fields, given, candidate, approval

(* Whatever the cases are: a relation of two cases is approved as one,     *)
(* whoever comes first, is accepted with those two as they were when it    *)
(* was approved and with no other, and serves no other proposal.           *)
THEOREM RelationsAlwaysBind == IdsAreOrdered => RelationsBind
<1> SUFFICES ASSUME NEW a, NEW b, NEW changed, NEW type, NEW other, a.id \in Nat, b.id \in Nat
             PROVE  Related!ApprovalsBind(a, b, changed, type, other)
  BY DEF RelationsBind, IdsAreOrdered
<1> DEFINE proposed == Related!ProposeRelation(a, b, type, 1, "e")
           again == Related!ProposeRelation(b, a, other, 1, "e")
           s == FirstOf(type, a, b)
           t == SecondOf(type, a, b)
           s2 == FirstOf(other, b, a)
           t2 == SecondOf(other, b, a)
           fields == Proposal(type, s, t)
           given == Proposal(other, s2, t2)
           approval == Related!RelationApproval(proposed, "e", "r")
           verified == Related!CanonicalizeRelation(proposed, approval, approval)
<1>1. a.id = b.id <=> proposed = Related!Rejected
  BY ProposedOf
<1>2. ASSUME a.id # b.id
      PROVE  /\ verified # Related!Rejected
             /\ \A x, y : Related!AcceptsRelation(verified, x, y, approval) <=> {x, y} = {a, b}
             /\ Related!CanonicalizeRelation(again, approval, approval) # Related!Rejected
                  <=> type = other /\ type \in Related!Symmetric
  <2>1. s.id # t.id /\ s2.id # t2.id /\ {s, t} = {a, b}
    BY <1>2 DEF FirstOf, SecondOf
  <2>2. /\ proposed # Related!Rejected
        /\ proposed = [id |-> Related!RelationId(fields), fields |-> fields]
        /\ again = [id |-> Related!RelationId(given), fields |-> given]
    BY <1>2, ProposedOf
  <2>3. given = fields <=> type = other /\ type \in Related!Symmetric
    BY <1>2, SameProposal
  <2>4. fields.source = s.id /\ fields.target = t.id /\ fields.evidence = "e"
    BY DEF Proposal
  <2> HIDE DEF s, t, s2, t2, proposed, again
  <2>5. approval = Approved(fields)
    <3> HIDE DEF fields
    <3>1. proposed.id = Related!RelationId(fields) /\ proposed.fields = fields
      BY <2>2
    <3>2. Related!LegalCandidate(proposed)
      BY <2>1, <2>2, <2>4, <3>1 DEF Related!LegalCandidate
    <3> QED
      BY <2>4, <3>1, <3>2 DEF Related!RelationApproval, Approved
  <2>6. /\ verified # Related!Rejected
        /\ verified = Related!VerifiedRelation(Related!CaseRelation(fields), approval, approval)
    BY <2>1, <2>2, <2>5, CanonicalOf
  <2>7. \A x, y : Related!AcceptsRelation(verified, x, y, approval) <=> {x, y} = {a, b}
    <3> SUFFICES ASSUME NEW x, NEW y
                 PROVE  Related!AcceptsRelation(verified, x, y, approval) <=> {x, y} = {a, b}
      OBVIOUS
    <3> DEFINE v == Related!VerifiedRelation(Related!CaseRelation(fields), Approved(fields), Approved(fields))
    <3>1. Related!AcceptsRelation(v, x, y, Approved(fields)) <=> {x, y} = {s, t}
      BY <2>1, AcceptedWithItsCases
    <3> HIDE DEF fields
    <3>2. verified = v
      BY <2>5, <2>6
    <3> HIDE DEF v
    <3> QED
      BY <2>1, <2>5, <3>1, <3>2
  <2>8. Related!CanonicalizeRelation(again, approval, approval) # Related!Rejected <=> given = fields
    BY <2>1, <2>2, <2>5, CanonicalOf
  <2> QED
    BY <2>3, <2>6, <2>7, <2>8
<1> HIDE DEF proposed, again, approval, verified
<1> QED
  BY <1>1, <1>2 DEF Related!ApprovalsBind, proposed, again, approval, verified
-----------------------------------------------------------------------------
(* The cases that are reviewed by sample.                                  *)

\* What a package must be for an authority to be built of it.
Built(S) ==
    /\ \A c, d \in S : c.id = d.id => c = d
    /\ \A c \in S : Sampling!LegalCandidate(c)
    /\ \A c \in S : c.year \in Sampling!SampledYears /\ c.source = "ocr" =>
          (c.year # 2025 \/ c.pages = {} => ~Sampling!Eligible(c))
    /\ \A s \in Sampling!Segments(S, "m") : Sampling!PagesAgree(s.pages)

Inside(S) == {c \in S : Sampling!InSegment(c)}

GroupOf(S, l) == {c \in Inside(S) : Sampling!LayoutOf(c, "m") = l}

SegmentOf(S, l) ==
    [layout |-> l, pages |-> Sampling!SegmentPages(GroupOf(S, l)),
     members |-> Sampling!Members(GroupOf(S, l)), excluded |-> Sampling!Excluded(GroupOf(S, l))]

LEMMA SegmentsOf ==
    ASSUME NEW S
    PROVE  Sampling!Segments(S, "m") = {SegmentOf(S, l) : l \in {Sampling!LayoutOf(c, "m") : c \in Inside(S)}}
BY DEF Sampling!Segments, SegmentOf, GroupOf, Inside

\* The parts of an authority, when there is one.
LEMMA AuthorityParts ==
    ASSUME NEW S, Authority(S) # Sampling!Failed
    PROVE  LET a == Authority(S)
           IN  /\ Built(S)
               /\ a.inventory.manifest = "m"
               /\ a.inventory.segments = Sampling!Segments(S, "m")
               /\ a.inventory.blockers = Sampling!Blockers(S)
               /\ a.inventory.allFields =
                     {c.id : c \in {d \in S : d.year \in Sampling!AllFieldYears /\ Sampling!Eligible(d)}}
               /\ a.plans = {Sampling!PlanOf(a.inventory, s) :
                               s \in {t \in a.inventory.segments : t.members # {}}}
<1> DEFINE inventory ==
              [release |-> "r", registry |-> {Sampling!Reference(c) : c \in S}, parser |-> "p",
               raw |-> "w", manifest |-> "m", segments |-> Sampling!Segments(S, "m"),
               allFields |-> {c.id : c \in {d \in S : d.year \in Sampling!AllFieldYears /\ Sampling!Eligible(d)}},
               blockers |-> Sampling!Blockers(S)]
           plans == {Sampling!PlanOf(inventory, s) : s \in {t \in inventory.segments : t.members # {}}}
<1>1. /\ Authority(S) = [inventory |-> inventory, plans |-> plans]
      /\ Sampling!CanBuild({Sampling!Reference(c) : c \in S}, S)
      /\ \A s \in Sampling!Segments(S, "m") : Sampling!PagesAgree(s.pages)
  BY DEF Authority, Sampling!BuildSamplingAuthority
<1>2. Built(S)
  <2>1. /\ \A c, d \in S : c.id = d.id => c = d
        /\ \A c \in S : Sampling!LegalCandidate(c)
        /\ \A c \in S : c.year \in Sampling!SampledYears /\ c.source = "ocr" =>
              (c.year # 2025 \/ c.pages = {} => ~Sampling!Eligible(c))
    <3>1. Sampling!CanBuild({Sampling!Reference(c) : c \in S}, S)
      BY <1>1
    <3> QED
      BY ONLY <3>1 DEF Sampling!CanBuild
  <2>2. \A s \in Sampling!Segments(S, "m") : Sampling!PagesAgree(s.pages)
    BY <1>1
  <2> QED
    BY <2>1, <2>2 DEF Built
<1>3. /\ inventory.manifest = "m" /\ inventory.segments = Sampling!Segments(S, "m")
      /\ inventory.blockers = Sampling!Blockers(S)
      /\ inventory.allFields =
            {c.id : c \in {d \in S : d.year \in Sampling!AllFieldYears /\ Sampling!Eligible(d)}}
  OBVIOUS
<1> HIDE DEF inventory
<1>4. Authority(S).inventory = inventory /\ Authority(S).plans = plans
  BY <1>1
<1> QED
  BY <1>2, <1>3, <1>4

\* A reference names one candidate.
LEMMA ReferenceNamesOne ==
    ASSUME NEW S, Built(S), NEW c \in S, NEW d \in S, Sampling!Reference(c) = Sampling!Reference(d)
    PROVE  c = d
<1>1. Sampling!Reference(c).id = c.id /\ Sampling!Reference(d).id = d.id
  BY DEF Sampling!Reference
<1> QED
  BY <1>1 DEF Built

LEMMA NoneForgotten ==
    ASSUME NEW S, Candidates(S)
    PROVE  Sampling!EveryCaseIsPlaced(Authority(S), S)
<1> SUFFICES ASSUME Authority(S) # Sampling!Failed, NEW c \in S
             PROVE  /\ Sampling!Eligible(c) => Sampling!Placed(Authority(S), c)
                    /\ c.quarantined \/ c.pii = "restricted" =>
                          \A p \in Authority(S).plans : Sampling!Reference(c) \notin p.members
  BY DEF Sampling!EveryCaseIsPlaced
<1> DEFINE a == Authority(S)
<1>1. /\ Built(S) /\ a.inventory.segments = Sampling!Segments(S, "m")
      /\ a.inventory.blockers = Sampling!Blockers(S)
      /\ a.inventory.allFields =
            {d.id : d \in {e \in S : e.year \in Sampling!AllFieldYears /\ Sampling!Eligible(e)}}
      /\ a.plans = {Sampling!PlanOf(a.inventory, s) : s \in {t \in a.inventory.segments : t.members # {}}}
  BY AuthorityParts
<1> HIDE DEF a
<1>2. ASSUME Sampling!Eligible(c)
      PROVE  Sampling!Placed(a, c)
  <2>1. c.year \in Sampling!AllFieldYears \/ c.year \in Sampling!SampledYears
    BY DEF Candidates, Sampling!AllFieldYears, Sampling!SampledYears
  <2>2. CASE c.year \in Sampling!AllFieldYears
    BY <1>1, <1>2, <2>2 DEF Sampling!Placed
  <2>3. CASE c.year \in Sampling!SampledYears /\ c.source = "native" /\ c.native = Sampling!NoSegment
    BY <1>1, <1>2, <2>3 DEF Sampling!Placed, Sampling!Blockers
  <2>4. CASE c.year \in Sampling!SampledYears /\ ~ (c.source = "native" /\ c.native = Sampling!NoSegment)
    <3>1. c.source = "native" \/ c.source = "ocr"
      BY DEF Candidates
    <3>2. c \in Inside(S)
      BY <1>1, <1>2, <2>4, <3>1 DEF Built, Inside, Sampling!InSegment
    <3> DEFINE l == Sampling!LayoutOf(c, "m")
    <3>3. SegmentOf(S, l) \in a.inventory.segments
      BY <1>1, <3>2, SegmentsOf
    <3>4. c \in GroupOf(S, l)
      BY <3>2 DEF GroupOf
    <3>5. Sampling!Reference(c) \in SegmentOf(S, l).members
      BY <1>2, <3>4 DEF SegmentOf, Sampling!Members
    <3> QED
      BY <3>3, <3>5 DEF Sampling!Placed
  <2> QED
    BY <2>1, <2>2, <2>3, <2>4
<1>3. ASSUME c.quarantined \/ c.pii = "restricted", NEW p \in a.plans, Sampling!Reference(c) \in p.members
      PROVE  FALSE
  <2>1. PICK s \in a.inventory.segments : p = Sampling!PlanOf(a.inventory, s)
    BY <1>1
  <2>2. PICK l : s = SegmentOf(S, l)
    BY <1>1, SegmentsOf
  <2>3. p.members = Sampling!Members(GroupOf(S, l))
    BY <2>1, <2>2 DEF Sampling!PlanOf, SegmentOf
  <2>4. PICK d \in GroupOf(S, l) : Sampling!Eligible(d) /\ Sampling!Reference(d) = Sampling!Reference(c)
    BY <1>3, <2>3 DEF Sampling!Members
  <2>5. d = c
    BY <1>1, <2>4, ReferenceNamesOne DEF GroupOf, Inside
  <2> QED
    BY <1>3, <2>4, <2>5 DEF Sampling!Eligible
<1> QED
  BY <1>2, <1>3 DEF a

\* The ids of the members and of the others of a group.
LEMMA IdsOf ==
    ASSUME NEW S, NEW l
    PROVE  /\ Sampling!Ids(SegmentOf(S, l).members)
                = {c.id : c \in {d \in GroupOf(S, l) : Sampling!Eligible(d)}}
           /\ Sampling!ExcludedIds(SegmentOf(S, l))
                = {c.id : c \in {d \in GroupOf(S, l) : ~Sampling!Eligible(d)}}
<1> DEFINE G == GroupOf(S, l)
           s == SegmentOf(S, l)
<1>1. /\ s.members = {Sampling!Reference(c) : c \in {d \in G : Sampling!Eligible(d)}}
      /\ s.excluded = {<<c.id, Sampling!ExclusionReason(c)>> : c \in {d \in G : ~Sampling!Eligible(d)}}
  BY DEF SegmentOf, Sampling!Members, Sampling!Excluded
<1>2. \A c : Sampling!Reference(c).id = c.id
  BY DEF Sampling!Reference
<1> HIDE DEF s, G
<1>3. Sampling!Ids(s.members) = {c.id : c \in {d \in G : Sampling!Eligible(d)}}
  BY <1>1, <1>2 DEF Sampling!Ids
<1>4. Sampling!ExcludedIds(s) = {c.id : c \in {d \in G : ~Sampling!Eligible(d)}}
  <2>1. \A c : <<c.id, Sampling!ExclusionReason(c)>>[1] = c.id
    OBVIOUS
  <2>2. Sampling!ExcludedIds(s) = {e[1] : e \in {<<c.id, Sampling!ExclusionReason(c)>> :
                                                    c \in {d \in G : ~Sampling!Eligible(d)}}}
    BY <1>1 DEF Sampling!ExcludedIds
  <2>3. \A i : i \in Sampling!ExcludedIds(s) <=> i \in {c.id : c \in {d \in G : ~Sampling!Eligible(d)}}
    BY <2>1, <2>2
  <2> QED
    BY <2>3
<1> QED
  BY <1>3, <1>4 DEF s, G

\* Where a candidate's layout comes from.
LEMMA LayoutIsWhole ==
    ASSUME NEW S, Candidates(S), NEW c \in Inside(S)
    PROVE  LET l == Sampling!LayoutOf(c, "m")
           IN  /\ l.kind = "native" => l.manifest = "m"
               /\ l.kind # "native" => c.pages # {}
<1>1. CASE c.source = "native"
  BY <1>1 DEF Sampling!LayoutOf, Sampling!NativeLayout
<1>2. CASE c.source # "native"
  <2>1. c.pages # {}
    BY <1>2 DEF Inside, Sampling!InSegment
  <2>2. Sampling!OcrLayouts(c) # {}
    BY <2>1 DEF Sampling!OcrLayouts
  <2>3. Sampling!LayoutOf(c, "m") \in Sampling!OcrLayouts(c)
    BY <1>2, <2>2 DEF Sampling!LayoutOf
  <2>4. Sampling!LayoutOf(c, "m").kind = "ocr"
    BY <2>3 DEF Sampling!OcrLayouts, Candidates, Inside
  <2> QED
    BY <2>1, <2>4
<1> QED
  BY <1>1, <1>2

\* A segment names each of its cases once, whether member or not.
LEMMA NamedOnce ==
    ASSUME NEW S, Built(S), NEW l
    PROVE  LET s == SegmentOf(S, l)
           IN  /\ \A q, r \in s.members : q.id = r.id => q = r
               /\ \A d, e \in s.excluded : d[1] = e[1] => d = e
               /\ Sampling!Ids(s.members) \cap Sampling!ExcludedIds(s) = {}
<1> DEFINE s == SegmentOf(S, l)
           G == GroupOf(S, l)
<1>1. \A c \in G : \A d \in G : c.id = d.id => c = d
  BY DEF GroupOf, Inside, Built
<1>2. /\ s.members = {Sampling!Reference(c) : c \in {d \in G : Sampling!Eligible(d)}}
      /\ s.excluded = {<<c.id, Sampling!ExclusionReason(c)>> : c \in {d \in G : ~Sampling!Eligible(d)}}
  BY DEF SegmentOf, Sampling!Members, Sampling!Excluded
<1>3. /\ Sampling!Ids(s.members) = {c.id : c \in {d \in G : Sampling!Eligible(d)}}
      /\ Sampling!ExcludedIds(s) = {c.id : c \in {d \in G : ~Sampling!Eligible(d)}}
  BY IdsOf
<1> HIDE DEF s, G
<1>4. ASSUME NEW q \in s.members, NEW r \in s.members, q.id = r.id
      PROVE  q = r
  <2>1. PICK c \in G : q = Sampling!Reference(c)
    BY <1>2
  <2>2. PICK d \in G : r = Sampling!Reference(d)
    BY <1>2
  <2>3. Sampling!Reference(c).id = c.id /\ Sampling!Reference(d).id = d.id
    BY DEF Sampling!Reference
  <2> QED
    BY <1>1, <1>4, <2>1, <2>2, <2>3
<1>5. ASSUME NEW d \in s.excluded, NEW e \in s.excluded, d[1] = e[1]
      PROVE  d = e
  <2>1. PICK x \in G : d = <<x.id, Sampling!ExclusionReason(x)>>
    BY <1>2
  <2>2. PICK y \in G : e = <<y.id, Sampling!ExclusionReason(y)>>
    BY <1>2
  <2>3. x.id = y.id
    BY <1>5, <2>1, <2>2
  <2>4. x = y
    BY <1>1, <2>3
  <2> QED
    BY <2>1, <2>2, <2>4
<1>6. Sampling!Ids(s.members) \cap Sampling!ExcludedIds(s) = {}
  BY <1>1, <1>3
<1> QED
  BY <1>4, <1>5, <1>6 DEF s

\* The inventory of an authority is accepted when it is read back, where no
\* two of its segments have one name.
LEMMA InventoryIsRead ==
    ASSUME NEW S, Candidates(S), Authority(S) # Sampling!Failed,
           \A s, t \in Authority(S).inventory.segments : s.layout.id = t.layout.id => s = t
    PROVE  Sampling!InventoryAccepted(Authority(S).inventory)
<1> DEFINE i == Authority(S).inventory
           L == {Sampling!LayoutOf(c, "m") : c \in Inside(S)}
<1>1. /\ Built(S) /\ i.manifest = "m" /\ i.segments = {SegmentOf(S, l) : l \in L}
      /\ i.allFields = {d.id : d \in {e \in S : e.year \in Sampling!AllFieldYears /\ Sampling!Eligible(e)}}
      /\ \A s \in i.segments : Sampling!PagesAgree(s.pages)
      /\ \A s, t \in i.segments : s.layout.id = t.layout.id => s = t
  <2>1. /\ Built(S) /\ i.manifest = "m" /\ i.segments = Sampling!Segments(S, "m")
        /\ i.allFields = {d.id : d \in {e \in S : e.year \in Sampling!AllFieldYears /\ Sampling!Eligible(e)}}
    BY AuthorityParts
  <2>2. Sampling!Segments(S, "m") = {SegmentOf(S, l) : l \in L}
    BY SegmentsOf
  <2>3. \A s \in Sampling!Segments(S, "m") : Sampling!PagesAgree(s.pages)
    BY <2>1 DEF Built
  <2> HIDE DEF L
  <2> QED
    BY <2>1, <2>2, <2>3
<1>2. \A l : SegmentOf(S, l).layout = l
  BY DEF SegmentOf
<1>3. \A l : /\ Sampling!Ids(SegmentOf(S, l).members)
                   = {c.id : c \in {d \in GroupOf(S, l) : Sampling!Eligible(d)}}
             /\ Sampling!ExcludedIds(SegmentOf(S, l))
                   = {c.id : c \in {d \in GroupOf(S, l) : ~Sampling!Eligible(d)}}
  BY IdsOf
<1>4. \A l : \A c \in GroupOf(S, l) : c \in S /\ c \in Inside(S) /\ Sampling!LayoutOf(c, "m") = l
  BY DEF GroupOf, Inside
<1>5. \A c, d \in S : c.id = d.id => c = d
  BY <1>1 DEF Built
<1> HIDE DEF i
<1>6. ASSUME NEW s \in i.segments
      PROVE  Sampling!SegmentAccepted(s, i.manifest)
  <2>1. PICK c \in Inside(S) : s = SegmentOf(S, Sampling!LayoutOf(c, "m"))
    BY <1>1
  <2>2. /\ s.layout.kind = "native" => s.layout.manifest = "m"
        /\ s.layout.kind # "native" => c.pages # {}
    BY <1>2, <2>1, LayoutIsWhole
  <2>3. c.pages \subseteq s.pages
    BY <2>1 DEF SegmentOf, Sampling!SegmentPages, GroupOf
  <2>4. /\ \A q, r \in s.members : q.id = r.id => q = r
        /\ \A d, e \in s.excluded : d[1] = e[1] => d = e
        /\ Sampling!Ids(s.members) \cap Sampling!ExcludedIds(s) = {}
    BY <1>1, <2>1, NamedOnce
  <2> QED
    BY <1>1, <2>2, <2>3, <2>4 DEF Sampling!SegmentAccepted
<1> DEFINE IdsIn(s) == Sampling!Ids(s.members) \cup Sampling!ExcludedIds(s)
<1>7. ASSUME NEW l, NEW n \in IdsIn(SegmentOf(S, l))
      PROVE  \E c \in GroupOf(S, l) : c.id = n
  <2>1. CASE n \in Sampling!Ids(SegmentOf(S, l).members)
    <3>1. n \in {c.id : c \in {d \in GroupOf(S, l) : Sampling!Eligible(d)}}
      BY <1>3, <2>1
    <3> QED
      BY <3>1
  <2>2. CASE n \in Sampling!ExcludedIds(SegmentOf(S, l))
    BY <1>3, <2>2
  <2> QED
    BY <2>1, <2>2
<1>8. ASSUME NEW s \in i.segments, NEW t \in i.segments, s # t
      PROVE  /\ s.layout.id # t.layout.id
             /\ Sampling!Ids(s.members) \cap Sampling!Ids(t.members) = {}
             /\ Sampling!ExcludedIds(s) \cap Sampling!ExcludedIds(t) = {}
             /\ Sampling!Ids(s.members) \cap Sampling!ExcludedIds(t) = {}
  <2>1. PICK l : s = SegmentOf(S, l)
    BY <1>1
  <2>2. PICK m : t = SegmentOf(S, m)
    BY <1>1
  <2>3. s.layout.id # t.layout.id
    BY <1>1, <1>8
  <2>4. ASSUME NEW n \in IdsIn(s), n \in IdsIn(t)
        PROVE  FALSE
    <3>1. PICK c \in GroupOf(S, l) : c.id = n
      BY <1>7, <2>1, <2>4
    <3>2. PICK d \in GroupOf(S, m) : d.id = n
      BY <1>7, <2>2, <2>4
    <3>3. c = d
      BY <1>4, <1>5, <3>1, <3>2
    <3>4. l = m
      BY <1>4, <3>1, <3>2, <3>3
    <3> QED
      BY <1>8, <2>1, <2>2, <3>4
  <2> QED
    BY <2>3, <2>4
<1>9. ASSUME NEW s \in i.segments, NEW n \in IdsIn(s), n \in i.allFields
      PROVE  FALSE
  <2>1. PICK l : s = SegmentOf(S, l)
    BY <1>1
  <2>2. PICK c \in GroupOf(S, l) : c.id = n
    BY <1>7, <1>9, <2>1
  <2>3. PICK d \in S : d.id = n /\ d.year \in Sampling!AllFieldYears
    BY <1>1, <1>9
  <2>4. c = d
    BY <1>4, <1>5, <2>2, <2>3
  <2>5. c.year \in Sampling!SampledYears
    BY <1>4, <2>2 DEF Inside, Sampling!InSegment
  <2> QED
    BY <2>3, <2>4, <2>5 DEF Sampling!SampledYears, Sampling!AllFieldYears
<1>10. \A s \in i.segments : i.allFields \cap (Sampling!Ids(s.members) \cup Sampling!ExcludedIds(s)) = {}
  BY <1>9
<1>11. Sampling!InventoryAccepted(i)
  BY <1>6, <1>8, <1>10 DEF Sampling!InventoryAccepted
<1> QED
  BY <1>11 DEF i

\* What a plan is of.
LEMMA PlanParts ==
    ASSUME NEW i, NEW s
    PROVE  LET p == Sampling!PlanOf(i, s)
           IN  /\ p.segment = s.layout.id
               /\ \A k, m : [p EXCEPT !.selected[k] = m].segment = s.layout.id
BY DEF Sampling!PlanOf

LEMMA PlansRead ==
    ASSUME NEW S, Candidates(S)
    PROVE  Sampling!PlansAreRead(Authority(S))
<1> SUFFICES ASSUME Authority(S) # Sampling!Failed,
                    \A s, t \in Authority(S).inventory.segments : s.layout.id = t.layout.id => s = t
             PROVE  /\ Sampling!LoadSamplingAuthority(Authority(S), Authority(S)) = Authority(S)
                    /\ \A p \in Authority(S).plans : \A k \in DOMAIN p.selected : \A m \in p.members :
                         [p EXCEPT !.selected[k] = m] # p =>
                           ~Sampling!PlanAccepted([p EXCEPT !.selected[k] = m], Authority(S).inventory)
  BY DEF Sampling!PlansAreRead
<1> DEFINE a == Authority(S)
           i == a.inventory
           T == {s \in i.segments : s.members # {}}
<1>1. a.plans = {Sampling!PlanOf(i, s) : s \in T}
  BY AuthorityParts
<1>2. Sampling!InventoryAccepted(i)
  BY InventoryIsRead
<1>3. \A s, t \in i.segments : s.layout.id = t.layout.id => s = t
  OBVIOUS
<1> HIDE DEF a, i
<1>4. \A s : /\ Sampling!PlanOf(i, s).segment = s.layout.id
             /\ \A k, m : [Sampling!PlanOf(i, s) EXCEPT !.selected[k] = m].segment = s.layout.id
  BY PlanParts
<1>5. \A p \in a.plans : Sampling!PlanAccepted(p, i)
  BY <1>1, <1>4 DEF Sampling!PlanAccepted
<1>6. {p.segment : p \in a.plans} = {s.layout.id : s \in T}
  <2>1. \A x : x \in {p.segment : p \in a.plans} <=> x \in {s.layout.id : s \in T}
    BY <1>1, <1>4
  <2> QED
    BY <2>1
<1>7. Sampling!AuthorityAccepted(a)
  BY <1>2, <1>5, <1>6 DEF Sampling!AuthorityAccepted, i
<1>8. ASSUME NEW p \in a.plans, NEW k, NEW m, [p EXCEPT !.selected[k] = m] # p,
             Sampling!PlanAccepted([p EXCEPT !.selected[k] = m], i)
      PROVE  FALSE
  <2> DEFINE chosen == [p EXCEPT !.selected[k] = m]
  <2>1. PICK s \in T : p = Sampling!PlanOf(i, s)
    BY <1>1
  <2>2. chosen.segment = s.layout.id
    BY <1>4, <2>1
  <2>3. chosen # p
    BY <1>8
  <2>4. Sampling!PlanAccepted(chosen, i)
    BY <1>8
  <2> HIDE DEF chosen
  <2>5. PICK t \in i.segments : t.layout.id = chosen.segment /\ chosen = Sampling!PlanOf(i, t)
    BY <2>4 DEF Sampling!PlanAccepted
  <2>6. t = s
    BY <1>3, <2>2, <2>5
  <2> QED
    BY <2>1, <2>3, <2>5, <2>6
<1>9. Sampling!LoadSamplingAuthority(a, a) = a
  <2>1. a # Sampling!Failed
    BY DEF a
  <2> QED
    BY <1>7, <2>1 DEF Sampling!LoadSamplingAuthority
<1>10. \A p \in a.plans : \A k \in DOMAIN p.selected : \A m \in p.members :
         [p EXCEPT !.selected[k] = m] # p => ~Sampling!PlanAccepted([p EXCEPT !.selected[k] = m], i)
  BY <1>8
<1> QED
  BY <1>9, <1>10 DEF a, i

\* Of any set of candidates that an authority is built of, every case that is
\* to be reviewed is, none that must not be shown is in a sample, and the plans
\* are read back as they were drawn and in no other way, whatever the size of
\* a sample and the digests it is drawn by (build_sampling_authority,
\* load_sampling_authority).
THEOREM NobodyEverEscapes == Candidates(input.candidates) => NobodyEscapes
BY NoneForgotten, PlansRead DEF NobodyEscapes
-----------------------------------------------------------------------------
(* The citations of a case.                                                *)

\* What is read at a place of legal sources.
LEMMA ReadAtPlace ==
    ASSUME NEW case, NEW sources, NEW p \in Related!Places(sources)
    PROVE  LET r == Related!ExtractLawRefs(case, sources)[p]
               span == sources[p[1]].span
           IN  /\ r.span = span /\ r.ordinal = p[2] /\ r.content = case
               /\ r.ref = Related!LawRef(case, span, p[2])
               /\ r.binding = <<r.ref, span, p[2], case>>
               /\ r = Related!VerifiedLawRef(r.ref, span, p[2], case)
BY DEF Related!ExtractLawRefs, Related!VerifiedLawRef, Related!CanonicalCase

LEMMA PlaceInSource ==
    ASSUME NEW sources, NEW p \in Related!Places(sources)
    PROVE  /\ p = <<p[1], p[2]>> /\ p[1] \in DOMAIN sources
           /\ p[2] \in DOMAIN Related!PrintedCitations(sources[p[1]].raw)
BY DEF Related!Places

LEMMA ReadIsAccepted ==
    ASSUME NEW case, NEW sources, Related!LegalSources(case, sources), NEW p \in Related!Places(sources)
    PROVE  Related!AcceptsLawRef(Related!ExtractLawRefs(case, sources)[p], case)
<1> DEFINE r == Related!ExtractLawRefs(case, sources)[p]
           s == sources[p[1]]
<1>1. /\ r.span = s.span /\ r.ordinal = p[2] /\ r.content = case
      /\ r.ref = Related!LawRef(case, s.span, p[2]) /\ r.binding = <<r.ref, s.span, p[2], case>>
  BY ReadAtPlace
<1>2. p[1] \in DOMAIN sources /\ p[2] \in DOMAIN Related!PrintedCitations(s.raw)
  BY PlaceInSource
<1>3. s.span \in DOMAIN case.spans /\ s.raw = case.spans[s.span] /\ Related!DatesAreReal(s.raw)
  BY <1>2 DEF Related!LegalSources
<1> HIDE DEF r, s
<1>4. /\ r.ref.id = <<case.id, s.span, case.spans[s.span], p[2]>>
      /\ r.ref.case = case.id /\ r.ref.quote = case.spans[s.span] /\ r.ref.span = case.spans[s.span]
      /\ r.ref.citation = Related!PrintedCitations(case.spans[s.span])[p[2]] /\ r.ref.currency = case.currency
  BY <1>1 DEF Related!LawRef, Related!LawRefId
<1>5. Related!AcceptsLawRef(r, case)
  BY <1>1, <1>2, <1>3, <1>4 DEF Related!AcceptsLawRef, Related!CanonicalCase
<1> QED
  BY <1>5 DEF r

\* Two places of one identity are one, where no span was given twice.
LEMMA IdentityOfPlace ==
    ASSUME NEW case, NEW sources, NEW p \in Related!Places(sources), NEW q \in Related!Places(sources),
           \A i, j \in DOMAIN sources : sources[i].span = sources[j].span => i = j,
           Related!ExtractLawRefs(case, sources)[p].ref.id = Related!ExtractLawRefs(case, sources)[q].ref.id
    PROVE  p = q
<1> DEFINE span(x) == sources[x[1]].span
<1>1. \A x \in Related!Places(sources) :
        Related!ExtractLawRefs(case, sources)[x].ref.id = <<case.id, span(x), case.spans[span(x)], x[2]>>
  <2> TAKE x \in Related!Places(sources)
  <2>1. Related!ExtractLawRefs(case, sources)[x].ref = Related!LawRef(case, span(x), x[2])
    BY ReadAtPlace
  <2> QED
    BY <2>1 DEF Related!LawRef, Related!LawRefId
<1>2. span(p) = span(q) /\ p[2] = q[2]
  BY <1>1
<1>3. p = <<p[1], p[2]>> /\ q = <<q[1], q[2]>> /\ p[1] \in DOMAIN sources /\ q[1] \in DOMAIN sources
  BY PlaceInSource
<1>4. p[1] = q[1]
  BY <1>2, <1>3
<1> QED
  BY <1>2, <1>3, <1>4

LEMMA OtherCitation ==
    ASSUME NEW case, NEW span, NEW n, NEW citation
    PROVE  LET ref == Related!LawRef(case, span, n)
           IN  /\ [ref EXCEPT !.citation = citation].quote = case.spans[span]
               /\ [ref EXCEPT !.citation = citation].citation = citation
               /\ citation = Related!PrintedCitations(case.spans[span])[n] => [ref EXCEPT !.citation = citation] = ref
BY DEF Related!LawRef

\* A reference with another citation is accepted only if it is none.
LEMMA MixedIsNone ==
    ASSUME NEW case, NEW sources, NEW p \in Related!Places(sources), NEW citation,
           Related!LegalSources(case, sources)
    PROVE  LET r == Related!ExtractLawRefs(case, sources)[p]
               mixed == Related!VerifiedLawRef([r.ref EXCEPT !.citation = citation], r.span, r.ordinal,
                                               Related!CanonicalCase(case))
           IN  Related!AcceptsLawRef(mixed, case) => mixed = r
<1> DEFINE r == Related!ExtractLawRefs(case, sources)[p]
           span == sources[p[1]].span
           quote == case.spans[span]
           ref == [r.ref EXCEPT !.citation = citation]
           mixed == Related!VerifiedLawRef(ref, r.span, r.ordinal, Related!CanonicalCase(case))
<1> SUFFICES ASSUME Related!AcceptsLawRef(mixed, case)
             PROVE  mixed = r
  OBVIOUS
<1>1. /\ r.span = span /\ r.ordinal = p[2]
      /\ r.ref = Related!LawRef(case, span, p[2])
      /\ r = Related!VerifiedLawRef(r.ref, span, p[2], case)
  BY ReadAtPlace
<1>2. mixed.ref = ref /\ mixed.ordinal = p[2]
  <2> HIDE DEF r, ref
  <2> QED
    BY <1>1 DEF Related!VerifiedLawRef
<1>3. mixed.ref.citation = Related!PrintedCitations(mixed.ref.quote)[mixed.ordinal]
  <2> HIDE DEF mixed
  <2> QED
    BY DEF Related!AcceptsLawRef
<1> HIDE DEF r
<1>4. ref.quote = quote /\ ref.citation = citation
  BY <1>1, OtherCitation
<1>5. citation = Related!PrintedCitations(quote)[p[2]]
  <2> HIDE DEF mixed, ref
  <2> QED
    BY <1>2, <1>3, <1>4
<1>6. ref = r.ref
  <2>1. r.ref = Related!LawRef(case, span, p[2])
    BY <1>1
  <2>2. [Related!LawRef(case, span, p[2]) EXCEPT !.citation = citation] = Related!LawRef(case, span, p[2])
    BY <1>5, OtherCitation
  <2> QED
    BY <2>1, <2>2
<1> HIDE DEF ref
<1> QED
  BY <1>1, <1>6 DEF Related!CanonicalCase

\* A citation that was read of any case is accepted with the very state of it
\* that it was read of, in whatever order the sources were named; it has an
\* identity of its own, and none can be put together of two
\* (extract_law_refs, revalidate_verified_law_ref).
THEOREM CitationsAlwaysBind == EvidenceBinds
<1>1. ASSUME NEW case, NEW changed, NEW sources
      PROVE  Related!CitationsBind(case, changed, sources)
  <2> DEFINE refs == Related!ExtractLawRefs(case, sources)
  <2> SUFFICES ASSUME Related!LegalSources(case, sources)
               PROVE  /\ \A p \in DOMAIN refs :
                           /\ Related!AcceptsLawRef(refs[p], case)
                           /\ changed # case => ~Related!AcceptsLawRef(refs[p], changed)
                      /\ (\A i, j \in DOMAIN sources : sources[i].span = sources[j].span => i = j) =>
                           \A p, q \in DOMAIN refs : refs[p].ref.id = refs[q].ref.id => p = q
                      /\ \A p, q \in DOMAIN refs :
                           LET mixed == Related!VerifiedLawRef([refs[p].ref EXCEPT !.citation = refs[q].ref.citation],
                                                               refs[p].span, refs[p].ordinal, Related!CanonicalCase(case))
                           IN  Related!AcceptsLawRef(mixed, case) => mixed = refs[p]
    BY DEF Related!CitationsBind
  <2>1. DOMAIN refs = Related!Places(sources)
    BY DEF Related!ExtractLawRefs
  <2>2. \A p \in DOMAIN refs : Related!AcceptsLawRef(refs[p], case)
    BY <2>1, ReadIsAccepted
  <2>3. ASSUME NEW p \in DOMAIN refs, changed # case
        PROVE  ~Related!AcceptsLawRef(refs[p], changed)
    <3>1. refs[p].content = case
      BY <2>1, ReadAtPlace
    <3> HIDE DEF refs
    <3> QED
      BY <2>3, <3>1 DEF Related!AcceptsLawRef, Related!CanonicalCase
  <2>4. ASSUME \A i, j \in DOMAIN sources : sources[i].span = sources[j].span => i = j,
               NEW p \in DOMAIN refs, NEW q \in DOMAIN refs, refs[p].ref.id = refs[q].ref.id
        PROVE  p = q
    BY <2>1, <2>4, IdentityOfPlace
  <2>5. ASSUME NEW p \in DOMAIN refs, NEW q \in DOMAIN refs
        PROVE  LET mixed == Related!VerifiedLawRef([refs[p].ref EXCEPT !.citation = refs[q].ref.citation],
                                                   refs[p].span, refs[p].ordinal, Related!CanonicalCase(case))
               IN  Related!AcceptsLawRef(mixed, case) => mixed = refs[p]
    BY <2>1, MixedIsNone
  <2> QED
    BY <2>2, <2>3, <2>4, <2>5
<1> QED
  BY <1>1 DEF EvidenceBinds
=============================================================================
