--------------------------- MODULE IssuanceRecords ---------------------------
(***************************************************************************)
(* The data of the issuance registry (src/corpus/storage.py): the issued   *)
(* case records, the ledger rows, and the pure functions over them that    *)
(* finalize.py, build.py and storage.py share.                             *)
(*                                                                         *)
(* A SHA-256 digest is modelled by the value it digests, so equal digests  *)
(* are equal values.  A predecessor bundle is named by its release id:     *)
(* only issued bundles are predecessors, and an issued bundle is unique    *)
(* for its release id.                                                     *)
(***************************************************************************)
EXTENDS Naturals, Sequences

CONSTANTS
    Releases,   \* release ids
    Cases,      \* case ids
    Contents,   \* canonical content hashes of a case
    None        \* SQL NULL / Python None

ASSUME NoneIsFresh == None \notin Releases \cup Contents

OptRelease == Releases \cup {None}
OptContent == Contents \cup {None}

\* A row of issued_case_ids; "unissued" stands for an absent row.
IssuedCaseRecord ==
    [state: {"unissued", "active", "retired"},
     first_release: OptRelease,
     first_content: OptContent,
     current_content: OptContent,
     retired_release: OptRelease]

Unissued ==
    [state |-> "unissued", first_release |-> None, first_content |-> None,
     current_content |-> None, retired_release |-> None]

Projections == [Cases -> IssuedCaseRecord]
NoRecords == [c \in Cases |-> Unissued]

\* The reviewed cases of a release: the content of each case it contains.
Corpora == [Cases -> OptContent]

\* A batch without cases is refused before anything else looks at it.
ReviewedCorpora == {corpus \in Corpora : \E c \in Cases : corpus[c] # None}

Deltas == [created: SUBSET Cases, changed: SUBSET Cases, deleted: SUBSET Cases]

\* What the manifest of a bundle binds, hence what its digest identifies.
Bundles ==
    [release: Releases, predecessor: OptRelease,
     projection: Projections, deltas: Deltas]

\* A row of issued_releases; its two authority columns are digests of the
\* rows up to it, so they carry nothing the rows do not.
IssuedReleaseRecord ==
    [release: Releases, predecessor: OptRelease,
     bundle: Bundles, projection: Projections]

Ledgers == Seq(IssuedReleaseRecord)

\* The singleton row issuance_meta; authority is the digest of the chain.
IssuanceHeads ==
    [generation: Nat, release: OptRelease, authority: Ledgers]

Genesis == [generation |-> 0, release |-> None, authority |-> <<>>]

-----------------------------------------------------------------------------
\* Mutant of RunDeltas: compares with the first issuance, not the predecessor.
RunDeltasFromFirst(records, corpus) ==
    [created |-> {c \in Cases : corpus[c] # None /\ records[c].state = "unissued"},
     changed |-> {c \in Cases : /\ corpus[c] # None
                                /\ records[c].state = "active"
                                /\ corpus[c] # records[c].first_content},
     deleted |-> {c \in Cases : corpus[c] = None /\ records[c].state = "active"}]

(* Deltas between the issued records and a corpus: _run_deltas in          *)
(* finalize.py, and again the comparison in _validated_batch.              *)
RunDeltas(records, corpus) ==
    [created |-> {c \in Cases : corpus[c] # None /\ records[c].state = "unissued"},
     changed |-> {c \in Cases : /\ corpus[c] # None
                                /\ records[c].state = "active"
                                /\ corpus[c] # records[c].current_content},
     deleted |-> {c \in Cases : corpus[c] = None /\ records[c].state = "active"}]

(* projected_records refuses a corpus that contains a retired case id.     *)
Reactivates(records, corpus) ==
    \E c \in Cases : corpus[c] # None /\ records[c].state = "retired"

ProjectedRecord(record, content, release) ==
    CASE record.state = "active" /\ content = None ->
            [record EXCEPT !.state = "retired", !.retired_release = release]
      [] record.state = "active" /\ content # None ->
            [record EXCEPT !.current_content = content]
      [] record.state = "unissued" /\ content # None ->
            [state |-> "active", first_release |-> release,
             first_content |-> content, current_content |-> content,
             retired_release |-> None]
      [] OTHER -> record

ProjectedRecords(records, corpus, release) ==
    [c \in Cases |-> ProjectedRecord(records[c], corpus[c], release)]

-----------------------------------------------------------------------------
(* The per-record checks and writes of commit_published_bundle.            *)
CommitAccepts(previous, record, release) ==
    CASE previous.state = "unissued" -> TRUE
      [] previous.state = "retired"  -> record = previous
      [] previous.state = "active" /\ record.state = "active" ->
            /\ record.first_release = previous.first_release
            /\ record.first_content = previous.first_content
            /\ record.retired_release = None
      [] previous.state = "active" /\ record.state = "retired" ->
            /\ record.first_release = previous.first_release
            /\ record.first_content = previous.first_content
            /\ record.current_content = previous.current_content
            /\ record.retired_release = release
      [] OTHER -> FALSE

\* Mutant of CommittedRecord: the retiring UPDATE forgets the release.
CommittedRecordForgetsRelease(previous, record) ==
    CASE previous.state = "unissued" -> record
      [] previous.state = "retired"  -> previous
      [] previous.state = "active" /\ record.state = "active" ->
            [previous EXCEPT !.current_content = record.current_content]
      [] OTHER -> [previous EXCEPT !.state = "retired"]

\* Mutant of CommittedRecord: the UPDATE writes both content columns.
CommittedRecordRewritesFirst(previous, record) ==
    IF previous.state = "active" /\ record.state = "active"
    THEN [previous EXCEPT !.first_content = record.current_content,
                          !.current_content = record.current_content]
    ELSE record

CommittedRecord(previous, record) ==
    CASE previous.state = "unissued" -> record
      [] previous.state = "retired"  -> previous
      [] previous.state = "active" /\ record.state = "active" ->
            [previous EXCEPT !.current_content = record.current_content]
      [] OTHER ->
            [previous EXCEPT !.state = "retired",
                             !.retired_release = record.retired_release]

CommitAcceptsAll(previous, projection, release) ==
    \A c \in Cases : CommitAccepts(previous[c], projection[c], release)

CommittedRecords(previous, projection) ==
    [c \in Cases |-> CommittedRecord(previous[c], projection[c])]

-----------------------------------------------------------------------------
IssuedIds(ledger) == {ledger[i].release : i \in DOMAIN ledger}

PredecessorOf(ledger, i) == IF i = 1 THEN None ELSE ledger[i - 1].release

(* The replay of _read_head: the head is accepted only if it continues the *)
(* whole chain and its projection is the stored one.                       *)
ReadHeadAccepts(head, records, ledger) ==
    /\ head.generation = Len(ledger)
    /\ head.authority = ledger
    /\ head.release = PredecessorOf(ledger, Len(ledger) + 1)
    /\ \A i \in DOMAIN ledger : ledger[i].predecessor = PredecessorOf(ledger, i)
    /\ \A i, j \in DOMAIN ledger :
          i # j => /\ ledger[i].release # ledger[j].release
                   /\ ledger[i].bundle # ledger[j].bundle
    /\ IF Len(ledger) = 0 THEN records = NoRecords
                          ELSE ledger[Len(ledger)].projection = records
=============================================================================
