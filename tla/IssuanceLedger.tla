---------------------------- MODULE IssuanceLedger ----------------------------
(***************************************************************************)
(* What the issuance registry promises, without leases, files or crashes:  *)
(* releases are issued one at a time, each extends the chain, and the life *)
(* of a case id is unissued -> active -> retired, never back.              *)
(***************************************************************************)
EXTENDS IssuanceRecords

VARIABLES records,  \* the current projection
          releases  \* the ledger of issued releases

vars == <<records, releases>>

TypeOK ==
    /\ records \in Projections
    /\ releases \in Ledgers

Init ==
    /\ records = NoRecords
    /\ releases = <<>>

NewRow(release, corpus) ==
    LET predecessor == PredecessorOf(releases, Len(releases) + 1)
        projection == ProjectedRecords(records, corpus, release)
    IN  [release |-> release,
         predecessor |-> predecessor,
         bundle |-> [release |-> release, predecessor |-> predecessor,
                     projection |-> projection,
                     deltas |-> RunDeltas(records, corpus)],
         projection |-> projection]

Issue(release, corpus) ==
    /\ release \notin IssuedIds(releases)
    /\ ~Reactivates(records, corpus)
    /\ records' = ProjectedRecords(records, corpus, release)
    /\ releases' = Append(releases, NewRow(release, corpus))

Next == \E release \in Releases, corpus \in ReviewedCorpora : Issue(release, corpus)

Spec == Init /\ [][Next]_vars

-----------------------------------------------------------------------------
(* A retired case id is never touched again, and an active one keeps the   *)
(* release and the content it was first issued with (projected_records and *)
(* the per-record checks of commit_published_bundle).                      *)
IdentityIsPermanent ==
    [][\A c \in Cases :
         /\ records[c].state = "retired" => records'[c] = records[c]
         /\ records[c].state = "active" =>
               /\ records'[c].state # "unissued"
               /\ records'[c].first_release = records[c].first_release
               /\ records'[c].first_content = records[c].first_content]_records
=============================================================================
