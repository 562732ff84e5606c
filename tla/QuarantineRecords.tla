--------------------------- MODULE QuarantineRecords ---------------------------
(***************************************************************************)
(* The decisions about quarantined parser occurrences and the chain they   *)
(* form (ingestion/quarantine_review.py).                                  *)
(***************************************************************************)
EXTENDS Naturals, Sequences

CONSTANTS
    Occurrences,  \* quarantined occurrences of one parser run
    Upstream,     \* those only a new extraction can close
    EventIds,
    Reviewers,    \* uid:<uid>:<name> of the peers the broker allows
    None

ASSUME NoneIsFresh == None \notin Reviewers

\* The hash chain: an event is bound to its predecessors by its place.
Events == [event: EventIds, occurrence: Occurrences, actor: Reviewers]

\* has_exact_occurrence_set: one event for each decided occurrence; and what
\* only the broker checks: no event id twice, no upstream failure decided.
Valid(chain) ==
    /\ \A i \in 1 .. Len(chain) : chain[i].occurrence \notin Upstream
    /\ \A i, j \in 1 .. Len(chain) :
          i # j => /\ chain[i].occurrence # chain[j].occurrence
                   /\ chain[i].event # chain[j].event

\* The digest of one chain commits to the other.
Extends(chain, head) ==
    /\ Len(head) <= Len(chain)
    /\ \A i \in 1 .. Len(head) : chain[i] = head[i]
=============================================================================
