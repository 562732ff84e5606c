---------------------------- MODULE ReviewDecisions ----------------------------
(***************************************************************************)
(* What a manual review promises, without transactions, runs, events,      *)
(* exporters or files: a case is decided by people one rung at a time, and *)
(* what is published are the decisions of one moment, all of them, once.   *)
(***************************************************************************)
CONSTANTS Cases, Restricted, Actors, Uid(_), None

VARIABLES
    decision,   \* of each case: its state and who signed for it
    drafts,     \* whole sets of decisions somebody is about to publish
    published   \* the decisions finalization takes, None before

Undecided == [status |-> "open", critical |-> None, search |-> None, answer |-> None]

Init ==
    /\ decision = [c \in Cases |-> Undecided]
    /\ drafts = {}
    /\ published = None

Verify(d, e, actor) ==
    d.status = "open" /\ d.critical = None /\ e = [d EXCEPT !.critical = actor]

\* Who approves fields that nobody verified has verified them.
ApproveSearch(d, e, actor) ==
    /\ d.status = "open"
    /\ e = [d EXCEPT !.status = "search_approved", !.search = actor,
                     !.critical = IF @ = None THEN actor ELSE @]

\* The last word is another person's.
ApproveAnswer(d, e, actor) ==
    /\ d.status = "search_approved"
    /\ \A signer \in {d.critical, d.search} : signer # None /\ Uid(signer) # Uid(actor)
    /\ e = [d EXCEPT !.status = "approved", !.answer = actor]

Reject(d, e) ==
    d.status \in {"open", "search_approved"} /\ e = [d EXCEPT !.status = "rejected"]

Signs(c, d, e, actor) ==
    \/ e = d
    \/ Verify(d, e, actor)
    \/ c \notin Restricted /\ (ApproveSearch(d, e, actor) \/ ApproveAnswer(d, e, actor))
    \/ Reject(d, e)

\* One person signs for any number of cases at once.
Decide(actor) ==
    /\ \A c \in Cases : Signs(c, decision[c], decision'[c], actor)
    /\ decision' = [c \in Cases |-> decision'[c]]
    /\ UNCHANGED <<drafts, published>>

Complete == \A c \in Cases : decision[c].status # "open"

Draft ==
    /\ \A d \in drafts' \ drafts : d = decision /\ Complete
    /\ UNCHANGED <<decision, published>>

Publish ==
    /\ published = None
    /\ published' \in drafts
    /\ drafts' \subseteq drafts
    /\ UNCHANGED decision

Next == (\E actor \in Actors : Decide(actor)) \/ Draft \/ Publish

Spec == Init /\ [][Next]_<<decision, drafts, published>>
=============================================================================
