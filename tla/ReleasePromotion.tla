---------------------------- MODULE ReleasePromotion ----------------------------
(***************************************************************************)
(* Promotion of a corpus release (promote_release in src/release.py): a    *)
(* compare-and-swap of the search alias, then the replacement of the       *)
(* manifest current.json, with a roll back of the alias when that fails.   *)
(*                                                                         *)
(* A release has one collection, so both are named by the release id; ids  *)
(* begin with a time stamp, hence the numbers.  The alias lives in Qdrant  *)
(* behind the AliasBackend protocol, whose calls may raise: they have      *)
(* failed, or they took effect and their answer was lost.                  *)
(***************************************************************************)
EXTENDS Naturals

CONSTANTS
    Releases,   \* release ids
    First,      \* the release that was set up before any promotion
    Promoters   \* processes that call promote_release

ASSUME ReleasesAreOrdered == Releases \subseteq Nat /\ First \in Releases

VARIABLES
    alias,      \* collection behind education-admin-current
    current,    \* release of current.json
    pending,    \* releases that have a pending-<release>.json
    doubtful,   \* releases that a promotion may have left the alias at, as it said
    pc, job     \* control state and arguments of the promoters

vars == <<alias, current, pending, doubtful, pc, job>>

Steps == {"idle", "called", "manifest", "alias", "pending", "swapped", "rollback"}

\* Error codes that do not say where the alias is; no other code does so.
Doubts == {"alias_update_failed", "alias_rollback_failed"}

Jobs == [release: Releases, expected: Releases]

TypeOK ==
    /\ alias \in Releases
    /\ current \in Releases
    /\ pending \subseteq Releases
    /\ doubtful \subseteq Releases
    /\ pc \in [Promoters -> Steps]
    /\ job \in [Promoters -> Jobs]

Init ==
    /\ alias = First
    /\ current = First
    /\ pending = {}
    /\ doubtful = {}
    /\ pc = [p \in Promoters |-> "idle"]
    /\ job = [p \in Promoters |-> [release |-> First, expected |-> First]]

Goto(p, step) == pc' = [pc EXCEPT ![p] = step]

Fail(p, code) ==
    /\ Goto(p, "idle")
    /\ doubtful' = IF code \in Doubts THEN doubtful \cup {job[p].release} ELSE doubtful

\* The caller has looked up what is current and passes it as the expected one.
Call(p, release) ==
    /\ pc[p] = "idle"
    /\ release # current
    /\ job' = [job EXCEPT ![p] = [release |-> release, expected |-> current]]
    /\ Goto(p, "called")
    /\ UNCHANGED <<alias, current, pending, doubtful>>

CheckManifest(p) ==
    /\ pc[p] = "called"
    /\ IF current = job[p].expected
       THEN Goto(p, "manifest") /\ UNCHANGED doubtful
       ELSE Fail(p, "current_manifest_invalid")
    /\ UNCHANGED <<alias, current, pending, job>>

\* current_target, which may also raise.
CheckAlias(p) ==
    /\ pc[p] = "manifest"
    /\ \/ /\ alias = job[p].expected
          /\ Goto(p, "alias") /\ UNCHANGED doubtful
       \/ Fail(p, "alias_compare_failed")
    /\ UNCHANGED <<alias, current, pending, job>>

\* open("xb") fails over a pending manifest that an earlier call left behind;
\* where the write or its fsync fails, the file stays.
CreatePending(p) ==
    /\ pc[p] = "alias"
    /\ \/ /\ job[p].release \notin pending
          /\ pending' = pending \cup {job[p].release}
          /\ Goto(p, "pending") /\ UNCHANGED doubtful
       \/ /\ pending' \in {pending, pending \cup {job[p].release}}
          /\ Fail(p, "pending_manifest_failed")
    /\ UNCHANGED <<alias, current, job>>

\* Mutant of Swap: the alias is set without a comparison.
SwapBlindly(p) ==
    /\ pc[p] = "pending"
    /\ alias' = job[p].release
    /\ Goto(p, "swapped")
    /\ UNCHANGED <<current, pending, doubtful, job>>

\* compare_and_swap succeeds, or it does not say so: it has refused or failed,
\* or has moved the alias and its answer is lost.  Then the pending manifest is
\* unlinked, if that succeeds, and nobody looks at the alias again.
Swap(p) ==
    /\ pc[p] = "pending"
    /\ \/ /\ alias = job[p].expected
          /\ alias' = job[p].release
          /\ Goto(p, "swapped")
          /\ UNCHANGED <<pending, doubtful>>
       \/ /\ \/ UNCHANGED alias
             \/ alias = job[p].expected /\ alias' = job[p].release
          /\ pending' \in {pending, pending \ {job[p].release}}
          /\ Fail(p, "alias_update_failed")
    /\ UNCHANGED <<current, job>>

\* os.replace(pending, current.json).
Replace(p) ==
    /\ pc[p] = "swapped"
    /\ \/ /\ current' = job[p].release
          /\ pending' = pending \ {job[p].release}
          /\ Goto(p, "idle")
       \/ Goto(p, "rollback") /\ UNCHANGED <<current, pending>>
    /\ UNCHANGED <<alias, doubtful, job>>

\* Mutant of RollBack: a failed roll back is not told from a successful one.
RollBackSilently(p) ==
    /\ pc[p] = "rollback"
    /\ alias' \in {alias, job[p].expected}
    /\ Fail(p, "manifest_replace_failed")
    /\ UNCHANGED <<current, pending, job>>

\* The alias is swapped back, or the call does not say so; the pending manifest
\* stays.
RollBack(p) ==
    /\ pc[p] = "rollback"
    /\ \/ /\ alias = job[p].release
          /\ alias' = job[p].expected
          /\ Fail(p, "manifest_replace_failed")
       \/ /\ \/ UNCHANGED alias
             \/ alias = job[p].release /\ alias' = job[p].expected
          /\ Fail(p, "alias_rollback_failed")
    /\ UNCHANGED <<current, pending, job>>

-----------------------------------------------------------------------------
Promote(p) ==
    \/ CheckManifest(p)
    \/ CheckAlias(p)
    \/ CreatePending(p)
    \/ Swap(p)
    \/ Replace(p)
    \/ RollBack(p)

GoesBack(p) == pc[p] # "idle" /\ job[p].release < job[p].expected

\* docs/runbooks/index-release.md asks for an exclusive broker.  Here only a
\* promotion that goes back to an older release has to be alone.
Admitted(release) ==
    IF release > current THEN \A q \in Promoters : ~GoesBack(q)
                         ELSE \A q \in Promoters : pc[q] = "idle"

Next ==
    \E p \in Promoters :
        \/ \E release \in Releases : Admitted(release) /\ Call(p, release)
        \/ Promote(p)

Spec == Init /\ [][Next]_vars

-----------------------------------------------------------------------------
(* When no promotion is under way, the alias and the manifest name the     *)
(* same release (reconcile_release_state is ready), unless the promotion   *)
(* of the very release that the alias is at has returned a code that does  *)
(* not say where the alias is: a swap that lost its answer, or a failed    *)
(* roll back.  No other failure may leave them apart.                      *)
QuietAgreement ==
    (\A p \in Promoters : pc[p] = "idle") => alias = current \/ alias \in doubtful

(* The manifest is replaced without a comparison, yet nobody's promotion   *)
(* is lost: it still names the release the promotion was checked against,  *)
(* because only one promoter at a time gets past the swap of the alias.    *)
ManifestFollowsExpected ==
    [][\E p \in Promoters : job[p].release = current' /\ job[p].expected = current]_current
=============================================================================
