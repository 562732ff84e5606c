--------------------------- MODULE ApprovedRelations ---------------------------
(* What is promised of the citations of a case and of a relation between   *)
(* two cases that a reviewer has approved (src/corpus/relations.py).       *)
EXTENDS AlgorithmInput, Integers

Related == INSTANCE Relations

\* The ids of cases are ordered, here as numbers.
IdsAreOrdered == input.a.id \in Nat /\ input.b.id \in Nat

(* A citation is accepted with the case it was read from and with no other *)
(* state of it, in whatever order its sources are named (extract_law_refs, *)
(* revalidate_verified_law_ref).                                           *)
EvidenceBinds ==
    input.alg = "cite" =>
        \A changed \in input.changed : Related!CitationsBind(input.case, changed, input.sources)

(* An approved relation is one whichever case names it, is accepted with   *)
(* the two cases it was approved for, in either order, and with no other   *)
(* state of them (propose_relation, canonicalize_relation,                 *)
(* revalidate_verified_relation).                                          *)
RelationsBind ==
    input.alg = "relate" =>
        Related!ApprovalsBind(input.a, input.b, input.changed, input.type, input.other)
=============================================================================
