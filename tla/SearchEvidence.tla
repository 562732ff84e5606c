---------------------------- MODULE SearchEvidence ----------------------------
(* What is promised of the results of a search, whatever its indexes were  *)
(* built from (src/retrieval/service.py).                                  *)
EXTENDS AlgorithmInput, Integers

CONSTANTS Unit, Limit, MaxRelations, MaxSpans, MaxFlags     \* as in HybridSearch

Hybrid == INSTANCE HybridSearch

(* The lexical index may be of another content of the cases than the store *)
(* that is searched and read.                                              *)
OldIndex(old) == Hybrid!BuildLexical(old, 1)
Points(store) == Hybrid!BuildPoints(store, "r", "e")

(* Only cases that may be shown are named by a search, whatever content    *)
(* its lexical index was built from (SearchService.search).                *)
SearchIsGrounded ==
    input.alg = "search" =>
        Hybrid!AnswersAreGrounded(input.store, OldIndex(input.old), Points(input.store), input.query)

(* Indexes built from the store answer, unless a case that is listed has   *)
(* more relations, spans or flags than a result may have; the context of   *)
(* an answer holds approved answers only, and the fusion that orders an    *)
(* answer respects both rankings (build_lexical_index, build_points,       *)
(* _revalidate_parent apply one rule; select_answer_context;               *)
(* reciprocal_rank_fusion).                                                *)
FreshSearchAnswers ==
    /\ input.alg = "search" =>
         /\ Hybrid!FreshIndexesAnswer(input.store, input.query)
         /\ Hybrid!ContextIsApproved(input.store, OldIndex(input.old), Points(input.store), input.query)
    /\ input.alg = "fuse" => Hybrid!FusionIsMonotone(input.lex, input.dense)
=============================================================================
