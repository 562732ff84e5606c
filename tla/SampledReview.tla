---------------------------- MODULE SampledReview ----------------------------
(* What is promised of a review by sample, for any set of candidates       *)
(* (src/ingestion/review_sampling.py).                                     *)
EXTENDS AlgorithmInput, Integers

CONSTANTS Minimum, OneIn, Score(_, _, _)     \* as in ReviewSampling

Sampling == INSTANCE ReviewSampling

Authority(candidates) ==
    Sampling!BuildSamplingAuthority("r", {Sampling!Reference(c) : c \in candidates}, "p", "w", "m", candidates)

(* The candidates that are built from: of the six years there are, and a   *)
(* page that was read by OCR names a layout of that kind.                  *)
Candidates(S) ==
    \A c \in S : /\ c.year \in 2020 .. 2025 /\ c.source \in {"native", "ocr"}
                 /\ \A p \in c.pages : p.layout.kind = "ocr"

(* No case is left without a way to be reviewed, none that must not be     *)
(* shown is in a sample, the plans that were made are accepted when they   *)
(* are read back, and no sample but the one that is drawn                  *)
(* (build_sampling_authority, load_sampling_authority).                    *)
NobodyEscapes ==
    input.alg = "sample" =>
        /\ Sampling!EveryCaseIsPlaced(Authority(input.candidates), input.candidates)
        /\ Sampling!PlansAreRead(Authority(input.candidates))

(* A segment is approved by sample only after enough of its cases passed   *)
(* and none failed (SamplingReviewLedger).                                 *)
SamplesSpeak ==
    (input.alg = "sample" /\ Authority(input.candidates) # Sampling!Failed) =>
        \A p \in Authority(input.candidates).plans : Sampling!Speaks(p, input.calls)
=============================================================================
