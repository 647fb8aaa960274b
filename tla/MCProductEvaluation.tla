------------------------ MODULE MCProductEvaluation ------------------------
(* Two batches, so that a shape of an earlier one may be returned again.    *)
EXTENDS ProductEvaluation

TwoBatches == <<2, 1>>
=============================================================================
