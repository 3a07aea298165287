--------------------------- MODULE MCMandateEngine ---------------------------
(* MandateEngine on small instances.  The workers are interchangeable.      *)
EXTENDS MandateEngine

WorkerSymmetry == Permutations(Workers)

=============================================================================
