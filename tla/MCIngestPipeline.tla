-------------------------- MODULE MCIngestPipeline --------------------------
(* The pipeline with interchangeable workers, for TLC. *)
EXTENDS IngestPipeline, TLC

Symmetry == Permutations(Workers)
=============================================================================
