-------------------------- MODULE MCOutputPipeline --------------------------
(* An instance of OutputPipeline for TLC: one foreign ini with winter swaps, one for two  *)
(* seasons, two runs.                                                                   *)
EXTENDS OutputPipeline

MCSeasons(i) == IF i = "birch" THEN {"WIN"} ELSE {"WIN", "SUM"}

=============================================================================
