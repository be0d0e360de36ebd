----------------------------- MODULE MCPipeline -----------------------------
(* Instances of Pipeline for TLC: a coded run, and an uncoded run after it. *)
EXTENDS Pipeline

MCCodec == [r \in Run |-> IF r = 1 THEN "gpcc" ELSE "none"]
=============================================================================
