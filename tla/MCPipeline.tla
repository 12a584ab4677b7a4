----------------------------- MODULE MCPipeline -----------------------------
EXTENDS Pipeline

MCTarball == 1 .. 2
=============================================================================
