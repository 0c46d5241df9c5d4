--------------------------- MODULE MCWritePipeline ---------------------------
EXTENDS WritePipeline
=============================================================================
