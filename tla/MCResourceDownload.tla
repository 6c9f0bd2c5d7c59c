------------------------- MODULE MCResourceDownload -------------------------
EXTENDS ResourceDownload

CONSTANTS empty, short, long

\* One version of no length, two that differ in length.
Sizes == (empty :> 0) @@ (short :> 2) @@ (long :> 3)
=============================================================================
