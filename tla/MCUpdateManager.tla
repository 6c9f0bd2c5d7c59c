--------------------------- MODULE MCUpdateManager ---------------------------
EXTENDS UpdateManager, TLC

CONSTANTS exe, dll, pak, r1, r2, e1, e2, d1, p1

\* The second release changes one file of the runtime, to content of the same
\* size, keeps the other, and does not list the resources' file any more.
Components == (exe :> "runtime") @@ (dll :> "runtime") @@ (pak :> "resources")
Releases ==
  (r1 :> ((exe :> e1) @@ (dll :> d1) @@ (pak :> p1))) @@
  (r2 :> ((exe :> e2) @@ (dll :> d1) @@ (pak :> None)))
Versions == [r \in Release |-> [c \in Component |-> r]]
Sizes == (e1 :> 2) @@ (e2 :> 2) @@ (d1 :> 1) @@ (p1 :> 1)
=============================================================================
