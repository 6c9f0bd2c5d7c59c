------------------------- MODULE MCResourceRegistry -------------------------
(* Small instances of ResourceRegistry for TLC. *)
EXTENDS ResourceRegistry, TLC

CONSTANTS r1, r2, r3

Resources == {r1, r2, r3}

Graphs(L) == {d \in [Resources -> SUBSET Resources] : \A r \in Resources \ L : d[r] = {}}

\* Every graph of two listed resources, which may need themselves or one that
\* is not listed, and every graph of three that do not need themselves.
SmallManifests ==
  UNION {{[listed |-> L, deps |-> d] : d \in Graphs(L)} : L \in {Resources \ {r} : r \in Resources}}
  \cup {[listed |-> Resources, deps |-> d] :
          d \in {g \in Graphs(Resources) : \A r \in Resources : r \notin g[r]}}

NoDeps == {[listed |-> Resources, deps |-> [r \in Resources |-> {}]]}

ResourceIds == Permutations(Resources)
=============================================================================
