----------------------- MODULE ResourceRegistry_proofs -----------------------
(* Theorems about ResourceRegistry for any resources and manifests. *)
EXTENDS ResourceRegistry, FiniteSetTheorems, TLAPS

\* TransitionTo yields a state of the table whatever is asked of it.
LEMMA TransitionToType ==
  ASSUME NEW from \in ResourceState, NEW to
  PROVE  TransitionTo(from, to) \in ResourceState
BY DEF TransitionTo, IsValidTransition, ResourceState

\* The paths through the table the operations take.
LEMMA Paths ==
  /\ TransitionTo("pending", "cached") = "cached"
  /\ TransitionTo(TransitionTo(TransitionTo("pending", "downloading"), "verifying"), "cached") = "cached"
  /\ TransitionTo(TransitionTo("pending", "downloading"), "failed") = "failed"
  /\ TransitionTo("cached", "failed") = "failed"
  /\ TransitionTo(TransitionTo("cached", "loading"), "loaded") = "loaded"
  /\ TransitionTo(TransitionTo("cached", "loading"), "failed") = "failed"
BY DEF TransitionTo, IsValidTransition, ResourceState

\* Start and Stop leave alone what is not loaded, and never undo a decision.
LEMMA StartStopPaths ==
  ASSUME NEW from \in Settled \cup {"cached"}, NEW to \in {"started", "stopped"}
  PROVE  /\ TransitionTo(from, to) \in Settled \cup {"cached"}
         /\ TransitionTo(from, to) \in {from, to}
         /\ TransitionTo(from, to) # from => from \in {"loaded", "started", "stopped"}
BY DEF TransitionTo, IsValidTransition, ResourceState, Settled

\* Reload ends in a decided state.
LEMMA ReloadPaths ==
  ASSUME NEW from \in {"started", "stopped"}, NEW to \in {"loaded", "failed"}
  PROVE  /\ TransitionTo(TransitionTo(from, "loading"), to) = to
         /\ TransitionTo(to, "started") \in {to, "started"}
BY DEF TransitionTo, IsValidTransition, ResourceState

LEMMA DoomedAreCached == Doomed \subseteq Cached /\ Cached \subseteq listed
BY DEF Doomed, Cached

\* Whatever is not doomed has only dependencies that are listed, not failed
\* and not doomed.
LEMMA SparedNeedsSpared ==
  ASSUME NEW r \in Cached \ Doomed, NEW d \in deps[r]
  PROVE  d \in listed /\ state[d] # "failed" /\ d \notin Doomed
<1> DEFINE Closed(D) ==
      \A s \in Cached : (\E e \in deps[s] : e \notin listed \/ state[e] = "failed" \/ e \in D) => s \in D
<1>1. PICK D \in SUBSET Cached : Closed(D) /\ r \notin D
  BY DEF Doomed
<1>2. d \in listed /\ state[d] # "failed" /\ d \notin D
  BY <1>1
<1>3. Doomed \subseteq D
  BY <1>1 DEF Doomed
<1> QED BY <1>2, <1>3
-----------------------------------------------------------------------------
(* The invariant *)

\* Every listed resource has been decided, or waits for LoadAll, or has not
\* been looked at.
Decided ==
  \A r \in listed :
    \/ state[r] \in Settled \cup {"cached"}
    \/ phase = "applying" /\ r \in todo

\* What LoadAll has not come to waits for nothing but the rest of that.
WaitsForTodo ==
  phase = "loading" =>
    \A r \in todo : \A d \in deps[r] : d \in listed /\ (state[d] \in Settled \/ d \in todo)

RegistryInv == TypeOK /\ Decided /\ OnlyVerifiedLoads /\ WaitsForTodo

LEMMA InitInv == Init => RegistryInv
BY DEF Init, Files, RegistryInv, TypeOK, Decided, OnlyVerifiedLoads, WaitsForTodo, ResourceState, ErrorKind

LEMMA ApplyManifestInv ==
  ASSUME RegistryInv, NEW m \in Manifests, ApplyManifest(m)
  PROVE  RegistryInv'
<1>1. m.listed \subseteq Resource /\ m.deps \in [Resource -> SUBSET Resource]
  BY ManifestsAssumption DEF ManifestType
<1>2. file' \in [Resource -> FileState]
  BY DEF ApplyManifest, Files
<1>3. TypeOK'
  BY <1>1, <1>2 DEF ApplyManifest, RegistryInv, TypeOK, ResourceState, ErrorKind
<1>4. Decided' /\ OnlyVerifiedLoads' /\ WaitsForTodo'
  BY DEF ApplyManifest, Decided, OnlyVerifiedLoads, WaitsForTodo
<1> QED BY <1>3, <1>4 DEF RegistryInv

LEMMA AcquireInv ==
  ASSUME RegistryInv, NEW r \in Resource, NEW ok \in BOOLEAN, FindCached(r) \/ Download(r, ok)
  PROVE  RegistryInv'
<1>1. phase = "applying" /\ r \in todo /\ r \in listed /\ state[r] = "pending"
  BY DEF FindCached, Download, RegistryInv, TypeOK
<1>2. PICK s \in {"cached", "failed"} :
        /\ state' = [state EXCEPT ![r] = s]
        /\ verified' = IF s = "cached" THEN verified \cup {r} ELSE verified
  BY <1>1, Paths DEF FindCached, Download, RegistryInv, TypeOK
<1>3. todo' = todo \ {r} /\ UNCHANGED <<listed, deps, phase, eligible>>
  BY DEF FindCached, Download
<1>4. file' \in [Resource -> FileState] /\ error' \in [Resource -> ErrorKind]
  BY DEF FindCached, Download, RegistryInv, TypeOK, FileState, ErrorKind
<1>5. TypeOK'
  BY <1>1, <1>2, <1>3, <1>4 DEF RegistryInv, TypeOK, ResourceState
<1>6. Decided' /\ OnlyVerifiedLoads' /\ WaitsForTodo'
  BY <1>1, <1>2, <1>3 DEF RegistryInv, TypeOK, Decided, OnlyVerifiedLoads, WaitsForTodo, Settled
<1> QED BY <1>5, <1>6 DEF RegistryInv

LEMMA LoadAllInv ==
  ASSUME RegistryInv, LoadAll
  PROVE  RegistryInv'
<1> USE DoomedAreCached
<1>1. state' = [r \in Resource |-> IF r \in Doomed THEN "failed" ELSE state[r]]
  BY Paths DEF LoadAll, Cached
<1>2. TypeOK'
  <2>1. error' \in [Resource -> ErrorKind]
    BY DEF LoadAll, RegistryInv, TypeOK, ErrorKind
  <2>2. state' \in [Resource -> ResourceState]
    BY <1>1 DEF RegistryInv, TypeOK, ResourceState
  <2>3. \A r \in Cached \ Doomed : state'[r] = "cached"
    BY <1>1 DEF Cached, RegistryInv, TypeOK
  <2> QED BY <2>1, <2>2, <2>3 DEF LoadAll, RegistryInv, TypeOK
<1>3. Decided' /\ OnlyVerifiedLoads'
  BY <1>1 DEF LoadAll, RegistryInv, TypeOK, Decided, OnlyVerifiedLoads, Settled
<1>4. WaitsForTodo'
  <2> SUFFICES ASSUME NEW r \in Cached \ Doomed, NEW d \in deps[r]
               PROVE  d \in listed /\ (state'[d] \in Settled \/ d \in Cached \ Doomed)
    BY DEF LoadAll, WaitsForTodo
  <2>1. d \in listed /\ d \notin Doomed
    BY SparedNeedsSpared
  <2>2. state[d] \in Settled \/ d \in Cached
    BY <2>1 DEF LoadAll, RegistryInv, Decided, Cached
  <2> QED BY <1>1, <2>1, <2>2 DEF RegistryInv, TypeOK
<1> QED BY <1>2, <1>3, <1>4 DEF RegistryInv

LEMMA ValidateType == \A r : ValidateAndMarkLoaded(r) \in {"loaded", "failed"}
BY DEF ValidateAndMarkLoaded

LEMMA LoadOneInv ==
  ASSUME RegistryInv, NEW r \in Resource, LoadOne(r)
  PROVE  RegistryInv'
<1>1. phase = "loading" /\ r \in todo /\ r \in listed /\ state[r] = "cached"
  BY DEF LoadOne, RegistryInv, TypeOK
<1>2. PICK s \in {"loaded", "failed"} : state' = [state EXCEPT ![r] = s]
  BY <1>1, Paths, ValidateType DEF LoadOne, RegistryInv, TypeOK
<1>3. todo' = todo \ {r} /\ UNCHANGED <<listed, deps, phase, eligible, file, verified>>
  BY DEF LoadOne
<1>4. error' \in [Resource -> ErrorKind]
  BY DEF LoadOne, RegistryInv, TypeOK, ErrorKind
<1>5. TypeOK'
  BY <1>1, <1>2, <1>3, <1>4 DEF RegistryInv, TypeOK, ResourceState
<1>6. Decided' /\ OnlyVerifiedLoads'
  BY <1>1, <1>2, <1>3 DEF RegistryInv, TypeOK, Decided, OnlyVerifiedLoads, Settled
<1>7. WaitsForTodo'
  BY <1>1, <1>2, <1>3 DEF RegistryInv, TypeOK, WaitsForTodo, Settled
<1> QED BY <1>5, <1>6, <1>7 DEF RegistryInv

LEMMA LoadAllEndsInv ==
  ASSUME RegistryInv, LoadAllEnds
  PROVE  RegistryInv'
<1>1. state' = [r \in Resource |-> IF r \in todo THEN "failed" ELSE state[r]]
  BY Paths DEF LoadAllEnds, RegistryInv, TypeOK
<1>2. error' \in [Resource -> ErrorKind]
  BY DEF LoadAllEnds, RegistryInv, TypeOK, ErrorKind
<1>3. TypeOK'
  BY <1>1, <1>2 DEF LoadAllEnds, RegistryInv, TypeOK, ResourceState
<1>4. Decided' /\ OnlyVerifiedLoads' /\ WaitsForTodo'
  BY <1>1 DEF LoadAllEnds, RegistryInv, TypeOK, Decided, OnlyVerifiedLoads, WaitsForTodo, Settled
<1> QED BY <1>3, <1>4 DEF RegistryInv

\* Start, Stop and Reload change one resource, which was loaded before and is
\* decided after.
LEMMA OperateChanges ==
  ASSUME RegistryInv, NEW r \in Resource, Start(r) \/ Stop(r) \/ Reload(r)
  PROVE  /\ phase = "idle" /\ r \in listed
         /\ error' \in [Resource -> ErrorKind]
         /\ UNCHANGED <<listed, deps, phase, todo, eligible, file, verified>>
         /\ \E s \in ResourceState :
              /\ state' = [state EXCEPT ![r] = s]
              /\ s # state[r] => state[r] \in Settled /\ r \in verified /\ s \in Settled
<1>1. phase = "idle" /\ r \in listed /\ UNCHANGED <<listed, deps, phase, todo, eligible, file, verified>>
  BY DEF Start, Stop, Reload
<1>2. state[r] \in Settled \cup {"cached"} /\ state[r] \in ResourceState
  BY <1>1 DEF RegistryInv, Decided, TypeOK
<1>3. error' \in [Resource -> ErrorKind]
  BY DEF Start, Stop, Reload, RegistryInv, TypeOK, ErrorKind
<1>4. ASSUME NEW to \in {"started", "stopped"}, state' = [state EXCEPT ![r] = TransitionTo(@, to)]
      PROVE  \E s \in ResourceState :
               /\ state' = [state EXCEPT ![r] = s]
               /\ s # state[r] => state[r] \in Settled /\ r \in verified /\ s \in Settled
  <2> DEFINE s == TransitionTo(state[r], to)
  <2>1. s \in ResourceState /\ s \in {state[r], to}
    BY <1>2, <1>4, StartStopPaths, TransitionToType
  <2>2. s # state[r] => state[r] \in {"loaded", "started", "stopped"}
    BY <1>2, <1>4, StartStopPaths
  <2>3. s # state[r] => state[r] \in Settled /\ r \in verified /\ s \in Settled
    BY <1>4, <2>1, <2>2 DEF Settled, RegistryInv, OnlyVerifiedLoads
  <2>4. state' = [state EXCEPT ![r] = s]
    BY <1>4 DEF RegistryInv, TypeOK
  <2> HIDE DEF s
  <2> QED BY <2>1, <2>3, <2>4
<1>5. ASSUME Reload(r)
      PROVE  \E s \in ResourceState :
               /\ state' = [state EXCEPT ![r] = s]
               /\ s # state[r] => state[r] \in Settled /\ r \in verified /\ s \in Settled
  <2>1. PICK s \in {"loaded", "failed", "started"} : state' = [state EXCEPT ![r] = s]
    BY <1>5, ReloadPaths, ValidateType DEF Reload
  <2>2. state[r] \in Settled /\ r \in verified
    BY <1>5 DEF Reload, Settled, RegistryInv, OnlyVerifiedLoads
  <2>3. s \in ResourceState /\ s \in Settled
    BY DEF ResourceState, Settled
  <2> QED BY <2>1, <2>2, <2>3
<1>6. \E s \in ResourceState :
               /\ state' = [state EXCEPT ![r] = s]
               /\ s # state[r] => state[r] \in Settled /\ r \in verified /\ s \in Settled
  BY <1>4, <1>5 DEF Start, Stop
<1> QED BY <1>1, <1>3, <1>6

LEMMA OperateInv ==
  ASSUME RegistryInv, NEW r \in Resource, Start(r) \/ Stop(r) \/ Reload(r)
  PROVE  RegistryInv'
<1>1. /\ phase = "idle" /\ r \in listed
      /\ error' \in [Resource -> ErrorKind]
      /\ UNCHANGED <<listed, deps, phase, todo, eligible, file, verified>>
  BY OperateChanges
<1>2. PICK s \in ResourceState :
        /\ state' = [state EXCEPT ![r] = s]
        /\ s # state[r] => state[r] \in Settled /\ r \in verified /\ s \in Settled
  BY OperateChanges
<1>3. TypeOK'
  BY <1>1, <1>2 DEF RegistryInv, TypeOK
<1>4. Decided' /\ OnlyVerifiedLoads' /\ WaitsForTodo'
  BY <1>1, <1>2 DEF RegistryInv, TypeOK, Decided, OnlyVerifiedLoads, WaitsForTodo
<1> QED BY <1>3, <1>4 DEF RegistryInv

LEMMA NextInv == RegistryInv /\ [Next]_vars => RegistryInv'
<1> SUFFICES ASSUME RegistryInv, [Next]_vars PROVE RegistryInv'
  OBVIOUS
<1>1. ASSUME ManifestApplied PROVE RegistryInv'
  BY <1>1 DEF ManifestApplied, RegistryInv, TypeOK, Decided, OnlyVerifiedLoads, WaitsForTodo
<1>2. ASSUME NEW r \in Resource, FileChanges(r) PROVE RegistryInv'
  BY <1>2 DEF FileChanges, RegistryInv, TypeOK, Decided, OnlyVerifiedLoads, WaitsForTodo
<1>3. ASSUME UNCHANGED vars PROVE RegistryInv'
  BY <1>3 DEF vars, RegistryInv, TypeOK, Decided, OnlyVerifiedLoads, WaitsForTodo
<1> QED
  BY <1>1, <1>2, <1>3, ApplyManifestInv, AcquireInv, LoadAllInv, LoadOneInv, LoadAllEndsInv, OperateInv
  DEF Next

LEMMA RegistryInvCorrect == Spec => []RegistryInv
BY InitInv, NextInv, PTL DEF Spec
-----------------------------------------------------------------------------
\* The registry keeps its types, and LoadAll works only on cached resources.
THEOREM RegistryTypeCorrect == Spec => []TypeOK
BY RegistryInvCorrect, PTL DEF RegistryInv

\* Nothing is loaded or started whose bytes never matched the manifest.
THEOREM OnlyVerifiedLoadsCorrect == Spec => []OnlyVerifiedLoads
BY RegistryInvCorrect, PTL DEF RegistryInv

\* LoadAll loads a resource after everything it depends on has been decided,
\* whatever the dependency graph.
THEOREM DependenciesFirstCorrect == Spec => DependenciesFirst
<1> DEFINE First ==
      \A r \in Resource : state[r] = "cached" /\ state'[r] = "loaded" =>
        \A d \in deps[r] : d \in listed /\ state[d] \in Settled
<1>1. RegistryInv /\ [Next]_vars => [First]_vars
  <2> SUFFICES ASSUME RegistryInv, [Next]_vars, NEW r \in Resource,
                      state[r] = "cached", state'[r] = "loaded", NEW d \in deps[r]
               PROVE  d \in listed /\ state[d] \in Settled
    BY DEF RegistryInv
  <2>1. ASSUME NEW s \in Resource, LoadOne(s) PROVE d \in listed /\ state[d] \in Settled
    <3>1. s = r
      BY <2>1 DEF LoadOne, RegistryInv, TypeOK
    <3> QED BY <2>1, <3>1 DEF LoadOne, RegistryInv, WaitsForTodo
  <2>2. ~\E m \in Manifests : ApplyManifest(m)
    BY DEF ApplyManifest
  <2>3. ~\E s \in Resource : FindCached(s) \/ \E ok \in BOOLEAN : Download(s, ok)
    BY Paths DEF FindCached, Download, RegistryInv, TypeOK
  <2>4. ~LoadAll /\ ~LoadAllEnds
    BY Paths, DoomedAreCached DEF LoadAll, LoadAllEnds, RegistryInv, TypeOK, Cached
  <2>5. ~\E s \in Resource : Start(s) \/ Stop(s) \/ Reload(s)
    <3> SUFFICES ASSUME NEW s \in Resource, Start(s) \/ Stop(s) \/ Reload(s) PROVE FALSE
      OBVIOUS
    <3>1. PICK x \in ResourceState :
            /\ state' = [state EXCEPT ![s] = x]
            /\ x # state[s] => state[s] \in Settled /\ s \in verified /\ x \in Settled
      BY OperateChanges
    <3> QED BY <3>1 DEF RegistryInv, TypeOK, Settled
  <2>6. state' # state
    OBVIOUS
  <2> QED
    BY <2>1, <2>2, <2>3, <2>4, <2>5, <2>6 DEF Next, ManifestApplied, FileChanges, vars
<1> QED BY <1>1, RegistryInvCorrect, PTL DEF Spec, DependenciesFirst
-----------------------------------------------------------------------------
(***************************************************************************)
(* LoadAll's outcome, for any dependency graph of finitely many resources: *)
(* what a resource needs, for a graph dp of which el is to be loaded.      *)
(***************************************************************************)

ClosedOver(dp, el, D) == \A e \in D \cap el : dp[e] \subseteq D

NeedsOf(dp, el, r) ==
  {d \in Resource : \A D \in SUBSET Resource : dp[r] \subseteq D /\ ClosedOver(dp, el, D) => d \in D}

LEMMA NeedsIsNeedsOf == \A r : Needs(r) = NeedsOf(deps, eligible, r)
BY DEF Needs, NeedsOf, ClosedOver

LEMMA NeedsDependencies ==
  ASSUME NEW dp \in [Resource -> SUBSET Resource], NEW el, NEW r \in Resource
  PROVE  dp[r] \subseteq NeedsOf(dp, el, r)
BY DEF NeedsOf

\* It is contained in every set that is closed.
LEMMA NeedsLeast ==
  ASSUME NEW dp, NEW el, NEW r,
         NEW D \in SUBSET Resource, dp[r] \subseteq D, ClosedOver(dp, el, D)
  PROVE  NeedsOf(dp, el, r) \subseteq D
BY DEF NeedsOf

LEMMA NeedsClosed ==
  ASSUME NEW dp \in [Resource -> SUBSET Resource], NEW el, NEW r
  PROVE  ClosedOver(dp, el, NeedsOf(dp, el, r))
<1> SUFFICES ASSUME NEW e \in NeedsOf(dp, el, r), e \in el, NEW d \in dp[e]
             PROVE  d \in NeedsOf(dp, el, r)
  BY DEF ClosedOver
<1>1. e \in Resource /\ d \in Resource
  BY DEF NeedsOf
<1>2. ASSUME NEW D \in SUBSET Resource, dp[r] \subseteq D, ClosedOver(dp, el, D) PROVE d \in D
  <2>1. e \in D
    BY <1>2 DEF NeedsOf
  <2> QED BY <1>2, <2>1 DEF ClosedOver
<1> QED BY <1>1, <1>2 DEF NeedsOf

LEMMA NeedsTransitive ==
  ASSUME NEW dp \in [Resource -> SUBSET Resource], NEW el, NEW r, NEW e \in NeedsOf(dp, el, r), e \in el
  PROVE  NeedsOf(dp, el, e) \subseteq NeedsOf(dp, el, r)
<1>1. NeedsOf(dp, el, r) \in SUBSET Resource
  BY DEF NeedsOf
<1>2. ClosedOver(dp, el, NeedsOf(dp, el, r))
  BY NeedsClosed
<1>3. dp[e] \subseteq NeedsOf(dp, el, r)
  BY <1>2 DEF ClosedOver
<1> QED BY <1>1, <1>2, <1>3, NeedsLeast

\* A resource needs its dependencies, and what those of them need that are to
\* be loaded: nothing else.
LEMMA NeedsOneStep ==
  ASSUME NEW dp \in [Resource -> SUBSET Resource], NEW el, NEW r \in Resource, NEW d \in NeedsOf(dp, el, r)
  PROVE  d \in dp[r] \/ \E e \in dp[r] \cap el : d \in NeedsOf(dp, el, e)
<1> DEFINE D == dp[r] \cup UNION {NeedsOf(dp, el, e) : e \in dp[r] \cap el}
<1>1. D \in SUBSET Resource
  BY DEF NeedsOf
<1>2. ClosedOver(dp, el, D)
  <2> SUFFICES ASSUME NEW e \in D, e \in el PROVE dp[e] \subseteq D
    BY DEF ClosedOver
  <2>1. CASE e \in dp[r]
    <3>1. dp[e] \subseteq NeedsOf(dp, el, e)
      BY <1>1, NeedsDependencies
    <3> QED BY <2>1, <3>1
  <2>2. ASSUME NEW s \in dp[r] \cap el, e \in NeedsOf(dp, el, s) PROVE dp[e] \subseteq D
    <3>1. dp[e] \subseteq NeedsOf(dp, el, s)
      BY <2>2, NeedsClosed DEF ClosedOver
    <3> QED BY <3>1
  <2> QED BY <2>1, <2>2
<1>3. NeedsOf(dp, el, r) \subseteq D
  BY <1>1, <1>2, NeedsLeast
<1> QED BY <1>3

\* Where everything waits for something else that waits, whoever waits is part
\* of a cycle or needs one.
LEMMA StuckOnCycle ==
  ASSUME NEW dp \in [Resource -> SUBSET Resource], NEW el \in SUBSET Resource, IsFiniteSet(el),
         NEW T \in SUBSET el, \A t \in T : dp[t] \cap T # {}, NEW r \in T
  PROVE  \E c \in (NeedsOf(dp, el, r) \cup {r}) \cap el : c \in NeedsOf(dp, el, c)
<1> DEFINE N(t) == NeedsOf(dp, el, t) \cap T
           C == (NeedsOf(dp, el, r) \cup {r}) \cap T
           Sets == {N(c) : c \in C}
<1>1. Sets \subseteq FiniteSubsetsOf(el) /\ Sets # {}
  <2>1. SUBSET el = FiniteSubsetsOf(el)
    BY FS_FiniteSubsetsOfFinite
  <2>2. Sets \subseteq SUBSET el
    OBVIOUS
  <2>3. N(r) \in Sets
    OBVIOUS
  <2> HIDE DEF Sets
  <2> QED BY <2>1, <2>2, <2>3
<1>2. PICK S \in Sets : \A U \in Sets : ~(<<U, S>> \in StrictSubsetOrdering(el))
  <2>1. IsWellFoundedOn(StrictSubsetOrdering(el), FiniteSubsetsOf(el))
    BY FS_StrictSubsetOrderingWellFounded
  <2> HIDE DEF Sets
  <2> QED BY <1>1, <2>1, WFMin
<1>3. PICK c \in C : S = N(c)
  OBVIOUS
<1>4. PICK d \in dp[c] \cap T : TRUE
  OBVIOUS
<1>5. d \in N(c)
  BY <1>4, NeedsDependencies
<1>6. N(d) \subseteq N(c)
  BY <1>5, NeedsTransitive
<1>7. d \in C
  <2>1. CASE c = r
    BY <1>5, <2>1
  <2>2. CASE c \in NeedsOf(dp, el, r)
    BY <1>5, <2>2, NeedsTransitive
  <2> QED BY <2>1, <2>2
<1>8. N(d) = N(c)
  <2>1. N(d) \in Sets
    BY <1>7
  <2>2. ~(<<N(d), N(c)>> \in StrictSubsetOrdering(el))
    BY <1>2, <1>3, <2>1
  <2>3. N(d) \in SUBSET el /\ N(c) \in SUBSET el
    OBVIOUS
  <2> HIDE DEF N
  <2> QED BY <1>6, <2>2, <2>3 DEF StrictSubsetOrdering
<1> QED BY <1>5, <1>7, <1>8
-----------------------------------------------------------------------------
(* The invariant of loading *)

\* What the first loop of LoadAll fails: r needs something that cannot be had.
Lacking(r) == \E d \in Needs(r) : d \notin listed \/ (d \notin eligible /\ state[d] = "failed")

OnCycle(r) == \E c \in (Needs(r) \cup {r}) \cap eligible : c \in Needs(c)

\* No file was rejected yet of what LoadAll may load.
NotRejected == \A r \in Resource : state[r] \in {"pending", "cached"} => error[r] # "file"

\* What LoadAll has decided so far is final, and has needed nothing that it has
\* not come to.
Outcome(r) ==
  IF Lacking(r) THEN r \notin todo /\ state[r] = "failed"
  ELSE r \notin todo =>
         /\ Needs(r) \cap todo = {}
         /\ ~OnCycle(r)
         /\ state[r] = IF error[r] = "file" THEN "failed" ELSE "loaded"

GraphInv == NotRejected /\ (phase = "loading" => \A r \in eligible : Outcome(r))

LEMMA GraphInit == Init => GraphInv
BY DEF Init, GraphInv, NotRejected

\* As long as the manifest and what LoadAll set out to load stay, so does what
\* is needed; and so does what is lacking, if only eligible resources change.
LEMMA NeedsFrame ==
  ASSUME UNCHANGED <<deps, eligible>>
  PROVE  \A r : Needs(r)' = Needs(r) /\ (OnCycle(r)' <=> OnCycle(r))
BY DEF Needs, OnCycle

LEMMA LackingFrame ==
  ASSUME UNCHANGED <<listed, deps, eligible>>, \A d \in Resource \ eligible : state'[d] = state[d]
  PROVE  \A r : Lacking(r)' <=> Lacking(r)
<1>1. \A r : Needs(r) \subseteq Resource /\ Needs(r)' = Needs(r)
  BY DEF Needs
<1> QED BY <1>1 DEF Lacking

\* LoadAll fails at once exactly what lacks something.
LEMMA DoomedIsLacking ==
  ASSUME RegistryInv, LoadAll, NEW r \in Cached
  PROVE  r \in Doomed <=> Lacking(r)'
<1> USE DoomedAreCached
<1> DEFINE N(s) == NeedsOf(deps, Cached, s)
           Lacks(s) == \E d \in N(s) : d \notin listed \/ (d \notin Cached /\ state[d] = "failed")
<1>1. deps \in [Resource -> SUBSET Resource] /\ Cached \subseteq Resource
  BY DEF RegistryInv, TypeOK
<1>2. \A s : Lacking(s)' <=> Lacks(s)
  <2>1. \A s : Needs(s)' = N(s)
    BY DEF LoadAll, Needs, NeedsOf, ClosedOver
  <2>2. \A s : N(s) \subseteq Resource
    BY DEF NeedsOf
  <2>3. \A d \in Resource \ Cached : state'[d] = state[d]
    BY DEF LoadAll
  <2> HIDE DEF N
  <2> QED BY <2>1, <2>2, <2>3 DEF LoadAll, Lacking
<1>3. ASSUME r \notin Doomed PROVE ~Lacks(r)
  <2> DEFINE D == {d \in listed : state[d] # "failed" /\ d \notin Doomed}
  <2>1. \A s \in Cached \ Doomed : deps[s] \subseteq D
    BY SparedNeedsSpared
  <2>2. D \in SUBSET Resource /\ deps[r] \subseteq D
    BY <1>3, <2>1 DEF RegistryInv, TypeOK
  <2>3. ClosedOver(deps, Cached, D)
    BY <2>1 DEF ClosedOver
  <2>4. N(r) \subseteq D
    BY <1>1, <2>2, <2>3, NeedsLeast
  <2> QED BY <2>4
<1>4. ASSUME r \in Doomed PROVE Lacks(r)
  <2> DEFINE U == {s \in Cached : Lacks(s)}
  <2>1. ASSUME NEW s \in Cached, NEW d \in deps[s], d \notin listed \/ state[d] = "failed" \/ d \in U
        PROVE  s \in U
    <3>1. d \in N(s)
      BY <1>1, NeedsDependencies
    <3>2. CASE d \in U
      <4>1. N(d) \subseteq N(s)
        BY <1>1, <3>1, <3>2, NeedsTransitive
      <4> QED BY <3>2, <4>1
    <3>3. CASE d \notin listed \/ state[d] = "failed"
      BY <3>1, <3>3 DEF Cached
    <3> QED BY <2>1, <3>2, <3>3
  <2> HIDE DEF Lacks
  <2>2. r \in U
    BY <1>4, <2>1 DEF Doomed
  <2> QED BY <2>2
<1> HIDE DEF Lacks
<1> QED BY <1>2, <1>3, <1>4

LEMMA LoadAllGraph ==
  ASSUME RegistryInv, GraphInv, LoadAll
  PROVE  GraphInv'
<1> USE DoomedAreCached
<1>1. state' = [r \in Resource |-> IF r \in Doomed THEN "failed" ELSE state[r]]
  BY Paths DEF LoadAll, Cached
<1>2. NotRejected'
  BY <1>1 DEF LoadAll, GraphInv, NotRejected
<1>3. ASSUME NEW r \in Cached PROVE Outcome(r)'
  <2>1. r \in Doomed => state'[r] = "failed"
    BY <1>1 DEF RegistryInv, TypeOK
  <2>2. r \in Doomed <=> Lacking(r)'
    BY <1>3, DoomedIsLacking
  <2>3. r \in todo' <=> r \notin Doomed
    BY DEF LoadAll
  <2> QED BY <2>1, <2>2, <2>3 DEF Outcome
<1> QED BY <1>2, <1>3 DEF LoadAll, GraphInv

\* What may be loaded next has only dependencies that are decided for good, so
\* it needs nothing that waits, and no cycle.
LEMMA NextNeedsDecided ==
  ASSUME RegistryInv, GraphInv, NEW r \in Resource, LoadOne(r)
  PROVE  ~Lacking(r) /\ Needs(r) \cap todo = {} /\ ~OnCycle(r)
<1>1. phase = "loading" /\ r \in todo /\ r \in eligible /\ deps[r] \cap todo = {}
  BY DEF LoadOne, RegistryInv, TypeOK
<1>2. \A s \in eligible : Outcome(s)
  BY <1>1 DEF GraphInv
<1>3. ~Lacking(r)
  BY <1>1, <1>2 DEF Outcome
<1>4. deps \in [Resource -> SUBSET Resource]
  BY DEF RegistryInv, TypeOK
<1>5. ASSUME NEW d \in deps[r] \cap eligible
      PROVE  Needs(d) \cap todo = {} /\ ~OnCycle(d)
  <2>1. d \in Needs(r)
    BY <1>4, NeedsDependencies, NeedsIsNeedsOf
  <2>2. Needs(d) \subseteq Needs(r)
    BY <1>4, <2>1, NeedsTransitive, NeedsIsNeedsOf
  <2>3. ~Lacking(d)
    BY <1>3, <2>2 DEF Lacking
  <2> QED BY <1>1, <1>2, <2>3 DEF Outcome
<1>6. ASSUME NEW d \in Needs(r)
      PROVE  d \notin todo /\ (d \in eligible => d \notin Needs(d))
  <2>1. d \in deps[r] \/ \E e \in deps[r] \cap eligible : d \in Needs(e)
    BY <1>4, NeedsOneStep, NeedsIsNeedsOf
  <2> QED BY <1>1, <1>5, <2>1 DEF OnCycle
<1> QED BY <1>1, <1>3, <1>6 DEF OnCycle

LEMMA LoadOneGraph ==
  ASSUME RegistryInv, GraphInv, NEW r \in Resource, LoadOne(r)
  PROVE  GraphInv'
<1>1. phase = "loading" /\ r \in todo /\ r \in eligible /\ state[r] = "cached" /\ error[r] # "file"
  BY DEF LoadOne, RegistryInv, TypeOK, GraphInv, NotRejected
<1>2. state' = [state EXCEPT ![r] = ValidateAndMarkLoaded(r)]
  BY <1>1, Paths, ValidateType DEF LoadOne, RegistryInv, TypeOK
<1>3. error' = [error EXCEPT ![r] = IF Accepted(r) THEN @ ELSE "file"]
  BY DEF LoadOne
<1>4. todo' = todo \ {r} /\ UNCHANGED <<listed, deps, phase, eligible>>
  BY DEF LoadOne
<1>5. state \in [Resource -> ResourceState] /\ error \in [Resource -> ErrorKind] /\ eligible \subseteq Resource
  BY DEF RegistryInv, TypeOK
<1>6. NotRejected'
  BY <1>2, <1>3, <1>5, ValidateType DEF GraphInv, NotRejected
<1>7. ASSUME NEW s \in eligible PROVE Outcome(s)'
  <2>1. Lacking(s)' <=> Lacking(s)
    BY <1>1, <1>2, <1>4, <1>5, LackingFrame
  <2>2. Needs(s)' = Needs(s) /\ (OnCycle(s)' <=> OnCycle(s))
    BY <1>4, NeedsFrame
  <2>3. CASE s = r
    <3>1. ~Lacking(s) /\ Needs(s) \cap todo = {} /\ ~OnCycle(s)
      BY <2>3, NextNeedsDecided
    <3>2. state'[s] = IF error'[s] = "file" THEN "failed" ELSE "loaded"
      BY <1>1, <1>2, <1>3, <1>5, <2>3 DEF ValidateAndMarkLoaded
    <3> QED BY <1>4, <2>1, <2>2, <3>1, <3>2 DEF Outcome
  <2>4. CASE s # r
    <3>1. Outcome(s)
      BY <1>1 DEF GraphInv
    <3>2. state'[s] = state[s] /\ error'[s] = error[s] /\ (s \in todo' <=> s \in todo)
      BY <1>2, <1>3, <1>4, <1>5, <2>4
    <3> QED BY <1>4, <2>1, <2>2, <3>1, <3>2 DEF Outcome
  <2> QED BY <2>3, <2>4
<1> QED BY <1>4, <1>6, <1>7 DEF GraphInv

LEMMA GraphNext == RegistryInv /\ GraphInv /\ [Next]_vars => GraphInv'
<1> SUFFICES ASSUME RegistryInv, GraphInv, [Next]_vars PROVE GraphInv'
  OBVIOUS
<1> USE DEF GraphInv, NotRejected
<1>1. ASSUME NEW m \in Manifests, ApplyManifest(m) PROVE GraphInv'
  BY <1>1 DEF ApplyManifest
<1>2. ASSUME NEW r \in Resource, NEW ok \in BOOLEAN, FindCached(r) \/ Download(r, ok) PROVE GraphInv'
  <2>1. /\ phase' = "applying" /\ state[r] = "pending"
        /\ state \in [Resource -> ResourceState] /\ error \in [Resource -> ErrorKind]
    BY <1>2 DEF FindCached, Download, RegistryInv, TypeOK
  <2>2. NotRejected'
    BY <1>2, <2>1, Paths DEF FindCached, Download
  <2> QED BY <2>1, <2>2
<1>3. ASSUME LoadAllEnds PROVE GraphInv'
  <2>1. state' = [r \in Resource |-> IF r \in todo THEN "failed" ELSE state[r]]
    BY <1>3, Paths DEF LoadAllEnds, RegistryInv, TypeOK
  <2> QED BY <1>3, <2>1 DEF LoadAllEnds
<1>4. ASSUME NEW r \in Resource, Start(r) \/ Stop(r) \/ Reload(r) PROVE GraphInv'
  <2>1. PICK s \in ResourceState :
          /\ state' = [state EXCEPT ![r] = s]
          /\ s # state[r] => state[r] \in Settled /\ r \in verified /\ s \in Settled
    BY <1>4, OperateChanges
  <2>2. \A q \in Resource : error'[q] # error[q] => q = r /\ state[r] \in Settled
    BY <1>4 DEF Start, Stop, Reload, Settled, RegistryInv, TypeOK
  <2>3. phase' = "idle"
    BY <1>4 DEF Start, Stop, Reload
  <2>4. NotRejected'
    <3> SUFFICES ASSUME NEW q \in Resource, state'[q] \in {"pending", "cached"} PROVE error'[q] # "file"
      OBVIOUS
    <3>1. state'[q] = state[q]
      BY <2>1 DEF Settled, RegistryInv, TypeOK
    <3> QED BY <2>2, <3>1 DEF Settled
  <2> QED BY <2>3, <2>4
<1>5. ASSUME ManifestApplied PROVE GraphInv'
  BY <1>5 DEF ManifestApplied
<1>6. ASSUME UNCHANGED <<listed, deps, state, error, phase, todo, eligible>> PROVE GraphInv'
  BY <1>6 DEF Outcome, Lacking, OnCycle, Needs
<1>7. (\E r \in Resource : FileChanges(r)) \/ UNCHANGED vars => GraphInv'
  BY <1>6 DEF FileChanges, vars
<1> HIDE DEF GraphInv, NotRejected
<1> QED BY <1>1, <1>2, <1>3, <1>4, <1>5, <1>7, LoadAllGraph, LoadOneGraph DEF Next

LEMMA GraphInvCorrect == Spec => []GraphInv
BY GraphInit, GraphNext, RegistryInvCorrect, PTL DEF Spec
-----------------------------------------------------------------------------
\* LoadAll decides every resource it set out to load, and fails exactly those
\* that lack something, are part of a cycle or need one, or were rejected
\* themselves: for any graph of finitely many resources.
THEOREM OutcomeCorrect ==
  ASSUME IsFiniteSet(Resource)
  PROVE  Spec => OutcomeMatchesGraph
<1> DEFINE Match ==
      LoadAllEnds =>
        \A r \in eligible :
          state'[r] =
            IF \/ \E d \in Needs(r) : d \notin listed \/ (d \notin eligible /\ state[d] = "failed")
               \/ \E c \in (Needs(r) \cup {r}) \cap eligible : c \in Needs(c)
               \/ error[r] = "file"
            THEN "failed" ELSE "loaded"
<1>1. RegistryInv /\ GraphInv => Match
  <2> SUFFICES ASSUME RegistryInv, GraphInv, LoadAllEnds, NEW r \in eligible
               PROVE  state'[r] = IF Lacking(r) \/ OnCycle(r) \/ error[r] = "file"
                                  THEN "failed" ELSE "loaded"
    BY DEF Lacking, OnCycle
  <2>1. eligible \subseteq Resource /\ todo \subseteq eligible /\ phase = "loading"
    BY DEF LoadAllEnds, RegistryInv, TypeOK
  <2>2. state'[r] = IF r \in todo THEN "failed" ELSE state[r]
    BY <2>1, Paths DEF LoadAllEnds, RegistryInv, TypeOK
  <2>3. Outcome(r)
    BY <2>1 DEF GraphInv
  <2>4. CASE r \in todo
    <3>1. IsFiniteSet(eligible)
      BY <2>1, FS_Subset
    <3>2. deps \in [Resource -> SUBSET Resource] /\ \A t \in todo : deps[t] \cap todo # {}
      BY DEF LoadAllEnds, RegistryInv, TypeOK
    <3>3. OnCycle(r)
      BY <2>1, <2>4, <3>1, <3>2, StuckOnCycle, NeedsIsNeedsOf DEF OnCycle
    <3> QED BY <2>2, <2>4, <3>3
  <2>5. CASE r \notin todo
    BY <2>2, <2>3, <2>5 DEF Outcome
  <2> QED BY <2>4, <2>5
<1>2. OutcomeMatchesGraph <=> [][Match]_vars
  BY DEF OutcomeMatchesGraph
<1>3. RegistryInv /\ GraphInv /\ [Next]_vars => [Match]_vars
  BY <1>1
<1> QED BY <1>2, <1>3, RegistryInvCorrect, GraphInvCorrect, PTL DEF Spec
=============================================================================
