-------------------------- MODULE ResourceRegistry --------------------------
(***************************************************************************)
(* The client's resources: FileResourceManager::ApplyManifest over         *)
(* ResourceRegistry and ResourceState (runtime/src).  All of it runs on    *)
(* the main thread; the files it looks at belong to everybody, and may     *)
(* change between any two of its looks.  An action is what happens between *)
(* two looks at a file.                                                    *)
(*                                                                         *)
(* file[r] is what is on disk, compared with what the current manifest     *)
(* says of r; only the hash tells "tampered" from "good": the size is      *)
(* right, or the manifest says 0, which loading does not compare.          *)
(***************************************************************************)
CONSTANTS
  Resource,   \* resource ids, listed in a manifest or not
  Manifests,  \* what the server may send: the ids listed and their dependencies
  Updates     \* bound: those it may send again later

ManifestType == [listed : SUBSET Resource, deps : [Resource -> SUBSET Resource]]

ASSUME ManifestsAssumption == Manifests \subseteq ManifestType
ASSUME UpdatesAssumption == Updates \subseteq Manifests

VARIABLES
  listed, deps, \* the keys of records_ and their entry.dependencies
  state,        \* record.state
  error,        \* record.error, by its kind
  phase,        \* what the main thread is doing
  todo,         \* the entries it has not come to yet
  eligible,     \* LoadAll()'s eligible
  file,         \* the files
  verified      \* auxiliary: hash and size matched this manifest's once

vars == <<listed, deps, state, error, phase, todo, eligible, file, verified>>

ResourceState ==
  {"pending", "downloading", "verifying", "cached", "loading", "loaded", "started", "stopped",
   "failed"}
ErrorKind == {"none", "download", "dependency", "file", "circular"}
FileState == {"good", "tampered", "resized", "missing"}

IsValidTransition ==
  [from \in ResourceState |->
     CASE from = "pending"     -> {"downloading", "cached", "failed"}
       [] from = "downloading" -> {"verifying", "failed"}
       [] from = "verifying"   -> {"cached", "failed"}
       [] from = "cached"      -> {"loading", "failed"}
       [] from = "loading"     -> {"loaded", "failed"}
       [] from = "loaded"      -> {"started", "failed"}
       [] from = "started"     -> {"stopped", "loading", "failed"}
       [] from = "stopped"     -> {"started", "loading", "failed"}
       [] from = "failed"      -> {}]

\* What the files of the resources in L may be; the others are never looked at.
Files(L) == {f \in [Resource -> FileState] : \A r \in Resource \ L : f[r] = "missing"}

\* ResourceRegistry::TransitionTo: an invalid jump is rejected.
TransitionTo(from, to) == IF to \in IsValidTransition[from] THEN to ELSE from

Init ==
  /\ listed = {}
  /\ deps = [r \in Resource |-> {}]
  /\ state = [r \in Resource |-> "pending"]
  /\ error = [r \in Resource |-> "none"]
  /\ phase = "idle"
  /\ todo = {}
  /\ eligible = {}
  /\ file \in Files({})
  /\ verified = {}
-----------------------------------------------------------------------------
(* ApplyManifest *)

\* LoadManifest() forgets the previous manifest's records; from here on the
\* files, whatever they are, are compared with the new one.
ApplyManifest(m) ==
  /\ phase = "idle"
  /\ listed = {} \/ m \in Updates
  /\ phase' = "applying"
  /\ listed' = m.listed
  /\ deps' = m.deps
  /\ state' = [r \in Resource |-> "pending"]
  /\ error' = [r \in Resource |-> "none"]
  /\ todo' = m.listed
  /\ eligible' = {}
  /\ file' \in Files(m.listed)
  /\ verified' = {}

\* LocalFileMatches().
FindCached(r) ==
  /\ phase = "applying"
  /\ r \in todo
  /\ file[r] = "good"
  /\ state' = [state EXCEPT ![r] = TransitionTo(@, "cached")]
  /\ todo' = todo \ {r}
  /\ verified' = verified \cup {r}
  /\ UNCHANGED <<listed, deps, error, phase, eligible, file>>

\* DownloadAndVerify() puts a verified file in place, or leaves what is there.
Download(r, ok) ==
  /\ phase = "applying"
  /\ r \in todo
  /\ file[r] # "good"
  /\ todo' = todo \ {r}
  /\ LET downloading == TransitionTo(state[r], "downloading")
     IN \/ /\ ok
           /\ state' = [state EXCEPT ![r] = TransitionTo(TransitionTo(downloading, "verifying"), "cached")]
           /\ file' = [file EXCEPT ![r] = "good"]
           /\ verified' = verified \cup {r}
           /\ UNCHANGED error
        \/ /\ ~ok
           /\ state' = [state EXCEPT ![r] = TransitionTo(downloading, "failed")]
           /\ error' = [error EXCEPT ![r] = "download"]
           /\ UNCHANGED <<file, verified>>
  /\ UNCHANGED <<listed, deps, phase, eligible>>

ManifestApplied ==
  /\ phase = "applying"
  /\ todo = {}
  /\ phase' = "idle"
  /\ UNCHANGED <<listed, deps, state, error, todo, eligible, file, verified>>
-----------------------------------------------------------------------------
(* LoadAll *)

Cached == {r \in listed : state[r] = "cached"}

\* What LoadAll()'s first loop fails: the least set of cached resources that
\* holds every one with a dependency that is not listed, failed, or in it.
Doomed ==
  LET Closed(D) ==
        \A r \in Cached :
          (\E d \in deps[r] : d \notin listed \/ state[d] = "failed" \/ d \in D) => r \in D
  IN {r \in Cached : \A D \in SUBSET Cached : Closed(D) => r \in D}

LoadAll ==
  /\ phase = "idle"
  /\ phase' = "loading"
  /\ eligible' = Cached
  /\ state' = [r \in Resource |-> IF r \in Doomed THEN TransitionTo(state[r], "failed") ELSE state[r]]
  /\ error' = [r \in Resource |-> IF r \in Doomed THEN "dependency" ELSE error[r]]
  /\ todo' = Cached \ Doomed
  /\ UNCHANGED <<listed, deps, file, verified>>

\* ValidateAndMarkLoaded() looks at the size alone.
Accepted(r) == file[r] \in {"good", "tampered"}

ValidateAndMarkLoaded(r) == IF Accepted(r) THEN "loaded" ELSE "failed"

\* Mutant: in the order of the ids.
LoadOneUnordered(r) ==
  /\ phase = "loading"
  /\ r \in todo
  /\ state' = [state EXCEPT ![r] = TransitionTo(TransitionTo(@, "loading"), ValidateAndMarkLoaded(r))]
  /\ error' = [error EXCEPT ![r] = IF Accepted(r) THEN @ ELSE "file"]
  /\ todo' = todo \ {r}
  /\ UNCHANGED <<listed, deps, phase, eligible, file, verified>>

\* The next resource of Kahn's queue: its in-degree, the dependencies still to
\* be loaded, has come to 0.  Which of several comes first, the order of
\* their ids, is not modelled.
LoadOne(r) ==
  /\ phase = "loading"
  /\ r \in todo
  /\ deps[r] \cap todo = {}
  /\ state' = [state EXCEPT ![r] = TransitionTo(TransitionTo(@, "loading"), ValidateAndMarkLoaded(r))]
  /\ error' = [error EXCEPT ![r] = IF Accepted(r) THEN @ ELSE "file"]
  /\ todo' = todo \ {r}
  /\ UNCHANGED <<listed, deps, phase, eligible, file, verified>>

\* Mutant: what the queue never reached is left as it is.
LoadAllEndsSilently ==
  /\ phase = "loading"
  /\ \A r \in todo : deps[r] \cap todo # {}
  /\ phase' = "idle"
  /\ todo' = {}
  /\ UNCHANGED <<listed, deps, state, error, eligible, file, verified>>

\* The queue is empty; what it never reached is part of a cycle, or needs one.
LoadAllEnds ==
  /\ phase = "loading"
  /\ \A r \in todo : deps[r] \cap todo # {}
  /\ phase' = "idle"
  /\ state' = [r \in Resource |-> IF r \in todo THEN TransitionTo(state[r], "failed") ELSE state[r]]
  /\ error' = [r \in Resource |-> IF r \in todo THEN "circular" ELSE error[r]]
  /\ todo' = {}
  /\ UNCHANGED <<listed, deps, eligible, file, verified>>
-----------------------------------------------------------------------------
(* Start, Stop, Reload, and what others do to the files *)

Start(r) ==
  /\ phase = "idle"
  /\ r \in listed
  /\ state' = [state EXCEPT ![r] = TransitionTo(@, "started")]
  /\ UNCHANGED <<listed, deps, error, phase, todo, eligible, file, verified>>

Stop(r) ==
  /\ phase = "idle"
  /\ r \in listed
  /\ state' = [state EXCEPT ![r] = TransitionTo(@, "stopped")]
  /\ UNCHANGED <<listed, deps, error, phase, todo, eligible, file, verified>>

\* Mutant: neither guard nor table.
ReloadUnchecked(r) ==
  /\ phase = "idle"
  /\ r \in listed
  /\ state' = [state EXCEPT ![r] = IF @ = "started" THEN @ ELSE ValidateAndMarkLoaded(r)]
  /\ error' = [error EXCEPT ![r] = IF Accepted(r) THEN @ ELSE "file"]
  /\ UNCHANGED <<listed, deps, phase, todo, eligible, file, verified>>

Reload(r) ==
  /\ phase = "idle"
  /\ r \in listed
  /\ state[r] \in {"started", "stopped"}
  /\ LET reloaded == TransitionTo(TransitionTo(state[r], "loading"), ValidateAndMarkLoaded(r))
     IN state' = [state EXCEPT ![r] =
                    IF state[r] = "started" THEN TransitionTo(reloaded, "started") ELSE reloaded]
  /\ error' = [error EXCEPT ![r] = IF Accepted(r) THEN @ ELSE "file"]
  /\ UNCHANGED <<listed, deps, phase, todo, eligible, file, verified>>

FileChanges(r) ==
  /\ r \in listed
  /\ \E f \in FileState : file' = [file EXCEPT ![r] = f]
  /\ UNCHANGED <<listed, deps, state, error, phase, todo, eligible, verified>>

Next ==
  \/ \E m \in Manifests : ApplyManifest(m)
  \/ ManifestApplied
  \/ LoadAll
  \/ LoadAllEnds
  \/ \E r \in Resource :
       \/ FindCached(r)
       \/ \E ok \in BOOLEAN : Download(r, ok)
       \/ LoadOne(r)
       \/ Start(r)
       \/ Stop(r)
       \/ Reload(r)
       \/ FileChanges(r)

Spec == Init /\ [][Next]_vars
-----------------------------------------------------------------------------
(* Properties *)

\* Every variable keeps its type; an entry is looked at once, and what LoadAll
\* has not come to yet is still cached.
TypeOK ==
  /\ listed \subseteq Resource
  /\ deps \in [Resource -> SUBSET Resource]
  /\ state \in [Resource -> ResourceState]
  /\ error \in [Resource -> ErrorKind]
  /\ phase \in {"idle", "applying", "loading"}
  /\ todo \subseteq listed
  /\ eligible \subseteq listed
  /\ file \in [Resource -> FileState]
  /\ verified \subseteq listed
  /\ phase = "idle" => todo = {}
  /\ phase = "applying" => \A r \in todo : state[r] = "pending"
  /\ phase = "loading" => todo \subseteq eligible /\ \A r \in todo : state[r] = "cached"

\* Nothing is cached, loaded or started that did not once match the size and
\* the hash of the manifest in force (ResourceRegistry.h:31-34).
OnlyVerifiedLoads ==
  \A r \in Resource :
    state[r] \in {"cached", "loading", "loaded", "started", "stopped"} => r \in verified

Settled == {"loaded", "started", "stopped", "failed"}

\* LoadAll loads a resource after everything it depends on has been decided.
DependenciesFirst ==
  [][\A r \in Resource : state[r] = "cached" /\ state'[r] = "loaded" =>
       \A d \in deps[r] : d \in listed /\ state[d] \in Settled]_vars

\* What r needs, directly or through other resources LoadAll is to load.
Needs(r) ==
  {d \in Resource : \A D \in SUBSET Resource :
     deps[r] \subseteq D /\ (\A e \in D \cap eligible : deps[e] \subseteq D) => d \in D}

\* LoadAll leaves no resource undecided, and fails one exactly if something it
\* needs is not listed or was failed before, or it is part of a cycle or needs
\* one, or its own file was rejected: everything else loads
\* (ResourceRegistry.h:58-64).
OutcomeMatchesGraph ==
  [][LoadAllEnds =>
       \A r \in eligible :
         state'[r] =
           IF \/ \E d \in Needs(r) : d \notin listed \/ (d \notin eligible /\ state[d] = "failed")
              \/ \E c \in (Needs(r) \cup {r}) \cap eligible : c \in Needs(c)
              \/ error[r] = "file"
           THEN "failed" ELSE "loaded"]_vars

\* "A resource whose dependency ... failed ... is marked Failed": the failure
\* cascades to whatever depends on it (ResourceRegistry.h:59-63).  Not so for a
\* failure found while loading: "file" in OutcomeMatchesGraph fails r alone.
FailureCascades ==
  [][LoadAllEnds =>
       \A r \in eligible : state'[r] = "loaded" => \A d \in deps[r] : state'[d] # "failed"]_vars
=============================================================================
