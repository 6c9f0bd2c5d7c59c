---------------------------- MODULE UpdateManager ----------------------------
(***************************************************************************)
(* One start of the bootstrapper after another: runBootstrapper with the   *)
(* update manager, the downloader, version.json and the launcher           *)
(* (bootstrapper/electron).  It is one sequential program; what makes it   *)
(* hard is that it may end between any two file operations (its window is  *)
(* closed, the machine goes down), that it then starts again on what it    *)
(* left behind, and that others touch the installed files in between.      *)
(*                                                                         *)
(* A release says what each file holds, and each component's version.      *)
(* Content is an atom with a size; a staged file may also be the beginning *)
(* of some content, or junk, the beginning of one and the end of another.  *)
(***************************************************************************)
EXTENDS Integers, FiniteSets

CONSTANTS
  File, Exe,       \* the files, MzzPlorkClient.exe among them
  ComponentOf,     \* "runtime" or "resources"
  Release,
  Listed,          \* Listed[r][f]: the content of f in release r; None: not listed
  VersionOf,       \* VersionOf[r][c]: component c's version in release r
  Content, SizeOf,
  None,            \* no file, no release
  Torn,            \* a version.json that does not parse
  Junk,            \* a staged file put together of two
  MaxAttempts,     \* maxAttemptsPerFile
  MaxPublished     \* bound: releases published after the first

Component == {"runtime", "resources"}

ASSUME FilesAssumption ==
  Exe \in File /\ ComponentOf \in [File -> Component] /\ ComponentOf[Exe] = "runtime"
ASSUME ReleasesAssumption ==
  /\ Listed \in [Release -> [File -> Content \cup {None}]]
  /\ DOMAIN VersionOf = Release /\ \A r \in Release : DOMAIN VersionOf[r] = Component
  /\ SizeOf \in [Content -> Nat]
ASSUME NoneAssumption == None \notin Content \cup Release /\ Torn # None /\ Junk # None
ASSUME BoundsAssumption == MaxAttempts \in Nat \ {0} /\ MaxPublished \in Nat

VARIABLES
  published,  \* the release the update server's manifest describes
  publishings,\* how many more have been published
  target,     \* the installed files: content, None, or "damaged"
  staging,    \* the files below downloads/
  ledger,     \* version.json: a release per component, None or Torn
  pc,
  local,      \* localVersion, the ledger in memory
  first,      \* installState is "first-install"
  manifest,   \* the release fetched, None if none
  accepted,   \* auxiliary: isValidManifest() was true of it
  component,  \* the plan's item in hand
  todo,       \* effectiveToDownload, what is left of it
  stagedFiles,\* stagedPaths, what is left to be moved
  file, attempt,
  results,    \* per component: "none" while not in the plan or not done
  damage,     \* auxiliary: whether others touched the files "never", during "this run" or "before"
  before      \* auxiliary: target when this run started

envVars == <<published, publishings, damage>>
planVars == <<local, first, manifest, accepted, before>>
runVars == <<planVars, component, todo, stagedFiles, file, attempt, results>>
vars == <<envVars, target, staging, ledger, pc, runVars>>

\* "0.0.0" with no files: nothing is installed.
Nothing == "0.0.0"

Part(c) == <<"part", c>>
StagedFile == Content \cup {None, Junk} \cup {Part(c) : c \in Content}

FilesOf(c) == {f \in File : ComponentOf[f] = c}
Recorded(c, f) == IF local[c] = Nothing THEN None ELSE Listed[local[c]][f]
Wanted(f) == Listed[manifest][f]

\* statSizeIfExists() agrees with the manifest.
SizeMatches(f) == target[f] \in Content /\ SizeOf[target[f]] = SizeOf[Wanted(f)]

NoFiles == [f \in File |-> None]
NoRecord == [c \in Component |-> Nothing]
NoResults == [c \in Component |-> "none"]

Init ==
  /\ published \in Release
  /\ publishings = 0
  /\ target = NoFiles
  /\ staging = NoFiles
  /\ ledger = None
  /\ pc = "off"
  /\ local = NoRecord
  /\ first = TRUE
  /\ manifest = None
  /\ accepted = FALSE
  /\ component = "runtime"
  /\ todo = {}
  /\ stagedFiles = {}
  /\ file = Exe
  /\ attempt = 0
  /\ results = NoResults
  /\ damage = "never"
  /\ before = NoFiles
-----------------------------------------------------------------------------
(* Starting: Application Data, version.json, the manifest *)

Goto(label) == pc' = label

\* On to the next step, with everything in memory as it is.
Continue(label) == Goto(label) /\ UNCHANGED runVars

\* The program ends; its variables are gone.
End ==
  /\ pc' = "off"
  /\ local' = NoRecord /\ first' = TRUE /\ manifest' = None /\ accepted' = FALSE
  /\ component' = "runtime"
  /\ todo' = {} /\ stagedFiles' = {} /\ file' = Exe /\ attempt' = 0
  /\ results' = NoResults /\ before' = NoFiles

Begin(record) ==
  /\ Goto("fetching")
  /\ local' = record
  /\ first' = (target[Exe] = None \/ record["runtime"] = Nothing)
  /\ manifest' = None
  /\ accepted' = FALSE
  /\ results' = [c \in Component |-> "none"]
  /\ before' = target
  /\ damage' = IF damage = "this run" THEN "before" ELSE damage
  /\ UNCHANGED <<published, publishings, target, staging, component, todo, stagedFiles, file,
                 attempt>>

\* With a torn version.json JSON.parse throws, and nothing happens.
Start ==
  /\ pc = "off"
  /\ ledger \notin {None, Torn}
  /\ Begin(ledger)
  /\ UNCHANGED ledger

\* readVersion() writes a default version.json, in place.
StartWithoutLedger ==
  /\ pc = "off"
  /\ ledger = None
  /\ ledger' = Torn
  /\ Continue("creating")
  /\ UNCHANGED <<envVars, target, staging>>

CreateLedger ==
  /\ pc = "creating"
  /\ ledger' = [c \in Component |-> Nothing]
  /\ Begin(ledger')

Receive(valid) ==
  /\ manifest' = published
  /\ accepted' = valid
  /\ Goto("planning")
  /\ UNCHANGED <<local, first, component, todo, stagedFiles, file, attempt, results, before>>

Fetch ==
  /\ pc = "fetching"
  /\ Receive(TRUE)
  /\ UNCHANGED <<envVars, target, staging, ledger>>

\* No connection, a reset, a timeout, an HTTP error, or what is no JSON: without
\* a manifest only an existing install is launched.
FetchFails ==
  /\ pc = "fetching"
  /\ IF first THEN End ELSE Continue("launching")
  /\ UNCHANGED <<envVars, target, staging, ledger>>

\* The server closes the connection in the middle of the body.  Then neither "end"
\* nor the request's "error" is emitted, and the promise is never settled: the
\* program waits until it is closed.
FetchHangs ==
  /\ pc = "fetching"
  /\ Continue("hanging")
  /\ UNCHANGED <<envVars, target, staging, ledger>>

\* A manifest that lacks what the schema asks for.  A first install ends; an
\* existing one reports it, and goes on with it all the same, `manifest` being
\* assigned: until what it lacks makes planUpdate throw, or to the end.
FetchInvalid ==
  /\ pc = "fetching"
  /\ IF first THEN End ELSE End \/ Receive(FALSE)
  /\ UNCHANGED <<envVars, target, staging, ledger>>
-----------------------------------------------------------------------------
(* planUpdate: the ledger and the manifest are compared, not the disk *)

Changed(c) == {f \in FilesOf(c) : Wanted(f) # None /\ Recorded(c, f) # Wanted(f)}
Unchanged(c) == {f \in FilesOf(c) : Wanted(f) # None /\ Recorded(c, f) = Wanted(f)}
Obsolete(c) == {f \in FilesOf(c) : Wanted(f) = None /\ Recorded(c, f) # None}

NeedsAction(c) ==
  \/ Changed(c) # {}
  \/ Obsolete(c) # {}
  \/ local[c] = Nothing
  \/ VersionOf[local[c]][c] # VersionOf[manifest][c]

Planned == {c \in Component : NeedsAction(c)}

\* runtime comes before resources.
TakeItem(items) ==
  IF items = {}
  THEN Goto("recording") /\ UNCHANGED component
  ELSE Goto("checking") /\ component' = IF "runtime" \in items THEN "runtime" ELSE "resources"

PlanUpdate ==
  /\ pc = "planning"
  /\ IF Planned = {} THEN Goto("launching") /\ UNCHANGED component ELSE TakeItem(Planned)
  /\ UNCHANGED <<envVars, target, staging, ledger, planVars, todo, stagedFiles, file, attempt,
                 results>>
-----------------------------------------------------------------------------
(* applyUpdate, for the component in hand *)

\* Mutant: the ledger is trusted.
TrustLedger == {}

\* What is recorded as unchanged but is not there, or not of that size.
Missing == {f \in Unchanged(component) : ~SizeMatches(f)}

CheckUnchanged ==
  /\ pc = "checking"
  /\ todo' = Changed(component) \cup Missing
  /\ stagedFiles' = {}
  /\ Goto("staging")
  /\ UNCHANGED <<envVars, target, staging, ledger, planVars, component, file, attempt, results>>

\* Mutant: a file in the staging directory is taken for the right one.
StagedExists(f) == staging[f] \notin {None, Part(Wanted(f))}

\* stagedFileMatches(): size and hash.
StagedMatches(f) == staging[f] = Wanted(f)

TakeStaged(f) ==
  /\ pc = "staging"
  /\ f \in todo
  /\ StagedMatches(f)
  /\ todo' = todo \ {f}
  /\ stagedFiles' = stagedFiles \cup {f}
  /\ UNCHANGED <<envVars, target, staging, ledger, pc, planVars, component, file, attempt,
                 results>>

StartDownload(f) ==
  /\ pc = "staging"
  /\ f \in todo
  /\ ~StagedMatches(f)
  /\ file' = f
  /\ attempt' = 1
  /\ Goto("downloading")
  /\ UNCHANGED <<envVars, target, staging, ledger, planVars, component, todo, stagedFiles,
                 results>>

FinishItem(result) ==
  /\ todo' = {} /\ stagedFiles' = {} /\ file' = Exe /\ attempt' = 0
  /\ results' = [results EXCEPT ![component] = result]
  /\ TakeItem({c \in Planned \ {component} : results[c] = "none"})

\* downloadFile() resolves: size and hash were right.
DownloadSucceeds ==
  /\ pc = "downloading"
  /\ staging' = [staging EXCEPT ![file] = Wanted(file)]
  /\ todo' = todo \ {file}
  /\ stagedFiles' = stagedFiles \cup {file}
  /\ Goto("staging")
  /\ file' = Exe /\ attempt' = 0
  /\ UNCHANGED <<envVars, target, ledger, planVars, component, results>>

RetryOrFail(retryable) ==
  IF retryable /\ attempt < MaxAttempts
  THEN attempt' = attempt + 1 /\ UNCHANGED <<pc, file, component, todo, stagedFiles, results>>
  ELSE FinishItem("failed")

\* Mutant: what failed the check stays.
KeepCorrupted == UNCHANGED staging

UnlinkStaged == staging' = [staging EXCEPT ![file] = None]

\* The complete file is not the right one: what was there was resumed as if it
\* were the beginning of this file, or the server sends something else.
DownloadCorrupted ==
  /\ pc = "downloading"
  /\ UnlinkStaged
  /\ RetryOrFail(TRUE)
  /\ UNCHANGED <<envVars, target, ledger, planVars>>

\* What a download that breaks off leaves of the file: as it was, a beginning,
\* nothing, or the end of one file put after the beginning of another.
Broken ==
  \E left \in {staging[file], Part(Wanted(file)), None}
                \cup IF staging[file] \in {None, Part(Wanted(file))} THEN {} ELSE {Junk} :
    staging' = [staging EXCEPT ![file] = left]

\* No connection, an HTTP error, a reset, a timeout.
DownloadBreaks ==
  /\ pc = "downloading"
  /\ Broken
  /\ \E retryable \in BOOLEAN : RetryOrFail(retryable)
  /\ UNCHANGED <<envVars, target, ledger, planVars>>

\* Mutant: each file is moved as soon as it is staged.
MoveAtOnce(f) ==
  /\ pc = "staging" \/ pc = "moving"
  /\ f \in stagedFiles
  /\ target' = [target EXCEPT ![f] = staging[f]]
  /\ staging' = [staging EXCEPT ![f] = None]
  /\ stagedFiles' = stagedFiles \ {f}
  /\ UNCHANGED <<envVars, ledger, pc, planVars, component, todo, file, attempt, results>>

AllStaged ==
  /\ pc = "staging"
  /\ todo = {}
  /\ Continue("moving")
  /\ UNCHANGED <<envVars, target, staging, ledger>>

MoveIntoPlace(f) ==
  /\ pc = "moving"
  /\ f \in stagedFiles
  /\ target' = [target EXCEPT ![f] = staging[f]]
  /\ staging' = [staging EXCEPT ![f] = None]
  /\ stagedFiles' = stagedFiles \ {f}
  /\ UNCHANGED <<envVars, ledger, pc, planVars, component, todo, file, attempt, results>>

\* rename() throws, out of applyUpdate and out of the run: the file is in use.
MoveFails ==
  /\ pc = "moving"
  /\ stagedFiles # {}
  /\ End
  /\ UNCHANGED <<envVars, target, staging, ledger>>

\* Removing what the manifest no longer lists is best effort.
RemoveObsolete ==
  /\ pc = "moving"
  /\ stagedFiles = {}
  /\ \E removed \in SUBSET Obsolete(component) :
       target' = [f \in File |-> IF f \in removed THEN None ELSE target[f]]
  /\ FinishItem("ok")
  /\ UNCHANGED <<envVars, staging, ledger, planVars>>
-----------------------------------------------------------------------------
(* runBootstrapper: the ledger, the last check, the launch *)

WriteLedger ==
  /\ local' = [c \in Component |-> IF results[c] = "ok" THEN manifest ELSE local[c]]
  /\ ledger' = Torn
  /\ Goto("writing")
  /\ UNCHANGED <<first, manifest, accepted, component, todo, stagedFiles, file, attempt,
                 results, before>>

\* Mutant: a first install goes on without its runtime.
RecordAnyway ==
  /\ pc = "recording"
  /\ WriteLedger
  /\ UNCHANGED <<envVars, target, staging>>

\* writeVersion() writes in place, too.
RecordResults ==
  /\ pc = "recording"
  /\ IF first /\ results["runtime"] = "failed" THEN End /\ UNCHANGED ledger ELSE WriteLedger
  /\ UNCHANGED <<envVars, target, staging>>

LedgerWritten ==
  /\ pc = "writing"
  /\ ledger' = local
  /\ Continue(IF results["runtime"] = "ok" THEN "verifying" ELSE "launching")
  /\ UNCHANGED <<envVars, target, staging>>

\* verifyComponentFiles() of the runtime; only a first install stops at it.
Verified == \A f \in FilesOf("runtime") : Wanted(f) # None => target[f] = Wanted(f)

VerifyRuntime ==
  /\ pc = "verifying"
  /\ IF first /\ ~Verified THEN End ELSE Continue("launching")
  /\ UNCHANGED <<envVars, target, staging, ledger>>

\* launchClient() spawns the client, if its executable exists; the bootstrapper
\* has nothing more to do.
LaunchClient ==
  /\ pc = "launching"
  /\ End
  /\ UNCHANGED <<envVars, target, staging, ledger>>
-----------------------------------------------------------------------------
(* The environment *)

\* The bootstrapper ends at any point of its work.
Crash ==
  /\ pc # "off"
  /\ End
  /\ IF pc = "downloading" THEN Broken ELSE UNCHANGED staging
  /\ UNCHANGED <<envVars, target, ledger>>

Publish(r) ==
  /\ publishings < MaxPublished
  /\ r # published
  /\ published' = r
  /\ publishings' = publishings + 1
  /\ UNCHANGED <<target, staging, ledger, pc, runVars, damage>>

\* Somebody deletes or truncates an installed file, or deletes version.json.
\* Bound: once.
Damage ==
  /\ damage = "never"
  /\ damage' = "this run"
  /\ \/ /\ \E f \in File, left \in {None, "damaged"} :
             target[f] # None /\ target' = [target EXCEPT ![f] = left]
        /\ UNCHANGED ledger
     \/ ledger' = None /\ UNCHANGED target
  /\ UNCHANGED <<published, publishings, staging, pc, runVars>>

Download == DownloadSucceeds \/ DownloadCorrupted \/ DownloadBreaks

Run ==
  \/ CreateLedger
  \/ Fetch \/ FetchFails \/ FetchHangs \/ FetchInvalid
  \/ PlanUpdate
  \/ CheckUnchanged
  \/ \E f \in File : TakeStaged(f) \/ StartDownload(f) \/ MoveIntoPlace(f)
  \/ Download
  \/ AllStaged \/ MoveFails \/ RemoveObsolete
  \/ RecordResults \/ LedgerWritten
  \/ VerifyRuntime
  \/ LaunchClient

Next == Start \/ StartWithoutLedger \/ Run \/ Crash \/ (\E r \in Release : Publish(r)) \/ Damage

Spec == Init /\ [][Next]_vars

\* The program goes on, but for the wait that nothing ends, and is started again
\* when it has ended.
FairSpec == Spec /\ WF_vars(Start \/ StartWithoutLedger) /\ WF_vars(Run)
-----------------------------------------------------------------------------
(* Properties *)

\* Every variable keeps its type; what is staged for a move is staged, and the
\* plan's items are worked off without their neighbours' files.
TypeOK ==
  /\ published \in Release
  /\ publishings \in 0 .. MaxPublished
  /\ target \in [File -> Content \cup {None, "damaged"}]
  /\ staging \in [File -> StagedFile]
  /\ ledger \in [Component -> Release \cup {Nothing}] \cup {None, Torn}
  /\ pc \in {"off", "creating", "fetching", "hanging", "planning", "checking", "staging",
             "downloading", "moving", "recording", "writing", "verifying", "launching"}
  /\ local \in [Component -> Release \cup {Nothing}]
  /\ first \in BOOLEAN
  /\ manifest \in Release \cup {None}
  /\ accepted \in BOOLEAN
  /\ component \in Component
  /\ todo \subseteq FilesOf(component)
  /\ stagedFiles \subseteq FilesOf(component)
  /\ file \in File
  /\ attempt \in 0 .. MaxAttempts
  /\ results \in [Component -> {"none", "ok", "failed"}]
  /\ damage \in {"never", "this run", "before"}
  /\ before \in [File -> Content \cup {None, "damaged"}]

\* What the bootstrapper puts in place of an installed file is, whole, what the
\* manifest in hand lists for it, whatever an earlier run, of another release,
\* left in the staging directory; what it removes the manifest does not list.
OnlyListedInstalled ==
  [][\A f \in File : target'[f] # target[f] /\ UNCHANGED damage =>
       manifest # None /\ target'[f] = Wanted(f)]_vars

\* A component that fails leaves its installed files as they were
\* (updateManager.js:94-103).
FailedIsUntouched ==
  \A c \in Component : results[c] = "failed" /\ damage # "this run" =>
    \A f \in FilesOf(c) : target[f] = before[f]

FilesPresent(c) == \A f \in FilesOf(c) : Wanted(f) # None => SizeMatches(f)

\* A component is reported, and recorded, as updated only with every file of
\* the release in place, at least in its size: those the ledger took for
\* unchanged, too.
UpdatedIsPresent ==
  damage # "this run" =>
    \A c \in Component : results[c] = "ok" => FilesPresent(c)

\* A client is launched after a first install only if every file of its
\* runtime is what the manifest lists; otherwise the install says it failed
\* (bootstrap.js:86-98).
FirstInstallIsVerified ==
  pc = "launching" /\ first /\ target[Exe] # None /\ damage # "this run" => Verified

UpToDate == ledger # None /\ ledger # Torn /\ \A c \in Component :
  /\ ledger[c] # Nothing
  /\ VersionOf[ledger[c]][c] = VersionOf[published][c]
  /\ \A f \in FilesOf(c) : Listed[ledger[c]][f] = Listed[published][f]

\* What a network that answers completely and a disk that works let happen.
\* What is staged of other content is resumed, and found out, or not.
Healthy ==
  \/ Start \/ StartWithoutLedger
  \/ CreateLedger
  \/ Fetch
  \/ PlanUpdate
  \/ CheckUnchanged
  \/ \E f \in File : TakeStaged(f) \/ StartDownload(f) \/ MoveIntoPlace(f)
  \/ /\ pc = "downloading"
     /\ IF staging[file] \in {None, Part(Wanted(file))} THEN DownloadSucceeds ELSE DownloadCorrupted
  \/ AllStaged \/ RemoveObsolete
  \/ RecordResults \/ LedgerWritten
  \/ VerifyRuntime
  \/ LaunchClient

\* Whatever earlier runs, crashes and releases left behind: once nothing
\* breaks any more, the release published is recorded as installed, unless
\* version.json was torn, or the bootstrapper hangs in a fetch that was cut while
\* things still broke (manifest.js:13-25) and nobody closes it.
UpdateCompletes ==
  <>[][Healthy]_vars => <>[](ledger = Torn \/ pc = "hanging" \/ UpToDate)

\* A manifest that "failed schema validation" is an update check that is
\* "unavailable" (bootstrap.js:47, 55): nothing it says is installed or removed.
RejectedNeverInstalled ==
  [][manifest # None /\ ~accepted /\ UNCHANGED damage => UNCHANGED target]_vars
=============================================================================
