------------------------ MODULE UpdateManager_proofs ------------------------
(* Theorems about UpdateManager for any releases, files and bounds. *)
EXTENDS UpdateManager, TLAPS

Busy == {"staging", "downloading", "moving"}
Working == Busy \cup {"checking"}
Before == {"off", "creating", "fetching", "planning"}

\* How the loops of a run stand: only what the manifest lists is still to be
\* staged or moved, what is to be moved is staged in full, and an item of the
\* plan is worked off once.
Loops ==
  /\ pc \in Working \cup {"planning", "recording", "writing", "verifying"} => manifest \in Release
  /\ pc \notin Busy => todo = {} /\ stagedFiles = {}
  /\ \A f \in todo \cup stagedFiles : Wanted(f) # None
  /\ todo \cap stagedFiles = {}
  /\ pc = "downloading" => file \in todo
  /\ pc = "moving" => todo = {}
  /\ \A f \in stagedFiles : staging[f] = Wanted(f)
  /\ pc \in Before => results = NoResults
  /\ pc \in Working => results[component] = "none"

RunInv == TypeOK /\ Loops

LEMMA InitInv == Init => RunInv
<1> SUFFICES ASSUME Init PROVE RunInv
  OBVIOUS
<1>1. attempt \in 0 .. MaxAttempts /\ publishings \in 0 .. MaxPublished
  BY BoundsAssumption DEF Init
<1>2. TypeOK
  BY <1>1, FilesAssumption
  DEF Init, TypeOK, NoFiles, NoRecord, NoResults, StagedFile, Component
<1>3. Loops
  BY DEF Init, Loops, Busy, Working, Before
<1> QED BY <1>2, <1>3 DEF RunInv

\* A run that ends leaves files of the right kind and nothing in memory.
LEMMA EndKeeps ==
  ASSUME RunInv, End, UNCHANGED <<published, publishings, damage, target>>,
         staging' \in [File -> StagedFile],
         ledger' \in [Component -> Release \cup {Nothing}] \cup {None, Torn}
  PROVE  RunInv'
<1>1. TypeOK'
  <2>1. attempt' \in 0 .. MaxAttempts
    BY BoundsAssumption DEF End
  <2>2. results' \in [Component -> {"none", "ok", "failed"}] /\ local' \in [Component -> Release \cup {Nothing}]
    BY DEF End, NoResults, NoRecord
  <2>3. before' \in [File -> Content \cup {None, "damaged"}]
    BY DEF End, NoFiles
  <2>4. component' \in Component /\ file' \in File
    BY FilesAssumption DEF End, Component
  <2> QED
    BY <2>1, <2>2, <2>3, <2>4 DEF RunInv, TypeOK, End
<1>2. Loops'
  BY DEF Loops, End, Busy, Working, Before
<1> QED BY <1>1, <1>2 DEF RunInv

LEMMA TakeItemTakes ==
  ASSUME NEW items \in SUBSET Component, component \in Component, TakeItem(items)
  PROVE  /\ component' \in Component
         /\ \/ pc' = "recording" /\ items = {} /\ component' = component
            \/ /\ pc' = "checking" /\ component' \in items
               /\ "runtime" \in items => component' = "runtime"
BY DEF TakeItem, Goto, Component

LEMMA FinishKeeps ==
  ASSUME RunInv, pc \in Busy, NEW result \in {"ok", "failed"}, FinishItem(result),
         UNCHANGED <<envVars, ledger, planVars>>,
         staging' \in [File -> StagedFile],
         target' \in [File -> Content \cup {None, "damaged"}]
  PROVE  RunInv'
<1> DEFINE items == {c \in Planned \ {component} : results[c] = "none"}
<1>1. /\ todo' = {} /\ stagedFiles' = {} /\ file' = Exe /\ attempt' = 0
      /\ results' = [results EXCEPT ![component] = result]
      /\ TakeItem(items)
  BY DEF FinishItem
<1>2. /\ component' \in Component
      /\ \/ pc' = "recording"
         \/ pc' = "checking" /\ component' \in items
  <2>1. items \in SUBSET Component
    BY DEF Planned
  <2> QED BY <1>1, <2>1, TakeItemTakes DEF RunInv, TypeOK
<1>3. attempt' \in 0 .. MaxAttempts /\ file' \in File
  BY <1>1, BoundsAssumption, FilesAssumption
<1>4. results' \in [Component -> {"none", "ok", "failed"}]
  BY <1>1 DEF RunInv, TypeOK
<1>5. TypeOK'
  BY <1>1, <1>2, <1>3, <1>4 DEF RunInv, TypeOK, envVars, planVars
<1>6. pc' = "checking" => results'[component'] = "none"
  BY <1>1, <1>2 DEF RunInv, TypeOK
<1>7. Loops'
  BY <1>1, <1>2, <1>6 DEF RunInv, Loops, Busy, Working, Before, planVars
<1> QED BY <1>5, <1>7 DEF RunInv

LEMMA BrokenKeeps ==
  ASSUME RunInv, pc = "downloading", Broken
  PROVE  /\ staging' \in [File -> StagedFile]
         /\ \A f \in File \ {file} : staging'[f] = staging[f]
<1>1. PICK left \in {staging[file], Part(Wanted(file)), None}
                \cup IF staging[file] \in {None, Part(Wanted(file))} THEN {} ELSE {Junk} :
        staging' = [staging EXCEPT ![file] = left]
  BY DEF Broken
<1>2. Wanted(file) \in Content
  <2>1. file \in todo /\ file \in File /\ manifest \in Release /\ Wanted(file) # None
    BY DEF RunInv, Loops, TypeOK, Busy, Working
  <2> QED BY <2>1, ReleasesAssumption DEF Wanted
<1>3. left \in StagedFile
  <2>1. staging[file] \in StagedFile
    BY DEF RunInv, TypeOK
  <2>2. {Part(Wanted(file)), None, Junk} \subseteq StagedFile
    BY <1>2 DEF StagedFile
  <2> QED BY <1>1, <2>1, <2>2
<1> QED BY <1>1, <1>3 DEF RunInv, TypeOK

LEMMA DownloadKeeps ==
  ASSUME RunInv, Download PROVE RunInv'
<1>1. pc = "downloading" /\ file \in todo /\ file \in FilesOf(component) /\ todo \subseteq FilesOf(component)
  BY DEF Download, DownloadSucceeds, DownloadCorrupted, DownloadBreaks, RunInv, TypeOK, Loops
<1>2. file \in File /\ Wanted(file) \in Content
  <2>1. manifest \in Release /\ Wanted(file) # None /\ file \in File
    BY <1>1 DEF RunInv, Loops, TypeOK, Busy, Working
  <2> QED BY <2>1, ReleasesAssumption DEF Wanted
<1>3. CASE DownloadSucceeds
  <2>1. /\ staging' = [staging EXCEPT ![file] = Wanted(file)]
        /\ todo' = todo \ {file} /\ stagedFiles' = stagedFiles \cup {file}
        /\ pc' = "staging" /\ file' = Exe /\ attempt' = 0
        /\ UNCHANGED <<envVars, target, ledger, planVars, component, results>>
    BY <1>3 DEF DownloadSucceeds, Goto
  <2>2. staging' \in [File -> StagedFile]
    BY <1>2, <2>1 DEF RunInv, TypeOK, StagedFile
  <2>3. TypeOK'
    <3>1. attempt' \in 0 .. MaxAttempts /\ file' \in File
      BY <2>1, BoundsAssumption, FilesAssumption
    <3>2. FilesOf(component)' = FilesOf(component)
      BY <2>1 DEF FilesOf
    <3> QED BY <1>1, <2>1, <2>2, <3>1, <3>2 DEF RunInv, TypeOK, envVars, planVars
  <2>4. \A f \in stagedFiles' : staging'[f] = Wanted(f)'
    <3>1. \A f \in stagedFiles : f \in File /\ staging[f] = Wanted(f)
      BY DEF RunInv, TypeOK, Loops, FilesOf
    <3>2. staging \in [File -> StagedFile] /\ manifest' = manifest
      BY <2>1 DEF RunInv, TypeOK, planVars
    <3> QED BY <1>2, <2>1, <3>1, <3>2 DEF Wanted
  <2>5. \A f \in todo' \cup stagedFiles' : Wanted(f)' # None
    <3>1. \A f \in todo \cup stagedFiles : Wanted(f) # None
      BY DEF RunInv, Loops
    <3>2. todo' \cup stagedFiles' \subseteq todo \cup stagedFiles /\ manifest' = manifest
      BY <1>1, <2>1 DEF planVars
    <3> QED BY <3>1, <3>2 DEF Wanted
  <2>6. todo' \cap stagedFiles' = {} /\ manifest' \in Release /\ results'[component'] = "none"
    BY <1>1, <2>1 DEF RunInv, Loops, Busy, Working, planVars
  <2>7. Loops'
    BY <2>1, <2>4, <2>5, <2>6 DEF Loops, Busy, Working, Before
  <2> QED BY <2>3, <2>7 DEF RunInv
<1>4. ASSUME NEW retryable \in BOOLEAN, RetryOrFail(retryable),
             staging' \in [File -> StagedFile], \A f \in File \ {file} : staging'[f] = staging[f],
             UNCHANGED <<envVars, target, ledger, planVars>>
      PROVE  RunInv'
  <2>1. CASE retryable /\ attempt < MaxAttempts
    <3>1. attempt' = attempt + 1 /\ UNCHANGED <<pc, file, component, todo, stagedFiles, results>>
      BY <1>4, <2>1 DEF RetryOrFail
    <3>2. attempt' \in 0 .. MaxAttempts
      <4>1. attempt < MaxAttempts
        BY <2>1
      <4>2. attempt \in 0 .. MaxAttempts
        BY DEF RunInv, TypeOK
      <4> QED BY <3>1, <4>1, <4>2, BoundsAssumption
    <3>3. TypeOK'
      <4>1. FilesOf(component)' = FilesOf(component)
        BY <3>1 DEF FilesOf
      <4>2. UNCHANGED <<published, publishings, damage, target, ledger, local, first, manifest, accepted,
                        before, pc, file, component, todo, stagedFiles, results>>
        BY <1>4, <3>1 DEF envVars, planVars
      <4> QED BY <1>4, <3>2, <4>1, <4>2 DEF RunInv, TypeOK
    <3>4. \A f \in stagedFiles : staging'[f] = staging[f]
      BY <1>1, <1>4 DEF RunInv, Loops, TypeOK, FilesOf
    <3>5. Loops'
      BY <1>4, <3>1, <3>4 DEF RunInv, Loops, Wanted, planVars
    <3> QED BY <3>3, <3>5 DEF RunInv
  <2>2. CASE ~(retryable /\ attempt < MaxAttempts)
    <3>1. FinishItem("failed")
      BY <1>4, <2>2 DEF RetryOrFail
    <3> QED BY <1>1, <1>4, <3>1, FinishKeeps DEF RunInv, TypeOK, Busy
  <2> QED BY <2>1, <2>2
<1>5. CASE DownloadCorrupted
  <2>1. staging' = [staging EXCEPT ![file] = None]
    BY <1>5 DEF DownloadCorrupted, UnlinkStaged
  <2>2. staging' \in [File -> StagedFile] /\ \A f \in File \ {file} : staging'[f] = staging[f]
    <3>1. None \in StagedFile
      BY DEF StagedFile
    <3> QED BY <2>1, <3>1 DEF RunInv, TypeOK
  <2> QED BY <1>4, <1>5, <2>2 DEF DownloadCorrupted
<1>6. CASE DownloadBreaks
  <2>1. staging' \in [File -> StagedFile] /\ \A f \in File \ {file} : staging'[f] = staging[f]
    BY <1>1, <1>6, BrokenKeeps DEF DownloadBreaks
  <2> QED BY <1>4, <1>6, <2>1 DEF DownloadBreaks
<1> QED BY <1>3, <1>5, <1>6 DEF Download

\* The steps that only say where the program goes on.
LEMMA ContinueKeeps ==
  ASSUME RunInv, NEW label \in {"creating", "hanging", "launching", "verifying"}, Continue(label),
         pc \notin Busy, label = "verifying" => pc = "writing", label = "creating" => pc = "off",
         UNCHANGED <<envVars, target, staging>>,
         ledger' \in [Component -> Release \cup {Nothing}] \cup {None, Torn}
  PROVE  RunInv'
<1>1. pc' = label /\ UNCHANGED <<planVars, component, todo, stagedFiles, file, attempt, results>>
  BY DEF Continue, Goto, runVars
<1>2. TypeOK'
  BY <1>1 DEF RunInv, TypeOK, envVars, planVars, FilesOf
<1>3. Loops'
  BY <1>1 DEF RunInv, Loops, Busy, Working, Before, planVars, Wanted
<1> QED BY <1>2, <1>3 DEF RunInv

LEMMA BeginKeeps ==
  ASSUME RunInv, pc \in {"off", "creating"}, NEW record \in [Component -> Release \cup {Nothing}],
         Begin(record), ledger' = record
  PROVE  RunInv'
<1>1. /\ pc' = "fetching" /\ local' = record /\ first' \in BOOLEAN /\ manifest' = None
      /\ accepted' = FALSE /\ results' = NoResults /\ before' = target
      /\ damage' \in {"never", "this run", "before"}
      /\ UNCHANGED <<published, publishings, target, staging, component, todo, stagedFiles, file,
                     attempt>>
  BY DEF Begin, Goto, NoResults, RunInv, TypeOK
<1>2. TypeOK'
  <2>1. results' \in [Component -> {"none", "ok", "failed"}]
    BY <1>1 DEF NoResults
  <2> QED BY <1>1, <2>1 DEF RunInv, TypeOK, FilesOf
<1>3. Loops'
  BY <1>1 DEF RunInv, Loops, Busy, Working, Before
<1> QED BY <1>2, <1>3 DEF RunInv

LEMMA RunKeeps ==
  ASSUME RunInv, Run PROVE RunInv'
<1>1. CASE CreateLedger
  <2>1. [c \in Component |-> Nothing] \in [Component -> Release \cup {Nothing}]
    OBVIOUS
  <2> QED BY <1>1, <2>1, BeginKeeps DEF CreateLedger
<1>2. ASSUME NEW valid \in BOOLEAN, pc = "fetching", Receive(valid),
             UNCHANGED <<envVars, target, staging, ledger>>
      PROVE  RunInv'
  <2>1. TypeOK'
    BY <1>2 DEF Receive, Goto, RunInv, TypeOK, envVars, FilesOf
  <2>2. todo = {} /\ stagedFiles = {} /\ results = NoResults /\ published \in Release
    BY <1>2 DEF RunInv, Loops, Busy, Before, TypeOK
  <2>3. Loops'
    BY <1>2, <2>2 DEF Receive, Goto, Loops, Busy, Working, Before
  <2> QED BY <2>1, <2>3 DEF RunInv
<1>3. CASE Fetch
  BY <1>2, <1>3 DEF Fetch
<1>4. ASSUME End, UNCHANGED <<envVars, target, staging, ledger>> PROVE RunInv'
  BY <1>4, EndKeeps DEF envVars, RunInv, TypeOK
<1>5. CASE FetchFails \/ FetchHangs
  BY <1>4, <1>5, ContinueKeeps DEF FetchFails, FetchHangs, Busy, RunInv, TypeOK
<1>6. CASE FetchInvalid
  BY <1>2, <1>4, <1>6 DEF FetchInvalid
<1>7. CASE PlanUpdate
  <2>1. pc = "planning" /\ todo = {} /\ stagedFiles = {} /\ results = NoResults /\ manifest \in Release
    BY <1>7 DEF PlanUpdate, RunInv, Loops, Busy, Before, Working
  <2>2. pc' \in {"launching", "recording", "checking"} /\ component' \in Component
    <3>1. component \in Component /\ Planned \in SUBSET Component
      BY DEF RunInv, TypeOK, Planned
    <3> QED BY <1>7, <3>1, TakeItemTakes DEF PlanUpdate, Goto
  <2>3. UNCHANGED <<envVars, target, staging, ledger, planVars, todo, stagedFiles, file, attempt, results>>
    BY <1>7 DEF PlanUpdate
  <2>4. TypeOK'
    BY <2>1, <2>2, <2>3 DEF RunInv, TypeOK, envVars, planVars
  <2>5. results'[component'] = "none"
    BY <2>1, <2>2, <2>3 DEF NoResults
  <2>6. Loops'
    BY <2>1, <2>2, <2>3, <2>5 DEF Loops, Busy, Working, Before, planVars
  <2> QED BY <2>4, <2>6 DEF RunInv
<1>8. CASE CheckUnchanged
  <2>1. /\ pc = "checking" /\ pc' = "staging" /\ stagedFiles' = {}
        /\ todo' = Changed(component) \cup Missing
        /\ UNCHANGED <<envVars, target, staging, ledger, planVars, component, file, attempt, results>>
    BY <1>8 DEF CheckUnchanged, Goto
  <2>2. todo' \subseteq FilesOf(component) /\ \A f \in todo' : Wanted(f) # None
    BY <2>1 DEF Changed, Missing, Unchanged
  <2>3. TypeOK'
    BY <2>1, <2>2 DEF RunInv, TypeOK, envVars, planVars, FilesOf
  <2>4. Loops'
    BY <2>1, <2>2 DEF RunInv, Loops, Busy, Working, Before, planVars, Wanted
  <2> QED BY <2>3, <2>4 DEF RunInv
<1>9. ASSUME NEW f \in File, TakeStaged(f) PROVE RunInv'
  <2>1. /\ pc = "staging" /\ f \in todo /\ staging[f] = Wanted(f)
        /\ todo' = todo \ {f} /\ stagedFiles' = stagedFiles \cup {f}
        /\ UNCHANGED <<envVars, target, staging, ledger, pc, planVars, component, file, attempt, results>>
    BY <1>9 DEF TakeStaged, StagedMatches
  <2>2. TypeOK'
    <3>1. FilesOf(component)' = FilesOf(component)
      BY <2>1 DEF FilesOf
    <3> QED BY <2>1, <3>1 DEF RunInv, TypeOK, envVars, planVars
  <2>3. Loops'
    BY <2>1 DEF RunInv, Loops, Busy, Working, Before, planVars, Wanted
  <2> QED BY <2>2, <2>3 DEF RunInv
<1>10. ASSUME NEW f \in File, StartDownload(f) PROVE RunInv'
  <2>1. /\ pc = "staging" /\ f \in todo /\ file' = f /\ attempt' = 1 /\ pc' = "downloading"
        /\ UNCHANGED <<envVars, target, staging, ledger, planVars, component, todo, stagedFiles, results>>
    BY <1>10 DEF StartDownload, Goto
  <2>2. attempt' \in 0 .. MaxAttempts
    BY <2>1, BoundsAssumption
  <2>3. TypeOK'
    BY <2>1, <2>2 DEF RunInv, TypeOK, envVars, planVars, FilesOf
  <2>4. Loops'
    BY <2>1 DEF RunInv, Loops, Busy, Working, Before, planVars, Wanted
  <2> QED BY <2>3, <2>4 DEF RunInv
<1>11. CASE Download
  BY <1>11, DownloadKeeps
<1>12. CASE AllStaged
  <2>1. pc = "staging" /\ todo = {} /\ pc' = "moving" /\ UNCHANGED <<envVars, target, staging, ledger, runVars>>
    BY <1>12 DEF AllStaged, Continue, Goto
  <2>2. TypeOK'
    BY <2>1 DEF RunInv, TypeOK, envVars, runVars, planVars, FilesOf
  <2>3. Loops'
    BY <2>1 DEF RunInv, Loops, Busy, Working, Before, runVars, planVars, Wanted
  <2> QED BY <2>2, <2>3 DEF RunInv
<1>13. ASSUME NEW f \in File, MoveIntoPlace(f) PROVE RunInv'
  <2>1. /\ pc = "moving" /\ f \in stagedFiles
        /\ target' = [target EXCEPT ![f] = staging[f]] /\ staging' = [staging EXCEPT ![f] = None]
        /\ stagedFiles' = stagedFiles \ {f}
        /\ UNCHANGED <<envVars, ledger, pc, planVars, component, todo, file, attempt, results>>
    BY <1>13 DEF MoveIntoPlace
  <2>2. staging[f] \in Content
    <3>1. staging[f] = Wanted(f) /\ Wanted(f) # None /\ manifest \in Release
      BY <2>1 DEF RunInv, Loops, Busy, Working
    <3> QED BY <3>1, ReleasesAssumption DEF Wanted
  <2>3. target' \in [File -> Content \cup {None, "damaged"}] /\ staging' \in [File -> StagedFile]
    <3>1. None \in StagedFile
      BY DEF StagedFile
    <3> QED BY <2>1, <2>2, <3>1 DEF RunInv, TypeOK
  <2>4. TypeOK'
    BY <2>1, <2>3 DEF RunInv, TypeOK, envVars, planVars, FilesOf
  <2>5. \A g \in stagedFiles' : staging'[g] = Wanted(g)'
    <3>1. \A g \in stagedFiles : g \in File /\ staging[g] = Wanted(g)
      BY DEF RunInv, TypeOK, Loops, FilesOf
    <3>2. staging \in [File -> StagedFile] /\ manifest' = manifest
      BY <2>1 DEF RunInv, TypeOK, planVars
    <3> QED BY <2>1, <3>1, <3>2 DEF Wanted
  <2>6. Loops'
    BY <2>1, <2>5 DEF RunInv, Loops, Busy, Working, Before, planVars, Wanted
  <2> QED BY <2>4, <2>6 DEF RunInv
<1>14. CASE MoveFails
  BY <1>4, <1>14 DEF MoveFails
<1>15. CASE RemoveObsolete
  <2>1. PICK removed \in SUBSET Obsolete(component) :
          target' = [f \in File |-> IF f \in removed THEN None ELSE target[f]]
    BY <1>15 DEF RemoveObsolete
  <2>2. target' \in [File -> Content \cup {None, "damaged"}]
    BY <2>1 DEF RunInv, TypeOK
  <2> QED BY <1>15, <2>2, FinishKeeps DEF RemoveObsolete, Busy, RunInv, TypeOK
<1>16. CASE RecordResults
  <2>1. CASE first /\ results["runtime"] = "failed"
    BY <1>4, <1>16, <2>1 DEF RecordResults
  <2>2. CASE ~(first /\ results["runtime"] = "failed")
    <3>1. /\ pc = "recording" /\ pc' = "writing" /\ ledger' = Torn
          /\ local' = [c \in Component |-> IF results[c] = "ok" THEN manifest ELSE local[c]]
          /\ UNCHANGED <<first, manifest, accepted, component, todo, stagedFiles, file, attempt,
                         results, before, envVars, target, staging>>
      BY <1>16, <2>2 DEF RecordResults, WriteLedger, Goto
    <3>2. manifest \in Release
      BY <3>1 DEF RunInv, Loops
    <3>3. TypeOK'
      BY <3>1, <3>2 DEF RunInv, TypeOK, envVars, FilesOf
    <3>4. Loops'
      BY <3>1 DEF RunInv, Loops, Busy, Working, Before, Wanted
    <3> QED BY <3>3, <3>4 DEF RunInv
  <2> QED BY <2>1, <2>2
<1>17. CASE LedgerWritten
  BY <1>17, ContinueKeeps DEF LedgerWritten, Busy, RunInv, TypeOK
<1>18. CASE VerifyRuntime
  BY <1>4, <1>18, ContinueKeeps DEF VerifyRuntime, Busy, RunInv, TypeOK
<1>19. CASE LaunchClient
  BY <1>4, <1>19 DEF LaunchClient
<1> QED
  BY <1>1, <1>3, <1>5, <1>6, <1>7, <1>8, <1>9, <1>10, <1>11, <1>12, <1>13, <1>14, <1>15, <1>16,
     <1>17, <1>18, <1>19 DEF Run

LEMMA NextInv ==
  ASSUME RunInv, [Next]_vars PROVE RunInv'
<1>1. CASE Start
  <2>1. ledger \in [Component -> Release \cup {Nothing}]
    BY <1>1 DEF Start, RunInv, TypeOK
  <2> QED BY <1>1, <2>1, BeginKeeps DEF Start
<1>2. CASE StartWithoutLedger
  BY <1>2, ContinueKeeps DEF StartWithoutLedger, Busy
<1>3. CASE Run
  BY <1>3, RunKeeps
<1>4. CASE Crash
  <2>1. staging' \in [File -> StagedFile]
    BY <1>4, BrokenKeeps DEF Crash, RunInv, TypeOK
  <2> QED BY <1>4, <2>1, EndKeeps DEF Crash, envVars, RunInv, TypeOK
<1>5. ASSUME NEW r \in Release, Publish(r) PROVE RunInv'
  <2>1. publishings' \in 0 .. MaxPublished /\ published' \in Release
    <3>1. publishings \in 0 .. MaxPublished
      BY DEF RunInv, TypeOK
    <3>2. publishings < MaxPublished /\ publishings' = publishings + 1 /\ published' = r
      BY <1>5 DEF Publish
    <3> QED BY <3>1, <3>2, BoundsAssumption
  <2>2. UNCHANGED <<target, staging, ledger, pc, runVars, damage>>
    BY <1>5 DEF Publish
  <2>3. TypeOK'
    BY <2>1, <2>2 DEF RunInv, TypeOK, runVars, planVars, FilesOf
  <2>4. Loops'
    BY <2>2 DEF RunInv, Loops, runVars, planVars, Wanted
  <2> QED BY <2>3, <2>4 DEF RunInv
<1>6. CASE Damage
  <2>1. /\ damage' = "this run"
        /\ target' \in [File -> Content \cup {None, "damaged"}]
        /\ ledger' \in {ledger, None}
        /\ UNCHANGED <<published, publishings, staging, pc, runVars>>
    BY <1>6 DEF Damage, RunInv, TypeOK
  <2>2. TypeOK'
    BY <2>1 DEF RunInv, TypeOK, runVars, planVars, FilesOf
  <2>3. Loops'
    BY <2>1 DEF RunInv, Loops, runVars, planVars, Wanted
  <2> QED BY <2>2, <2>3 DEF RunInv
<1>7. CASE UNCHANGED vars
  <2>1. TypeOK'
    BY <1>7 DEF RunInv, TypeOK, vars, envVars, runVars, planVars, FilesOf
  <2>2. Loops'
    BY <1>7 DEF RunInv, Loops, vars, runVars, planVars, Wanted
  <2> QED BY <2>1, <2>2 DEF RunInv
<1> QED BY <1>1, <1>2, <1>3, <1>4, <1>5, <1>6, <1>7 DEF Next

\* Every variable keeps its type; a plan's item never works on another's files.
THEOREM UpdateTypeCorrect == Spec => []TypeOK
<1>1. RunInv => TypeOK
  BY DEF RunInv
<1> QED BY <1>1, InitInv, NextInv, PTL DEF Spec
-----------------------------------------------------------------------------
(* What happens to an installed file *)

\* The files of one component are not another's.
LEMMA OthersFiles ==
  ASSUME NEW c \in Component, NEW d \in Component, c # d, NEW f \in FilesOf(c)
  PROVE  f \notin FilesOf(d)
BY DEF FilesOf

\* Every step leaves the installed files alone but for a move, a removal, or
\* damage.
LEMMA TargetSteps ==
  ASSUME [Next]_vars
  PROVE  \/ UNCHANGED target
         \/ Damage
         \/ \E f \in File : MoveIntoPlace(f)
         \/ RemoveObsolete
<1>1. ASSUME Download PROVE UNCHANGED target
  BY <1>1 DEF Download, DownloadSucceeds, DownloadCorrupted, DownloadBreaks
<1>2. ASSUME NEW r \in Release, Publish(r) PROVE UNCHANGED target
  BY <1>2 DEF Publish
<1>3. CASE Start \/ StartWithoutLedger \/ Crash \/ UNCHANGED vars
  BY <1>3 DEF Start, Begin, StartWithoutLedger, Crash, vars
<1>4. CASE \/ CreateLedger \/ Fetch \/ FetchFails \/ FetchHangs \/ FetchInvalid
           \/ PlanUpdate \/ CheckUnchanged \/ AllStaged
  BY <1>4
  DEF CreateLedger, Begin, Fetch, FetchFails, FetchHangs, FetchInvalid, PlanUpdate, CheckUnchanged,
      AllStaged
<1>5. ASSUME NEW f \in File, TakeStaged(f) \/ StartDownload(f) PROVE UNCHANGED target
  BY <1>5 DEF TakeStaged, StartDownload
<1>6. CASE MoveFails \/ RecordResults \/ LedgerWritten \/ VerifyRuntime \/ LaunchClient
  BY <1>6 DEF MoveFails, RecordResults, LedgerWritten, VerifyRuntime, LaunchClient
<1> QED BY <1>1, <1>2, <1>3, <1>4, <1>5, <1>6 DEF Next, Run

\* What is put in place of an installed file is what the manifest lists, whole.
THEOREM OnlyListedCorrect == Spec => OnlyListedInstalled
<1> DEFINE Step == \A f \in File : target'[f] # target[f] /\ UNCHANGED damage =>
                     manifest # None /\ target'[f] = Wanted(f)
<1>1. ASSUME RunInv, [Next]_vars PROVE [Step]_vars
  <2>1. CASE UNCHANGED target
    BY <2>1
  <2>2. CASE Damage
    BY <2>2 DEF Damage
  <2>3. ASSUME NEW g \in File, MoveIntoPlace(g) PROVE Step
    <3>1. pc = "moving" /\ g \in stagedFiles /\ target' = [target EXCEPT ![g] = staging[g]]
      BY <2>3 DEF MoveIntoPlace
    <3>2. manifest \in Release /\ staging[g] = Wanted(g) /\ target \in [File -> Content \cup {None, "damaged"}]
      BY <1>1, <3>1 DEF RunInv, TypeOK, Loops, Busy, Working
    <3> QED BY <3>1, <3>2, NoneAssumption
  <2>4. CASE RemoveObsolete
    <3>1. PICK removed \in SUBSET Obsolete(component) :
            target' = [f \in File |-> IF f \in removed THEN None ELSE target[f]]
      BY <2>4 DEF RemoveObsolete
    <3>2. manifest \in Release
      BY <1>1, <2>4 DEF RemoveObsolete, RunInv, Loops, Busy, Working
    <3> QED BY <3>1, <3>2, NoneAssumption DEF Obsolete
  <2> QED BY <1>1, <2>1, <2>2, <2>3, <2>4, TargetSteps
<1> QED BY <1>1, InitInv, NextInv, PTL DEF Spec, OnlyListedInstalled
-----------------------------------------------------------------------------
(* What a run reports of its components *)

\* A step of a run, by what it does to the installed files and to the results.
Ends == pc' = "off" /\ results' = NoResults /\ UNCHANGED <<target, damage>>

Begins ==
  /\ pc' = "fetching" /\ results' = NoResults
  /\ before' = target /\ UNCHANGED target
  /\ first' = (target[Exe] = None \/ local'["runtime"] = Nothing)

Damages == damage' = "this run" /\ UNCHANGED <<pc, runVars>>

GoesOn ==
  /\ UNCHANGED <<target, before, damage, component, results, first>>
  /\ \/ pc' = pc /\ UNCHANGED <<local, manifest>>
     \/ pc = "off" /\ pc' = "creating" /\ UNCHANGED <<local, manifest>>
     \/ pc = "fetching" /\ pc' = "planning" /\ UNCHANGED local
     \/ pc = "fetching" /\ pc' = "hanging" /\ UNCHANGED <<local, manifest>>
     \/ pc = "fetching" /\ pc' = "launching" /\ ~first
     \/ pc = "planning" /\ pc' = "launching" /\ Planned = {} /\ UNCHANGED <<local, manifest>>
     \/ pc = "checking" /\ pc' = "staging" /\ UNCHANGED <<local, manifest>>
     \/ pc \in {"staging", "downloading"} /\ pc' \in Busy /\ UNCHANGED <<local, manifest>>
     \/ /\ pc = "recording" /\ pc' = "writing" /\ UNCHANGED manifest
        /\ ~(first /\ results["runtime"] = "failed")
     \/ /\ pc = "writing" /\ UNCHANGED <<local, manifest>>
        /\ pc' = IF results["runtime"] = "ok" THEN "verifying" ELSE "launching"
     \/ /\ pc = "verifying" /\ pc' = "launching" /\ UNCHANGED <<local, manifest>>
        /\ ~first \/ Verified

Plans == pc = "planning" /\ TakeItem(Planned) /\ UNCHANGED <<target, damage, planVars, results>>

Gives(result) ==
  /\ results' = [results EXCEPT ![component] = result]
  /\ TakeItem({c \in Planned \ {component} : results[c] = "none"})
  /\ UNCHANGED <<damage, planVars>>

Fails == pc = "downloading" /\ Gives("failed") /\ UNCHANGED target

Moves == \E f \in File : MoveIntoPlace(f)

LEMMA StepKinds ==
  ASSUME RunInv, [Next]_vars
  PROVE  Ends \/ Begins \/ Damages \/ GoesOn \/ Plans \/ Fails \/ Moves \/ RemoveObsolete
<1> USE DEF envVars, planVars, runVars, Goto
<1>1. ASSUME End, UNCHANGED <<target, damage>> PROVE Ends
  BY <1>1 DEF End, Ends
<1>2. CASE Start \/ CreateLedger
  BY <1>2 DEF Start, CreateLedger, Begin, Begins, NoResults
<1>3. CASE StartWithoutLedger
  BY <1>3 DEF StartWithoutLedger, Continue, GoesOn
<1>4. CASE Fetch
  BY <1>4 DEF Fetch, Receive, GoesOn
<1>5. CASE FetchFails \/ FetchHangs
  BY <1>1, <1>5 DEF FetchFails, FetchHangs, Continue, GoesOn
<1>6. CASE FetchInvalid
  BY <1>1, <1>6 DEF FetchInvalid, Receive, GoesOn
<1>7. CASE PlanUpdate
  BY <1>7 DEF PlanUpdate, GoesOn, Plans
<1>8. CASE CheckUnchanged
  BY <1>8 DEF CheckUnchanged, GoesOn
<1>9. ASSUME NEW f \in File, TakeStaged(f) \/ StartDownload(f) PROVE GoesOn
  BY <1>9 DEF TakeStaged, StartDownload, GoesOn, Busy
<1>10. CASE DownloadSucceeds
  BY <1>10 DEF DownloadSucceeds, GoesOn, Busy
<1>11. ASSUME NEW retryable \in BOOLEAN, pc = "downloading", RetryOrFail(retryable),
              UNCHANGED <<target, damage, planVars>>
       PROVE  GoesOn \/ Fails
  BY <1>11 DEF RetryOrFail, FinishItem, Gives, Fails, GoesOn
<1>12. CASE DownloadCorrupted
  BY <1>11, <1>12 DEF DownloadCorrupted
<1>13. CASE DownloadBreaks
  BY <1>11, <1>13 DEF DownloadBreaks
<1>14. CASE AllStaged
  BY <1>14 DEF AllStaged, Continue, GoesOn, Busy
<1>15. CASE MoveFails \/ LaunchClient \/ Crash
  BY <1>1, <1>15 DEF MoveFails, LaunchClient, Crash
<1>16. CASE RecordResults
  BY <1>1, <1>16 DEF RecordResults, WriteLedger, GoesOn
<1>17. CASE LedgerWritten
  BY <1>17 DEF LedgerWritten, Continue, GoesOn
<1>18. CASE VerifyRuntime
  BY <1>1, <1>18 DEF VerifyRuntime, Continue, GoesOn
<1>19. CASE Damage
  BY <1>19 DEF Damage, Damages
<1>20. ASSUME NEW r \in Release, Publish(r) PROVE GoesOn
  BY <1>20 DEF Publish, GoesOn
<1>21. CASE UNCHANGED vars
  BY <1>21 DEF vars, GoesOn
<1> QED
  BY <1>2, <1>3, <1>4, <1>5, <1>6, <1>7, <1>8, <1>9, <1>10, <1>12, <1>13, <1>14, <1>15, <1>16,
     <1>17, <1>18, <1>19, <1>20, <1>21 DEF Next, Run, Download, Moves

\* Until its files are moved, a component's are as this run found them.
Untouched ==
  pc \notin {"off", "creating"} /\ damage # "this run" =>
    \A c \in Component :
      results[c] = "failed" \/ (results[c] = "none" /\ ~(c = component /\ pc = "moving")) =>
        \A f \in FilesOf(c) : target[f] = before[f]

LEMMA GivesGives ==
  ASSUME RunInv, pc \in Busy, NEW result \in {"ok", "failed"}, Gives(result)
  PROVE  /\ pc' \in {"recording", "checking"} /\ component' \in Component
         /\ results'[component] = result
         /\ \A c \in Component \ {component} : results'[c] = results[c]
         /\ UNCHANGED <<damage, planVars>>
<1> DEFINE items == {c \in Planned \ {component} : results[c] = "none"}
<1>1. items \in SUBSET Component
  BY DEF Planned
<1>2. TakeItem(items) /\ results' = [results EXCEPT ![component] = result] /\ UNCHANGED <<damage, planVars>>
  BY DEF Gives
<1>3. component \in Component /\ results \in [Component -> {"none", "ok", "failed"}]
  BY DEF RunInv, TypeOK
<1> HIDE DEF items
<1> QED BY <1>1, <1>2, <1>3, TakeItemTakes

LEMMA RemovesRemoves ==
  ASSUME RunInv, RemoveObsolete
  PROVE  /\ pc = "moving" /\ Gives("ok") /\ manifest \in Release
         /\ \A c \in Component \ {component} : \A f \in FilesOf(c) : target'[f] = target[f]
         /\ \A f \in FilesOf(component) : Wanted(f) # None => target'[f] = target[f]
<1>1. PICK removed \in SUBSET Obsolete(component) :
        target' = [f \in File |-> IF f \in removed THEN None ELSE target[f]]
  BY DEF RemoveObsolete
<1>2. Gives("ok")
  BY DEF RemoveObsolete, FinishItem, Gives, envVars
<1> QED BY <1>1, <1>2 DEF RemoveObsolete, Obsolete, FilesOf, RunInv, Loops, Busy, Working

LEMMA MovesMove ==
  ASSUME RunInv, NEW f \in File, MoveIntoPlace(f)
  PROVE  /\ pc = "moving" /\ pc' = pc /\ f \in FilesOf(component) /\ f \in stagedFiles
         /\ target'[f] = Wanted(f) /\ Wanted(f) \in Content
         /\ \A g \in File \ {f} : target'[g] = target[g]
         /\ stagedFiles' = stagedFiles \ {f}
         /\ UNCHANGED <<damage, planVars, component, todo, results>>
<1>1. /\ pc = "moving" /\ f \in stagedFiles /\ target' = [target EXCEPT ![f] = staging[f]]
      /\ stagedFiles' = stagedFiles \ {f}
      /\ UNCHANGED <<damage, pc, planVars, component, todo, results>>
  BY DEF MoveIntoPlace, envVars
<1>2. staging[f] = Wanted(f) /\ Wanted(f) # None /\ manifest \in Release /\ f \in FilesOf(component)
  BY <1>1 DEF RunInv, TypeOK, Loops, Busy, Working
<1>3. Wanted(f) \in Content
  BY <1>2, ReleasesAssumption DEF Wanted
<1>4. target \in [File -> Content \cup {None, "damaged"}]
  BY DEF RunInv, TypeOK
<1> QED BY <1>1, <1>2, <1>3, <1>4

LEMMA UntouchedStep ==
  ASSUME RunInv, Untouched, [Next]_vars PROVE Untouched'
<1>1. component \in Component
  BY DEF RunInv, TypeOK
<1>2. CASE Ends
  BY <1>2 DEF Ends, Untouched
<1>3. CASE Begins
  BY <1>3 DEF Begins, Untouched
<1>4. CASE Damages
  BY <1>4 DEF Damages, Untouched
<1>5. CASE GoesOn
  <2>1. pc' \notin {"off", "creating"} => pc \notin {"off", "creating"}
    BY <1>5 DEF GoesOn
  <2>2. pc = "moving" => pc' = "moving"
    BY <1>5 DEF GoesOn
  <2>3. UNCHANGED <<target, before, damage, component, results>>
    BY <1>5 DEF GoesOn
  <2> QED BY <2>1, <2>2, <2>3 DEF Untouched, FilesOf
<1>6. CASE Plans
  <2>1. pc = "planning" /\ UNCHANGED <<target, before, damage, results>>
    BY <1>6 DEF Plans, planVars
  <2>2. results = NoResults
    BY <2>1 DEF RunInv, Loops, Before
  <2> QED BY <2>1, <2>2 DEF Untouched, FilesOf, NoResults
<1>7. CASE Fails
  <2>1. pc = "downloading" /\ Gives("failed") /\ UNCHANGED target
    BY <1>7 DEF Fails
  <2>2. results[component] = "none"
    BY <2>1 DEF RunInv, Loops, Working, Busy
  <2>3. /\ \A c \in Component \ {component} : results'[c] = results[c]
        /\ UNCHANGED <<target, before, damage>>
    BY <2>1, GivesGives DEF Busy, planVars
  <2> QED BY <1>1, <2>1, <2>2, <2>3 DEF Untouched, FilesOf
<1>8. CASE Moves
  <2>1. PICK f \in File : MoveIntoPlace(f)
    BY <1>8 DEF Moves
  <2>2. results[component] = "none"
    BY <2>1, MovesMove DEF RunInv, Loops, Working, Busy
  <2>3. \A c \in Component \ {component} : \A g \in FilesOf(c) : target'[g] = target[g]
    BY <1>1, <2>1, MovesMove, OthersFiles DEF FilesOf
  <2>4. pc = "moving" /\ pc' = "moving" /\ UNCHANGED <<before, damage, component, results>>
    BY <2>1, MovesMove DEF planVars
  <2> QED BY <2>2, <2>3, <2>4 DEF Untouched, FilesOf
<1>9. CASE RemoveObsolete
  <2>1. /\ pc = "moving"
        /\ \A c \in Component \ {component} : \A f \in FilesOf(c) : target'[f] = target[f]
    BY <1>9, RemovesRemoves
  <2>2. /\ results'[component] = "ok"
        /\ \A c \in Component \ {component} : results'[c] = results[c]
        /\ UNCHANGED <<before, damage>>
    BY <1>9, RemovesRemoves, GivesGives DEF Busy, planVars
  <2> QED BY <2>1, <2>2 DEF Untouched, FilesOf
<1> QED BY <1>2, <1>3, <1>4, <1>5, <1>6, <1>7, <1>8, <1>9, StepKinds

\* A component that fails leaves its installed files as they were.
THEOREM FailedIsUntouchedCorrect == Spec => []FailedIsUntouched
<1>1. Init => Untouched
  BY DEF Init, Untouched
<1>2. RunInv /\ Untouched => FailedIsUntouched
  <2>1. RunInv /\ pc \in {"off", "creating"} => results = NoResults
    BY DEF RunInv, Loops, Before
  <2> QED BY <2>1 DEF Untouched, FailedIsUntouched, NoResults
<1> QED BY <1>1, <1>2, InitInv, NextInv, UntouchedStep, PTL DEF Spec

\* What the item in hand lists is in place, or is still to be staged or moved.
Present ==
  pc \in Busy /\ damage # "this run" =>
    \A f \in FilesOf(component) : Wanted(f) # None => f \in todo \cup stagedFiles \/ SizeMatches(f)

LEMMA BusySteps ==
  ASSUME RunInv, [Next]_vars, pc' \in Busy
  PROVE  \/ CheckUnchanged
         \/ Moves
         \/ /\ pc \in Busy /\ todo' \cup stagedFiles' = todo \cup stagedFiles
            /\ UNCHANGED <<target, manifest, component>>
            /\ damage' \in {damage, "this run"}
         \/ damage' = "this run"
<1> USE DEF envVars, planVars, runVars, Goto, Busy
<1>1. ASSUME End PROVE FALSE
  BY <1>1 DEF End
<1>2. CASE Start \/ CreateLedger \/ StartWithoutLedger
  BY <1>2 DEF Start, CreateLedger, Begin, StartWithoutLedger, Continue
<1>3. CASE Fetch \/ FetchFails \/ FetchHangs \/ FetchInvalid
  BY <1>1, <1>3 DEF Fetch, FetchFails, FetchHangs, FetchInvalid, Receive, Continue
<1>4. CASE PlanUpdate
  BY <1>4 DEF PlanUpdate, TakeItem
<1>5. ASSUME NEW f \in File, TakeStaged(f) \/ StartDownload(f)
      PROVE  /\ pc \in Busy /\ todo' \cup stagedFiles' = todo \cup stagedFiles
             /\ UNCHANGED <<target, manifest, component, damage>>
  BY <1>5 DEF TakeStaged, StartDownload
<1>6. CASE DownloadSucceeds
  <2>1. pc = "downloading" /\ file \in todo
    BY <1>6 DEF DownloadSucceeds, RunInv, Loops
  <2> QED BY <1>6, <2>1 DEF DownloadSucceeds
<1>7. ASSUME NEW result \in {"ok", "failed"}, FinishItem(result) PROVE FALSE
  BY <1>7 DEF FinishItem, TakeItem
<1>8. CASE DownloadCorrupted \/ DownloadBreaks
  <2>1. PICK retryable \in BOOLEAN : RetryOrFail(retryable)
    BY <1>8 DEF DownloadCorrupted, DownloadBreaks
  <2> QED BY <1>7, <1>8, <2>1 DEF DownloadCorrupted, DownloadBreaks, RetryOrFail
<1>9. CASE AllStaged
  BY <1>9 DEF AllStaged, Continue
<1>10. CASE MoveFails \/ LaunchClient \/ Crash
  BY <1>1, <1>10 DEF MoveFails, LaunchClient, Crash
<1>11. CASE RemoveObsolete
  BY <1>7, <1>11 DEF RemoveObsolete
<1>12. CASE RecordResults \/ LedgerWritten \/ VerifyRuntime
  BY <1>1, <1>12 DEF RecordResults, WriteLedger, LedgerWritten, VerifyRuntime, Continue
<1>13. CASE Damage
  BY <1>13 DEF Damage
<1>14. CASE UNCHANGED vars \/ \E r \in Release : Publish(r)
  BY <1>14 DEF vars, Publish
<1> QED
  BY <1>2, <1>3, <1>4, <1>5, <1>6, <1>8, <1>9, <1>10, <1>11, <1>12, <1>13, <1>14
  DEF Next, Run, Download, Moves

LEMMA PresentStep ==
  ASSUME RunInv, Present, [Next]_vars PROVE Present'
<1> SUFFICES ASSUME pc' \in Busy, damage' # "this run",
                    NEW f \in FilesOf(component'), Wanted(f)' # None
             PROVE  f \in todo' \cup stagedFiles' \/ SizeMatches(f)'
  BY DEF Present, FilesOf
<1>1. CASE CheckUnchanged
  <2>1. /\ todo' = Changed(component) \cup Missing /\ UNCHANGED <<target, manifest, component>>
    BY <1>1 DEF CheckUnchanged, planVars
  <2>2. f \in FilesOf(component) /\ Wanted(f) # None
    BY <2>1 DEF Wanted
  <2>3. f \in todo' \/ SizeMatches(f)
    BY <2>1, <2>2 DEF Changed, Missing, Unchanged
  <2> QED BY <2>1, <2>3 DEF SizeMatches, Wanted
<1>2. ASSUME NEW g \in File, MoveIntoPlace(g) PROVE f \in todo' \cup stagedFiles' \/ SizeMatches(f)'
  <2>1. /\ pc = "moving" /\ target'[g] = Wanted(g) /\ Wanted(g) \in Content
        /\ \A h \in File \ {g} : target'[h] = target[h]
        /\ stagedFiles' = stagedFiles \ {g}
        /\ UNCHANGED <<damage, manifest, component, todo>>
    BY <1>2, MovesMove DEF planVars
  <2>2. CASE f = g
    BY <2>1, <2>2 DEF SizeMatches, Wanted
  <2>3. CASE f # g
    <3>1. f \in File /\ target'[f] = target[f]
      BY <2>1, <2>3 DEF FilesOf
    <3>2. f \in todo \cup stagedFiles \/ SizeMatches(f)
      BY <2>1 DEF Present, Busy, Wanted, FilesOf
    <3> QED BY <2>1, <2>3, <3>1, <3>2 DEF SizeMatches, Wanted
  <2> QED BY <2>2, <2>3
<1>3. CASE /\ pc \in Busy /\ todo' \cup stagedFiles' = todo \cup stagedFiles
           /\ UNCHANGED <<target, manifest, component>>
           /\ damage' \in {damage, "this run"}
  BY <1>3 DEF Present, SizeMatches, Wanted, FilesOf
<1> QED BY <1>1, <1>2, <1>3, BusySteps DEF Moves

\* A removal or a move elsewhere takes nothing of what a component has in place.
LEMMA UpdatedStep ==
  ASSUME RunInv, Present, UpdatedIsPresent, [Next]_vars PROVE UpdatedIsPresent'
<1> SUFFICES ASSUME damage' # "this run", NEW c \in Component, results'[c] = "ok"
             PROVE  FilesPresent(c)'
  BY DEF UpdatedIsPresent
<1>1. component \in Component /\ results \in [Component -> {"none", "ok", "failed"}]
  BY DEF RunInv, TypeOK
<1>2. ASSUME damage' = damage, results[c] = "ok", UNCHANGED manifest,
             \A f \in FilesOf(c) : Wanted(f) # None => target'[f] = target[f]
      PROVE  FilesPresent(c)'
  <2>1. FilesPresent(c)
    BY <1>2 DEF UpdatedIsPresent
  <2> QED BY <1>2, <2>1 DEF FilesPresent, SizeMatches, Wanted, FilesOf
<1>3. CASE Ends
  BY <1>3 DEF Ends, NoResults
<1>4. CASE Begins
  BY <1>4 DEF Begins, NoResults
<1>5. CASE Damages
  BY <1>5 DEF Damages
<1>6. CASE GoesOn
  <2>1. UNCHANGED <<target, damage, results>> /\ (UNCHANGED manifest \/ pc = "fetching")
    BY <1>6 DEF GoesOn
  <2>2. pc # "fetching"
    BY <2>1 DEF RunInv, Loops, Before, NoResults
  <2> QED BY <1>2, <2>1, <2>2
<1>7. CASE Plans
  BY <1>2, <1>7 DEF Plans, planVars
<1>8. CASE Fails
  <2>1. Gives("failed") /\ UNCHANGED target /\ pc \in Busy
    BY <1>8 DEF Fails, Busy
  <2>2. c # component /\ results'[c] = results[c] /\ UNCHANGED <<damage, manifest>>
    BY <2>1, GivesGives DEF planVars
  <2> QED BY <1>2, <2>1, <2>2
<1>9. CASE Moves
  <2>1. PICK f \in File : MoveIntoPlace(f)
    BY <1>9 DEF Moves
  <2>2. results[component] = "none" /\ UNCHANGED <<damage, manifest, results>> /\ f \in FilesOf(component)
    BY <2>1, MovesMove DEF RunInv, Loops, Working, Busy, planVars
  <2>3. \A g \in FilesOf(c) : target'[g] = target[g]
    BY <1>1, <2>1, <2>2, MovesMove, OthersFiles DEF FilesOf
  <2> QED BY <1>2, <2>2, <2>3
<1>10. CASE RemoveObsolete
  <2>1. /\ pc = "moving" /\ Gives("ok")
        /\ \A d \in Component \ {component} : \A f \in FilesOf(d) : target'[f] = target[f]
        /\ \A f \in FilesOf(component) : Wanted(f) # None => target'[f] = target[f]
    BY <1>10, RemovesRemoves
  <2>2. /\ \A d \in Component \ {component} : results'[d] = results[d]
        /\ UNCHANGED <<damage, manifest>>
    BY <2>1, GivesGives DEF Busy, planVars
  <2>3. CASE c # component
    BY <1>2, <2>1, <2>2, <2>3
  <2>4. CASE c = component
    <3>1. todo = {} /\ stagedFiles = {}
      BY <1>10, <2>1 DEF RemoveObsolete, RunInv, Loops
    <3>2. FilesPresent(c)
      BY <2>1, <2>2, <2>4, <3>1 DEF Present, FilesPresent, Busy
    <3> QED BY <2>1, <2>2, <2>4, <3>2 DEF FilesPresent, SizeMatches, Wanted, FilesOf
  <2> QED BY <2>3, <2>4
<1> QED BY <1>3, <1>4, <1>5, <1>6, <1>7, <1>8, <1>9, <1>10, StepKinds

\* A component is reported as updated only with every file of the release in place.
THEOREM UpdatedIsPresentCorrect == Spec => []UpdatedIsPresent
<1>1. Init => Present /\ UpdatedIsPresent
  BY DEF Init, Present, Busy, UpdatedIsPresent, NoResults
<1> QED BY <1>1, InitInv, NextInv, PresentStep, UpdatedStep, PTL DEF Spec
-----------------------------------------------------------------------------
(* The first install *)

\* Until the ledger is written, a first install is one whose executable was not
\* there or whose runtime was not recorded; a runtime that is recorded and not
\* planned is one whose executable was not there.
FirstInv ==
  /\ pc \in {"fetching", "planning", "recording"} \cup Working =>
       first = (before[Exe] = None \/ local["runtime"] = Nothing)
  /\ /\ pc \in Working \cup {"recording"} /\ results["runtime"] = "none"
     /\ ~(pc \in Working /\ component = "runtime")
     => "runtime" \notin Planned
  /\ pc = "writing" /\ first /\ results["runtime"] # "ok" =>
       results["runtime"] = "none" /\ before[Exe] = None

LEMMA UnplannedRuntime ==
  ASSUME "runtime" \notin Planned PROVE local["runtime"] # Nothing
BY DEF Planned, NeedsAction, Component

LEMMA FirstStep ==
  ASSUME RunInv, FirstInv, [Next]_vars PROVE FirstInv'
<1>1. /\ component \in Component /\ results \in [Component -> {"none", "ok", "failed"}]
      /\ "runtime" \in Component
  BY DEF RunInv, TypeOK, Component
<1>2. ASSUME UNCHANGED <<local, manifest>> PROVE Planned' = Planned
  BY <1>2 DEF Planned, NeedsAction, Changed, Obsolete, Wanted, Recorded, FilesOf
<1>3. CASE Ends
  BY <1>3 DEF Ends, FirstInv, Working, Busy
<1>4. CASE Begins
  BY <1>4 DEF Begins, FirstInv, Working, Busy
<1>5. CASE Damages
  BY <1>2, <1>5 DEF Damages, FirstInv, runVars, planVars
<1>6. CASE GoesOn
  <2>1. CASE pc = "fetching" \/ pc = "off"
    BY <1>6, <2>1, <1>2 DEF GoesOn, FirstInv, Working, Busy
  <2>2. CASE pc = "recording" /\ pc' = "writing"
    <3>1. results' = results /\ first' = first /\ before' = before
      BY <1>6 DEF GoesOn
    <3>2. ~(first /\ results["runtime"] = "failed")
      BY <1>6, <2>2 DEF GoesOn
    <3>3. results["runtime"] = "none" /\ first => before[Exe] = None
      BY <2>2, UnplannedRuntime DEF FirstInv, Working, Busy
    <3> QED BY <1>1, <2>2, <3>1, <3>2, <3>3 DEF FirstInv, Working, Busy
  <2>3. CASE pc \notin {"fetching", "off"} /\ ~(pc = "recording" /\ pc' = "writing")
    <3>1. UNCHANGED <<local, manifest, before, component, results, first>>
      BY <1>6, <2>3 DEF GoesOn
    <3>2. \/ pc' = pc \/ pc' \in {"launching", "verifying"}
          \/ pc \in Working /\ pc' \in Working
      BY <1>6, <2>3 DEF GoesOn, Working, Busy
    <3>3. Planned' = Planned
      BY <1>2, <3>1
    <3> QED BY <3>1, <3>2, <3>3 DEF FirstInv, Working, Busy
  <2> QED BY <2>1, <2>2, <2>3
<1>7. CASE Plans
  <2>1. pc = "planning" /\ UNCHANGED <<planVars, results>> /\ Planned' = Planned
    BY <1>2, <1>7 DEF Plans, planVars
  <2>2. /\ component' \in Component
        /\ \/ pc' = "recording" /\ Planned = {}
           \/ pc' = "checking" /\ ("runtime" \in Planned => component' = "runtime")
    <3>1. Planned \in SUBSET Component
      BY DEF Planned
    <3> QED BY <1>1, <1>7, <3>1, TakeItemTakes DEF Plans
  <2> QED BY <2>1, <2>2 DEF FirstInv, Working, Busy, planVars
<1>8. ASSUME pc \in Busy, NEW result \in {"ok", "failed"}, Gives(result) PROVE FirstInv'
  <2>1. /\ pc' \in {"recording", "checking"}
        /\ results'[component] = result
        /\ \A c \in Component \ {component} : results'[c] = results[c]
        /\ UNCHANGED planVars
    BY <1>8, GivesGives
  <2>2. Planned' = Planned
    BY <1>2, <2>1 DEF planVars
  <2>3. results'["runtime"] = "none" => component # "runtime" /\ results["runtime"] = "none"
    BY <1>1, <2>1
  <2> QED BY <1>8, <2>1, <2>2, <2>3 DEF FirstInv, Working, Busy, planVars
<1>9. CASE Fails
  BY <1>8, <1>9 DEF Fails, Busy
<1>10. CASE Moves
  <2>1. PICK f \in File : MoveIntoPlace(f)
    BY <1>10 DEF Moves
  <2>2. pc = "moving" /\ pc' = pc /\ UNCHANGED <<planVars, component, results>>
    BY <2>1, MovesMove
  <2>3. Planned' = Planned
    BY <1>2, <2>2 DEF planVars
  <2> QED BY <2>2, <2>3 DEF FirstInv, Working, Busy, planVars
<1>11. CASE RemoveObsolete
  BY <1>8, <1>11, RemovesRemoves DEF Busy
<1> QED BY <1>3, <1>4, <1>5, <1>6, <1>7, <1>9, <1>10, <1>11, StepKinds

LEMMA VerifiedStep ==
  ASSUME RunInv, Untouched, FirstInv, FirstInstallIsVerified, [Next]_vars
  PROVE  FirstInstallIsVerified'
<1> SUFFICES ASSUME pc' = "launching", first', target'[Exe] # None, damage' # "this run"
             PROVE  Verified'
  BY DEF FirstInstallIsVerified
<1>1. "runtime" \in Component /\ Exe \in FilesOf("runtime")
  BY FilesAssumption DEF Component, FilesOf
<1>2. GoesOn
  <2>1. ~Ends /\ ~Begins
    BY DEF Ends, Begins
  <2>2. ~Damages
    BY DEF Damages
  <2>3. ~Plans
    BY DEF Plans, TakeItem, Goto
  <2>4. ~Fails /\ ~RemoveObsolete
    BY GivesGives, RemovesRemoves DEF Fails, Busy
  <2>5. ~Moves
    BY MovesMove DEF Moves
  <2> QED BY <2>1, <2>2, <2>3, <2>4, <2>5, StepKinds
<1>3. first /\ target[Exe] # None /\ damage # "this run" /\ UNCHANGED <<target, before, results>>
  BY <1>2 DEF GoesOn
<1>4. pc # "fetching"
  BY <1>2, <1>3 DEF GoesOn
<1>5. UNCHANGED manifest
  BY <1>2, <1>4 DEF GoesOn
<1>6. CASE pc \in {"launching", "verifying"}
  <2>1. Verified
    BY <1>2, <1>3, <1>6 DEF GoesOn, FirstInstallIsVerified
  <2> QED BY <1>3, <1>5, <2>1 DEF Verified, Wanted, FilesOf
<1>7. CASE pc \in {"planning", "writing"}
  <2>1. results["runtime"] = "none" /\ before[Exe] = None
    <3>1. CASE pc = "planning"
      <4>1. Planned = {} /\ results = NoResults
        BY <1>2, <3>1 DEF GoesOn, RunInv, Loops, Before
      <4> QED BY <1>1, <1>3, <3>1, <4>1, UnplannedRuntime DEF FirstInv, NoResults
    <3>2. CASE pc = "writing"
      BY <1>2, <1>3, <3>2 DEF GoesOn, FirstInv
    <3> QED BY <1>7, <3>1, <3>2
  <2>2. target[Exe] = before[Exe]
    BY <1>1, <1>3, <1>7, <2>1 DEF Untouched
  <2> QED BY <1>3, <2>1, <2>2
<1>8. pc \in {"launching", "verifying", "planning", "writing"}
  BY <1>2, <1>4 DEF GoesOn, Busy
<1> QED BY <1>6, <1>7, <1>8

\* A first install launches nothing but a runtime that is what the manifest lists.
THEOREM FirstInstallCorrect == Spec => []FirstInstallIsVerified
<1>1. Init => Untouched /\ FirstInv /\ FirstInstallIsVerified
  BY DEF Init, Untouched, FirstInv, FirstInstallIsVerified, Working, Busy
<1> QED BY <1>1, InitInv, NextInv, UntouchedStep, FirstStep, VerifiedStep, PTL DEF Spec
=============================================================================
