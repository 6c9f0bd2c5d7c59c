-------------------------- MODULE ResourceDownload --------------------------
(***************************************************************************)
(* The download of one resource: DownloadAndVerify and PerformSingleAttempt *)
(* (HttpDownloader.cpp) against the server's manifest, which is computed   *)
(* once at its start, and its files, which are read when they are asked    *)
(* for (resourceManifest.js, httpResourceServer.js).                       *)
(*                                                                         *)
(* A file is a sequence of blocks, a block is known by the version of the  *)
(* resource it comes from: what was resumed from another version is mixed. *)
(* A hash matches exactly the file it was computed from.  Range answers,   *)
(* answers without a length and server errors are not what this            *)
(* repository's own server gives, but what the client is written to meet.  *)
(***************************************************************************)
EXTENDS Integers, Sequences, SequencesExt

CONSTANTS
  Version,      \* versions of the resource
  Size,         \* their sizes, in blocks; 0 turns the size checks off
  MaxAttempts,  \* DownloadRequest.maxAttempts
  MaxChanges,   \* bound: changes of the server's file
  None          \* no file

ASSUME SizeAssumption == Size \in [Version -> Nat] /\ \A v, w \in Version : Size[v] + Size[w] = 0 => v = w
ASSUME MaxAttemptsAssumption == MaxAttempts \in Nat \ {0}
ASSUME MaxChangesAssumption == MaxChanges \in Nat
ASSUME NoneAssumption == None \notin Version /\ None \notin Seq(Version)

VARIABLES
  served,     \* the server's file
  advertised, \* the version its manifest names
  changes,    \* of the server's file, so far
  dest,       \* the file at destPath
  partial,    \* the file at destPath.partial
  pc,         \* where the call is
  wanted,     \* expectedSize and expectedHashHex: those of this version
  attempt,
  offset,
  body,       \* what the response has still to deliver
  counted,    \* whether the response has a Content-Length
  base,       \* the length of partial when it was opened for this response
  answer      \* ok or failed; none while the call runs or if it died

serverVars == <<served, advertised, changes>>
responseVars == <<body, counted, base>>
vars == <<serverVars, dest, partial, pc, wanted, attempt, offset, responseVars, answer>>

Whole(v) == [i \in 1 .. Size[v] |-> v]

Init ==
  /\ served \in Version
  /\ advertised = served
  /\ changes = 0
  /\ dest = None
  /\ partial = None
  /\ pc = "idle"
  /\ wanted = None
  /\ attempt = 0
  /\ offset = 0
  /\ body = <<>>
  /\ counted = FALSE
  /\ base = 0
  /\ answer = "none"
-----------------------------------------------------------------------------
(* The server *)

ChangeFile(v) ==
  /\ changes < MaxChanges
  /\ v # served
  /\ served' = v
  /\ changes' = changes + 1
  /\ UNCHANGED <<advertised, dest, partial, pc, wanted, attempt, offset, responseVars, answer>>

\* computeManifest() runs when the server starts; a file that is gone is not listed.
RestartServer ==
  /\ advertised # served
  /\ advertised' = served
  /\ UNCHANGED <<served, changes, dest, partial, pc, wanted, attempt, offset, responseVars,
                 answer>>

Server == (\E v \in Version \cup {None} : ChangeFile(v)) \/ RestartServer
-----------------------------------------------------------------------------
(* The steps of a call *)

PartialLength == IF partial = None THEN 0 ELSE Len(partial)

\* fs::remove: whether it worked is not looked at.
RemovePartial == partial' \in {None, partial}

End(result) == pc' = "idle" /\ answer' = result

\* Calls of other modules: FileMatchesExpected, then the choice of the offset.
Call ==
  /\ pc = "idle"
  /\ advertised # None
  /\ wanted' = advertised
  /\ attempt' = 1
  /\ IF dest = Whole(advertised)
     THEN End("ok") /\ offset' = 0 /\ UNCHANGED partial
     ELSE /\ pc' = "requesting"
          /\ answer' = "none"
          /\ IF Size[advertised] > 0 /\ PartialLength >= Size[advertised]
             THEN RemovePartial /\ offset' = 0
             ELSE offset' = PartialLength /\ UNCHANGED partial
  /\ UNCHANGED <<serverVars, dest, responseVars>>

\* Mutant: a retry is not counted.
RetryForever == pc' = "requesting" /\ UNCHANGED <<answer, attempt>>

\* The next round of the attempt loop, or its end.
Retry ==
  IF attempt < MaxAttempts
  THEN pc' = "requesting" /\ attempt' = attempt + 1 /\ UNCHANGED answer
  ELSE End("failed") /\ UNCHANGED attempt

\* Mutant: an interruption discards what was received.
InterruptedDiscards == partial' = None /\ offset' = 0 /\ Retry

\* What was written stays; the next attempt resumes after it.
Interrupted == offset' = PartialLength /\ UNCHANGED partial /\ Retry

\* No connection, no answer in time, a 5xx, or the partial file cannot be opened.
NoAnswer ==
  /\ pc = "requesting"
  /\ Interrupted
  /\ UNCHANGED <<serverVars, dest, wanted, responseVars>>

\* 404 or an unexpected status: HardFailure.
Refused ==
  /\ pc = "requesting"
  /\ RemovePartial
  /\ End("failed")
  /\ UNCHANGED <<serverVars, dest, wanted, attempt, offset, responseVars>>

\* 416: RestartFromZero.
RangeInvalid ==
  /\ pc = "requesting"
  /\ served # None
  /\ offset > 0 /\ offset >= Size[served]
  /\ RemovePartial
  /\ offset' = 0
  /\ Retry
  /\ UNCHANGED <<serverVars, dest, wanted, responseVars>>

Receive(content, length) ==
  /\ pc' = "receiving"
  /\ body' = content
  /\ counted' = length
  /\ UNCHANGED <<serverVars, dest, wanted, attempt, offset, answer>>

\* Mutant: the body of a 200 is appended.
AnswerWholeAppended(length) ==
  /\ pc = "requesting"
  /\ served # None
  /\ partial' = IF partial = None THEN <<>> ELSE partial
  /\ base' = PartialLength
  /\ Receive(Whole(served), length)

\* 200: the file is truncated whatever was asked for.
AnswerWhole(length) ==
  /\ pc = "requesting"
  /\ served # None
  /\ partial' = <<>>
  /\ base' = 0
  /\ Receive(Whole(served), length)

\* 206, appended.
AnswerRange(length) ==
  /\ pc = "requesting"
  /\ served # None
  /\ offset > 0 /\ offset < Size[served]
  /\ base' = PartialLength
  /\ UNCHANGED partial
  /\ Receive(SubSeq(Whole(served), offset + 1, Size[served]), length)

Write ==
  /\ pc = "receiving"
  /\ body # <<>>
  /\ partial' = Append(partial, Head(body))
  /\ body' = Tail(body)
  /\ UNCHANGED <<serverVars, dest, pc, wanted, attempt, offset, counted, base, answer>>

\* Nothing more is available: complete, or closed early where no length tells.
BodyEnds ==
  /\ pc = "receiving"
  /\ body = <<>> \/ ~counted
  /\ pc' = "verifying"
  /\ body' = <<>>
  /\ UNCHANGED <<serverVars, dest, partial, wanted, attempt, offset, counted, base, answer>>

\* A read error, a timeout, or fewer bytes than Content-Length.
Cut ==
  /\ pc = "receiving"
  /\ body # <<>>
  /\ Interrupted
  /\ body' = <<>>
  /\ UNCHANGED <<serverVars, dest, wanted, counted, base>>

\* Mutant: only the size is compared.
MatchesSize == Len(partial) = Size[wanted]

\* Size, unless 0, and hash.
Matches == (Size[wanted] > 0 => Len(partial) = Size[wanted]) /\ partial = Whole(wanted)

Verify ==
  /\ pc = "verifying"
  /\ IF Matches
     THEN pc' = "renaming" /\ UNCHANGED <<partial, answer>>
     ELSE RemovePartial /\ End("failed")
  /\ UNCHANGED <<serverVars, dest, wanted, attempt, offset, responseVars>>

\* fs::rename replaces what is there, or fails.
Rename ==
  /\ pc = "renaming"
  /\ dest' = partial
  /\ partial' = None
  /\ End("ok")
  /\ UNCHANGED <<serverVars, wanted, attempt, offset, responseVars>>

RenameFails ==
  /\ pc = "renaming"
  /\ End("failed")
  /\ UNCHANGED <<serverVars, dest, partial, wanted, attempt, offset, responseVars>>

\* The process dies; what it had not flushed is lost.
Crash ==
  /\ pc # "idle"
  /\ pc' = "idle"
  /\ body' = <<>>
  /\ IF pc = "receiving"
     THEN \E n \in base .. Len(partial) : partial' = SubSeq(partial, 1, n)
     ELSE UNCHANGED partial
  /\ UNCHANGED <<serverVars, dest, wanted, attempt, offset, counted, base, answer>>

Answer == \E length \in BOOLEAN : AnswerWhole(length) \/ AnswerRange(length)

Client ==
  \/ Answer \/ NoAnswer \/ Refused \/ RangeInvalid
  \/ Write \/ BodyEnds \/ Cut
  \/ Verify \/ Rename \/ RenameFails

Next == Server \/ Call \/ Client \/ Crash

Spec == Init /\ [][Next]_vars

\* A call that runs goes on, WinHTTP's timeouts end every wait, and the client
\* is started again and again.
FairSpec == Spec /\ WF_vars(Client) /\ WF_vars(Call)
-----------------------------------------------------------------------------
(* Properties *)

\* Every variable keeps its type, within a response the file only grows, and
\* a version takes at most MaxAttempts requests per call.
TypeOK ==
  /\ served \in Version \cup {None}
  /\ advertised \in Version \cup {None}
  /\ changes \in 0 .. MaxChanges
  /\ dest \in Seq(Version) \cup {None}
  /\ partial \in Seq(Version) \cup {None}
  /\ pc \in {"idle", "requesting", "receiving", "verifying", "renaming"}
  /\ wanted \in Version \cup {None}
  /\ pc # "idle" => wanted # None
  /\ attempt \in 0 .. MaxAttempts
  /\ offset \in Nat
  /\ body \in Seq(Version)
  /\ counted \in BOOLEAN
  /\ base \in Nat
  /\ pc \in {"receiving", "verifying", "renaming"} => partial # None /\ Len(partial) >= base
  /\ answer \in {"none", "ok", "failed"}

\* Whoever opens destPath finds what was there or the whole of what the
\* manifest named, through every resume, cut, crash and change of the server's
\* file, and "ok" is answered only then (resources.md:88-93).
Store == INSTANCE VerifiedStore WITH
  Content <- {Whole(v) : v \in Version},
  content <- dest,
  wanted <- IF wanted = None THEN None ELSE Whole(wanted)
ImplementsStore == Store!Spec

\* What is kept for a later resume is the beginning of the resource: blocks of
\* two answers are never put together wrongly, unless the server's file changed
\* between them.
PartialIsPrefix == changes = 0 /\ partial # None => IsPrefix(partial, Whole(served))

\* However its requests are answered, a call comes to its end.
CallEnds == pc # "idle" ~> pc = "idle"

Settled == served # None /\ advertised = served
Installed == advertised # None /\ dest = Whole(advertised)

\* What a server that honours Range and a connection that breaks, each time
\* after it brought something, let happen.
CutsOnly ==
  \/ Call
  \/ (offset = 0 /\ AnswerWhole(TRUE)) \/ AnswerRange(TRUE) \/ RangeInvalid
  \/ Write \/ BodyEnds \/ (PartialLength > base /\ Cut)
  \/ Verify \/ Rename

\* Over such a connection the download completes all the same: each call
\* resumes where an earlier one, even of another process, was interrupted.
SurvivesCuts == <>[]Settled /\ <>[][CutsOnly]_vars => <>[]Installed

\* What a server that answers completely, honours Range or not, lets happen.
WholeAnswers ==
  \/ Call
  \/ Answer \/ RangeInvalid
  \/ Write \/ (body = <<>> /\ BodyEnds)
  \/ Verify \/ Rename

\* Whatever earlier calls, versions and crashes left in the partial file, and
\* if nobody manages to remove it: once answers are complete, the download
\* succeeds.
StalePartialNeverBlocks == <>[]Settled /\ <>[][WholeAnswers]_vars => <>[]Installed
=============================================================================
