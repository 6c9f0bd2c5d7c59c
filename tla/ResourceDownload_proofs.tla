----------------------- MODULE ResourceDownload_proofs -----------------------
(* Theorems about ResourceDownload for any versions, sizes and bounds. *)
EXTENDS ResourceDownload, TLAPS

LEMMA WholeIsFile ==
  ASSUME NEW v \in Version
  PROVE  Whole(v) \in Seq(Version) /\ Len(Whole(v)) = Size[v] /\ Whole(v) # None
<1>1. Size[v] \in Nat
  BY SizeAssumption
<1>2. Whole(v) \in Seq(Version) /\ Len(Whole(v)) = Size[v]
  BY <1>1 DEF Whole
<1> QED BY <1>2, NoneAssumption
-----------------------------------------------------------------------------
(* The invariant *)

\* What is about to be renamed was verified, a call has no answer before its
\* end, and a range is asked for from where the partial file ends.
CallInv ==
  /\ pc = "renaming" => partial = Whole(wanted)
  /\ pc # "idle" => answer = "none"
  /\ pc = "requesting" /\ offset > 0 => offset = PartialLength

DownloadInv == TypeOK /\ CallInv

LEMMA InitInv == Init => DownloadInv
<1> SUFFICES ASSUME Init PROVE DownloadInv
  OBVIOUS
<1>1. attempt \in 0 .. MaxAttempts /\ changes \in 0 .. MaxChanges
  BY MaxAttemptsAssumption, MaxChangesAssumption DEF Init
<1>2. <<>> \in Seq(Version)
  OBVIOUS
<1> QED BY <1>1, <1>2 DEF Init, DownloadInv, TypeOK, CallInv

LEMMA CallKeeps ==
  ASSUME DownloadInv, Call PROVE DownloadInv'
<1>1. pc = "idle" /\ advertised \in Version /\ Size[advertised] \in Nat
  BY SizeAssumption DEF Call, DownloadInv, TypeOK
<1>2. PartialLength \in Nat
  BY DEF PartialLength, DownloadInv, TypeOK
<1>3. UNCHANGED <<serverVars, dest, responseVars>> /\ wanted' = advertised /\ attempt' = 1
  BY DEF Call
<1>4. 1 \in 0 .. MaxAttempts
  BY MaxAttemptsAssumption
<1>5. \/ pc' = "idle" /\ answer' = "ok" /\ offset' = 0 /\ UNCHANGED partial
      \/ /\ pc' = "requesting" /\ answer' = "none"
         /\ \/ partial' \in {None, partial} /\ offset' = 0
            \/ offset' = PartialLength /\ UNCHANGED partial
  BY DEF Call, End, RemovePartial
<1>6. TypeOK'
  <2>1. partial' \in Seq(Version) \cup {None} /\ offset' \in Nat
    BY <1>2, <1>5 DEF DownloadInv, TypeOK
  <2>2. pc' \in {"idle", "requesting"} /\ answer' \in {"none", "ok"}
    BY <1>5
  <2>3. UNCHANGED <<served, advertised, changes, dest, body, counted, base>>
    BY <1>3 DEF serverVars, responseVars
  <2> QED
    BY <1>1, <1>3, <1>4, <2>1, <2>2, <2>3, NoneAssumption DEF DownloadInv, TypeOK
<1>7. CallInv'
  BY <1>5 DEF CallInv, PartialLength
<1> QED BY <1>6, <1>7 DEF DownloadInv

LEMMA RetryKeeps ==
  ASSUME DownloadInv, pc \in {"requesting", "receiving"}, Retry,
         offset' = PartialLength' \/ offset' = 0,
         partial' \in {None, partial}, body' \in Seq(Version),
         UNCHANGED <<serverVars, dest, wanted, counted, base>>
  PROVE  DownloadInv'
<1>1. \/ pc' = "requesting" /\ attempt' = attempt + 1 /\ attempt < MaxAttempts /\ answer' = answer
      \/ pc' = "idle" /\ answer' = "failed" /\ attempt' = attempt
  BY DEF Retry, End
<1>2. attempt' \in 0 .. MaxAttempts
  BY <1>1, MaxAttemptsAssumption DEF DownloadInv, TypeOK
<1>3. TypeOK'
  <2>1. partial' \in Seq(Version) \cup {None} /\ offset' \in Nat
    BY DEF DownloadInv, TypeOK, PartialLength
  <2> QED
    BY <1>1, <1>2, <2>1 DEF DownloadInv, TypeOK, serverVars
<1>4. CallInv'
  BY <1>1 DEF CallInv, DownloadInv
<1> QED BY <1>3, <1>4 DEF DownloadInv

LEMMA AnswerKeeps ==
  ASSUME DownloadInv, Answer PROVE DownloadInv'
<1>1. PICK length \in BOOLEAN : AnswerWhole(length) \/ AnswerRange(length)
  BY DEF Answer
<1>2. served \in Version /\ Size[served] \in Nat
  BY <1>1, SizeAssumption DEF AnswerWhole, AnswerRange, DownloadInv, TypeOK
<1>3. CASE AnswerWhole(length)
  <2>1. Whole(served) \in Seq(Version) /\ <<>> \in Seq(Version) /\ <<>> # None /\ Len(<<>>) = 0
    <3>1. <<>> \in Seq(Version)
      OBVIOUS
    <3> QED BY <1>2, <3>1, WholeIsFile, NoneAssumption
  <2>2. /\ pc = "requesting" /\ pc' = "receiving" /\ partial' = <<>> /\ base' = 0
        /\ body' = Whole(served) /\ counted' = length
        /\ UNCHANGED <<served, advertised, changes, dest, wanted, attempt, offset, answer>>
    BY <1>3 DEF AnswerWhole, Receive, serverVars
  <2>3. TypeOK'
    BY <2>1, <2>2 DEF DownloadInv, TypeOK
  <2>4. CallInv'
    BY <2>2 DEF DownloadInv, CallInv
  <2> QED BY <2>3, <2>4 DEF DownloadInv
<1>4. CASE AnswerRange(length)
  <2>1. pc = "requesting" /\ partial # None /\ PartialLength = Len(partial) /\ partial \in Seq(Version)
    BY <1>4 DEF AnswerRange, PartialLength, DownloadInv, TypeOK, CallInv
  <2>2. SubSeq(Whole(served), offset + 1, Size[served]) \in Seq(Version)
    BY <1>2, <1>4, WholeIsFile DEF AnswerRange, DownloadInv, TypeOK
  <2> QED
    BY <1>2, <1>4, <2>1, <2>2
    DEF AnswerRange, Receive, serverVars, DownloadInv, TypeOK, CallInv
<1> QED BY <1>1, <1>3, <1>4

LEMMA EndKeeps ==
  ASSUME DownloadInv, pc \in {"requesting", "receiving", "verifying", "renaming"},
         NEW result \in {"none", "ok", "failed"}, End(result),
         dest' \in Seq(Version) \cup {None}, partial' \in Seq(Version) \cup {None},
         body' \in Seq(Version),
         UNCHANGED <<serverVars, wanted, attempt, offset, counted, base>>
  PROVE  DownloadInv'
BY DEF End, serverVars, DownloadInv, TypeOK, CallInv

LEMMA NextInv ==
  ASSUME DownloadInv, [Next]_vars
  PROVE  DownloadInv'
<1>1. CASE Server
  <2>1. UNCHANGED <<dest, partial, pc, wanted, attempt, offset, responseVars, answer>>
    BY <1>1 DEF Server, ChangeFile, RestartServer
  <2>2. served' \in Version \cup {None} /\ advertised' \in Version \cup {None} /\ changes' \in 0 .. MaxChanges
    BY <1>1, MaxChangesAssumption DEF Server, ChangeFile, RestartServer, DownloadInv, TypeOK
  <2> QED
    BY <2>1, <2>2 DEF responseVars, DownloadInv, TypeOK, CallInv, PartialLength
<1>2. CASE Call
  BY <1>2, CallKeeps
<1>3. CASE Answer
  BY <1>3, AnswerKeeps
<1>4. CASE NoAnswer
  BY <1>4, RetryKeeps DEF NoAnswer, Interrupted, PartialLength, responseVars, DownloadInv, TypeOK
<1>5. CASE Refused
  BY <1>5, EndKeeps DEF Refused, RemovePartial, responseVars, DownloadInv, TypeOK
<1>6. CASE RangeInvalid
  BY <1>6, RetryKeeps DEF RangeInvalid, RemovePartial, responseVars, DownloadInv, TypeOK
<1>7. CASE Write
  <2>1. partial \in Seq(Version) /\ Head(body) \in Version /\ Tail(body) \in Seq(Version)
    BY <1>7 DEF Write, DownloadInv, TypeOK
  <2>2. partial' \in Seq(Version) /\ Len(partial') = Len(partial) + 1
    BY <1>7, <2>1 DEF Write
  <2>3. /\ pc = "receiving" /\ body' = Tail(body)
        /\ UNCHANGED <<served, advertised, changes, dest, pc, wanted, attempt, offset, counted, base, answer>>
    BY <1>7 DEF Write, serverVars
  <2>4. partial' # None /\ Len(partial') >= base
    BY <2>1, <2>2, <2>3, NoneAssumption DEF DownloadInv, TypeOK
  <2>5. TypeOK'
    BY <2>1, <2>2, <2>3, <2>4 DEF DownloadInv, TypeOK
  <2>6. CallInv'
    BY <2>3 DEF DownloadInv, CallInv
  <2> QED BY <2>5, <2>6 DEF DownloadInv
<1>8. CASE BodyEnds
  <2>1. body' \in Seq(Version)
    BY <1>8 DEF BodyEnds
  <2> QED BY <1>8, <2>1 DEF BodyEnds, serverVars, DownloadInv, TypeOK, CallInv
<1>9. CASE Cut
  <2>1. body' \in Seq(Version)
    BY <1>9 DEF Cut
  <2> QED
    BY <1>9, <2>1, RetryKeeps DEF Cut, Interrupted, PartialLength, DownloadInv, TypeOK
<1>10. CASE Verify
  <2>1. CASE Matches
    BY <1>10, <2>1 DEF Verify, Matches, serverVars, responseVars, DownloadInv, TypeOK, CallInv
  <2>2. CASE ~Matches
    BY <1>10, <2>2, EndKeeps DEF Verify, RemovePartial, responseVars, DownloadInv, TypeOK
  <2> QED BY <2>1, <2>2
<1>11. CASE Rename
  BY <1>11, EndKeeps DEF Rename, responseVars, DownloadInv, TypeOK
<1>12. CASE RenameFails
  BY <1>12, EndKeeps DEF RenameFails, responseVars, DownloadInv, TypeOK
<1>13. CASE Crash
  <2>1. partial' \in Seq(Version) \cup {None}
    <3>1. CASE pc = "receiving"
      <4>1. PICK n \in base .. Len(partial) : partial' = SubSeq(partial, 1, n)
        BY <1>13, <3>1 DEF Crash
      <4> QED BY <3>1, <4>1 DEF DownloadInv, TypeOK
    <3> QED BY <1>13, <3>1 DEF Crash, DownloadInv, TypeOK
  <2>2. body' \in Seq(Version)
    BY <1>13 DEF Crash
  <2> QED
    BY <1>13, <2>1, <2>2 DEF Crash, serverVars, DownloadInv, TypeOK, CallInv
<1>14. CASE UNCHANGED vars
  BY <1>14 DEF vars, serverVars, responseVars, DownloadInv, TypeOK, CallInv, PartialLength
<1> QED
  BY <1>1, <1>2, <1>3, <1>4, <1>5, <1>6, <1>7, <1>8, <1>9, <1>10, <1>11, <1>12, <1>13, <1>14
  DEF Next, Client

\* Every variable keeps its type.
THEOREM DownloadTypeCorrect == Spec => []TypeOK
<1>1. DownloadInv => TypeOK
  BY DEF DownloadInv
<1> QED BY <1>1, InitInv, NextInv, PTL DEF Spec
-----------------------------------------------------------------------------
(* The refinement *)

\* A step that ends a call without installing anything, or goes on with it.
LEMMA QuietStep ==
  ASSUME DownloadInv, pc # "idle", UNCHANGED <<dest, wanted>>, answer' \in {answer, "failed"}
  PROVE  [Store!Next]_(Store!vars)
<1>1. answer = "none"
  BY DEF DownloadInv, CallInv
<1> QED BY <1>1 DEF Store!vars, Store!Next, Store!Fail

LEMMA StoreStep ==
  ASSUME DownloadInv, [Next]_vars
  PROVE  [Store!Next]_(Store!vars)
<1>1. CASE Server \/ UNCHANGED vars
  <2>1. UNCHANGED <<dest, wanted, answer>>
    BY <1>1 DEF Server, ChangeFile, RestartServer, vars
  <2> QED BY <2>1 DEF Store!vars
<1>2. CASE Call
  <2>1. advertised \in Version /\ wanted' = advertised /\ wanted' # None /\ UNCHANGED dest
    BY <1>2, NoneAssumption DEF Call, DownloadInv, TypeOK
  <2>2. Whole(advertised) \in {Whole(v) : v \in Version}
    BY <2>1
  <2>3. CASE dest = Whole(advertised)
    <3>1. answer' = "ok"
      BY <1>2, <2>3 DEF Call, End
    <3>2. Store!Confirm(Whole(advertised))
      BY <2>1, <2>3, <3>1 DEF Store!Confirm
    <3> QED BY <2>2, <3>2 DEF Store!Next
  <2>4. CASE dest # Whole(advertised)
    <3>1. answer' = "none"
      BY <1>2, <2>4 DEF Call
    <3>2. Store!Ask(Whole(advertised))
      BY <2>1, <3>1 DEF Store!Ask
    <3> QED BY <2>2, <3>2 DEF Store!Next
  <2> QED BY <2>3, <2>4
<1>3. CASE Rename
  <2>1. wanted \in Version /\ wanted' = wanted /\ dest' = Whole(wanted) /\ answer' = "ok" /\ wanted # None
    BY <1>3 DEF Rename, End, DownloadInv, TypeOK, CallInv
  <2>2. Store!Install
    BY <2>1, WholeIsFile DEF Store!Install
  <2> QED BY <2>2 DEF Store!Next
<1>4. CASE Crash \/ (Client /\ ~Rename)
  <2>1. pc # "idle" /\ UNCHANGED <<dest, wanted>>
    BY <1>4 DEF Crash, Client, Answer, AnswerWhole, AnswerRange, Receive, NoAnswer, Refused, RangeInvalid,
                Write, BodyEnds, Cut, Verify, RenameFails
  <2>2. answer' \in {answer, "failed"}
    BY <1>4 DEF Crash, Client, Answer, AnswerWhole, AnswerRange, Receive, NoAnswer, Refused, RangeInvalid,
                Write, BodyEnds, Cut, Verify, RenameFails, Interrupted, Retry, End
  <2> QED BY <2>1, <2>2, QuietStep
<1> QED BY <1>1, <1>2, <1>3, <1>4 DEF Next

\* Whoever opens the destination finds what was there or the whole of what was
\* asked for, and "ok" is answered only then: the download implements VerifiedStore.
THEOREM StoreImplemented == Spec => ImplementsStore
<1>1. Init => Store!Init
  BY DEF Init, Store!Init
<1> QED BY <1>1, InitInv, NextInv, StoreStep, PTL DEF Spec, ImplementsStore, Store!Spec
-----------------------------------------------------------------------------
(* The partial file, while the server's file has not changed *)

\* Every block is one of the served version, and what was written and what is
\* still to come make up no more than the whole.
Blocks ==
  /\ pc # "receiving" => body = <<>>
  /\ changes = 0 =>
       /\ served \in Version
       /\ \A i \in 1 .. Len(body) : body[i] = served
       /\ partial # None => /\ \A i \in 1 .. Len(partial) : partial[i] = served
                            /\ Len(partial) + Len(body) <= Size[served]

LEMMA BlocksArePrefix == DownloadInv /\ Blocks => PartialIsPrefix
<1> SUFFICES ASSUME DownloadInv, Blocks, changes = 0, partial # None
             PROVE  IsPrefix(partial, Whole(served))
  BY DEF PartialIsPrefix
<1>1. partial \in Seq(Version) /\ body \in Seq(Version) /\ served \in Version /\ Size[served] \in Nat
  BY SizeAssumption DEF DownloadInv, TypeOK, Blocks
<1>2. Len(partial) <= Size[served] /\ \A i \in 1 .. Len(partial) : partial[i] = served
  BY <1>1 DEF Blocks
<1>3. Whole(served) \in Seq(Version) /\ Len(Whole(served)) = Size[served]
  BY <1>1, WholeIsFile
<1>4. \A i \in 1 .. Size[served] : Whole(served)[i] = served
  BY DEF Whole
<1>5. SubSeq(partial, 1, Len(partial)) = SubSeq(Whole(served), 1, Len(partial))
  BY <1>1, <1>2, <1>3, <1>4
<1> QED BY <1>2, <1>3, <1>5 DEF IsPrefix

\* A step that at most removes the file, with nothing left to receive.
LEMMA DropKeepsBlocks ==
  ASSUME DownloadInv, Blocks, partial' \in {None, partial}, body' = body \/ body' = <<>>,
         pc' # "receiving" => body' = <<>>, UNCHANGED serverVars
  PROVE  Blocks'
<1>1. body \in Seq(Version) /\ Len(<<>>) = 0 /\ Len(body) >= 0
  BY DEF DownloadInv, TypeOK
<1>2. partial # None => partial \in Seq(Version) /\ Len(partial) \in Nat
  BY DEF DownloadInv, TypeOK
<1>3. changes = 0 => Size[served] \in Nat
  BY SizeAssumption DEF Blocks
<1> QED BY <1>1, <1>2, <1>3 DEF Blocks, serverVars

LEMMA BlocksStep ==
  ASSUME DownloadInv, Blocks, [Next]_vars
  PROVE  Blocks'
<1>1. CASE Server
  <2>1. CASE changes' = changes
    <3>1. UNCHANGED <<served, changes, partial, pc, body>>
      BY <1>1, <2>1 DEF Server, ChangeFile, RestartServer, responseVars, DownloadInv, TypeOK
    <3> QED BY <3>1 DEF Blocks
  <2>2. CASE changes' # changes
    <3>1. changes' # 0 /\ UNCHANGED <<pc, body>>
      BY <1>1, <2>2 DEF Server, ChangeFile, RestartServer, responseVars, DownloadInv, TypeOK
    <3> QED BY <3>1 DEF Blocks
  <2> QED BY <2>1, <2>2
<1>2. CASE Call \/ NoAnswer \/ Refused \/ RangeInvalid \/ Cut \/ Verify \/ RenameFails \/ Rename \/ BodyEnds
  <2>1. partial' \in {None, partial} /\ UNCHANGED serverVars
    BY <1>2 DEF Call, NoAnswer, Refused, RangeInvalid, Cut, Verify, RenameFails, Rename, BodyEnds,
                RemovePartial, Interrupted
  <2>2. body' = <<>>
    BY <1>2 DEF Call, NoAnswer, Refused, RangeInvalid, Cut, Verify, RenameFails, Rename, BodyEnds,
                Blocks, responseVars
  <2> QED BY <2>1, <2>2, DropKeepsBlocks
<1>3. ASSUME NEW length \in BOOLEAN, AnswerWhole(length) PROVE Blocks'
  <2>1. served' = served /\ changes' = changes /\ pc' = "receiving" /\ partial' = <<>> /\ body' = Whole(served)
    BY <1>3 DEF AnswerWhole, Receive, serverVars
  <2>2. served \in Version /\ Size[served] \in Nat
    BY <1>3, SizeAssumption DEF AnswerWhole, DownloadInv, TypeOK
  <2>3. Len(Whole(served)) = Size[served] /\ \A i \in 1 .. Size[served] : Whole(served)[i] = served
    BY <2>2, WholeIsFile DEF Whole
  <2>4. Len(<<>>) = 0
    OBVIOUS
  <2> QED BY <2>1, <2>2, <2>3, <2>4 DEF Blocks
<1>4. ASSUME NEW length \in BOOLEAN, AnswerRange(length) PROVE Blocks'
  <2>1. /\ served' = served /\ changes' = changes /\ pc' = "receiving" /\ partial' = partial
        /\ body' = SubSeq(Whole(served), offset + 1, Size[served])
    BY <1>4 DEF AnswerRange, Receive, serverVars
  <2>2. served \in Version /\ Size[served] \in Nat /\ offset \in Nat /\ offset > 0 /\ offset < Size[served]
    BY <1>4, SizeAssumption DEF AnswerRange, DownloadInv, TypeOK
  <2>3. partial # None /\ Len(partial) = offset
    BY <1>4, <2>2 DEF AnswerRange, PartialLength, DownloadInv, CallInv
  <2>4. Whole(served) \in Seq(Version) /\ Len(Whole(served)) = Size[served]
        /\ \A i \in 1 .. Size[served] : Whole(served)[i] = served
    BY <2>2, WholeIsFile DEF Whole
  <2>5. Len(body') = Size[served] - offset /\ \A i \in 1 .. Len(body') : body'[i] = served
    BY <2>1, <2>2, <2>4
  <2> QED BY <2>1, <2>2, <2>3, <2>5 DEF Blocks
<1>5. CASE Write
  <2>1. /\ UNCHANGED <<served, changes, pc>> /\ pc = "receiving" /\ body # <<>>
        /\ partial' = Append(partial, Head(body)) /\ body' = Tail(body)
    BY <1>5 DEF Write, serverVars
  <2>2. partial \in Seq(Version) /\ partial # None /\ body \in Seq(Version)
    BY <2>1 DEF DownloadInv, TypeOK
  <2>3. Len(partial') = Len(partial) + 1 /\ Len(body') = Len(body) - 1 /\ Head(body) = body[1] /\ Len(body) >= 1
    BY <2>1, <2>2
  <2>4. ASSUME changes = 0 PROVE \A i \in 1 .. Len(partial') : partial'[i] = served
    BY <2>1, <2>2, <2>3, <2>4 DEF Blocks
  <2>5. ASSUME changes = 0 PROVE \A i \in 1 .. Len(body') : body'[i] = served
    BY <2>1, <2>2, <2>3, <2>5 DEF Blocks
  <2>6. changes = 0 => Size[served] \in Nat
    BY SizeAssumption DEF Blocks
  <2>7. changes = 0 => Len(partial') + Len(body') <= Size[served]
    BY <2>2, <2>3, <2>6 DEF Blocks
  <2> QED BY <2>1, <2>4, <2>5, <2>7 DEF Blocks
<1>6. CASE Crash
  <2>1. UNCHANGED <<served, changes>> /\ pc' = "idle" /\ body' = <<>> /\ Len(<<>>) = 0
    BY <1>6 DEF Crash, serverVars
  <2>2. CASE pc = "receiving"
    <3>1. PICK n \in base .. Len(partial) : partial' = SubSeq(partial, 1, n)
      BY <1>6, <2>2 DEF Crash
    <3>2. partial \in Seq(Version) /\ partial # None /\ body \in Seq(Version) /\ n \in 0 .. Len(partial)
      BY <2>2, <3>1 DEF DownloadInv, TypeOK
    <3>3. Len(partial') = n /\ \A i \in 1 .. n : partial'[i] = partial[i]
      BY <3>1, <3>2
    <3>4. changes = 0 => Size[served] \in Nat
      BY SizeAssumption DEF Blocks
    <3> QED BY <2>1, <3>2, <3>3, <3>4 DEF Blocks
  <2>3. CASE pc # "receiving"
    BY <1>6, <2>1, <2>3, DropKeepsBlocks DEF Crash
  <2> QED BY <2>2, <2>3
<1>7. CASE UNCHANGED vars
  BY <1>7 DEF vars, serverVars, responseVars, Blocks
<1> QED BY <1>1, <1>2, <1>3, <1>4, <1>5, <1>6, <1>7 DEF Next, Client, Answer

\* What is kept for a later resume is the beginning of the resource.
THEOREM PrefixKept == Spec => []PartialIsPrefix
<1>1. Init => Blocks
  BY DEF Init, Blocks
<1> QED BY <1>1, InitInv, NextInv, BlocksStep, BlocksArePrefix, PTL DEF Spec
=============================================================================
