---------------------------- MODULE VerifiedStore ----------------------------
(***************************************************************************)
(* What "atomic completion" promises (docs/resources.md, HttpDownloader.h): *)
(* whoever looks at the destination sees what was there before or, whole   *)
(* and at once, what was asked for; "ok" is answered only for the latter.  *)
(***************************************************************************)
CONSTANTS Content, None

VARIABLES
  content,  \* what the destination holds
  wanted,   \* what was last asked for
  answer    \* to the last call: "none" while it runs or if it died

vars == <<content, wanted, answer>>

Init == content = None /\ wanted = None /\ answer = "none"

Ask(w) == wanted' = w /\ answer' = "none" /\ UNCHANGED content

Install == wanted # None /\ content' = wanted /\ answer' = "ok" /\ UNCHANGED wanted

Fail == answer = "none" /\ answer' = "failed" /\ UNCHANGED <<content, wanted>>

\* Asked for what is there already.
Confirm(w) == content = w /\ wanted' = w /\ answer' = "ok" /\ UNCHANGED content

Next == (\E w \in Content : Ask(w) \/ Confirm(w)) \/ Install \/ Fail

Spec == Init /\ [][Next]_vars
=============================================================================
