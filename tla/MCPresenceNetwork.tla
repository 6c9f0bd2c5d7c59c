-------------------------- MODULE MCPresenceNetwork --------------------------
(* Small instances of PresenceNetwork for TLC. *)
EXTENDS PresenceNetwork, TLC

CONSTANTS s1, s2, p1, p2

\* s2 is another client, or s1's client again, reconnecting with the id of
\* its client-id.txt.
OtherOrSame == (s1 :> {p1} @@ s2 :> {p1, p2})
=============================================================================
