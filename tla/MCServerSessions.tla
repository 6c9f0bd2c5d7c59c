-------------------------- MODULE MCServerSessions --------------------------
(* Small instances of ServerSessions for TLC. *)
EXTENDS ServerSessions, TLC

CONSTANTS s1, s2, s3, p1, p2, p3

\* Every client has an id of its own.
OwnIds == (s1 :> {p1} @@ s2 :> {p2} @@ s3 :> {p3})

TwoOwnIds == (s1 :> {p1} @@ s2 :> {p2})

\* With ids of their own, the clients s1 and s2 (a socket and its
\* id) are interchangeable; s3 is the one whose messages may arrive late.
IdOf(s) == CHOOSE p \in OwnIds[s] : TRUE
Clients ==
  {(s1 :> f[s1] @@ s2 :> f[s2] @@ p1 :> IdOf(f[s1]) @@ p2 :> IdOf(f[s2])) :
     f \in Permutations({s1, s2})}
=============================================================================
