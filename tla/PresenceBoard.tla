--------------------------- MODULE PresenceBoard ---------------------------
(***************************************************************************)
(* What the server's presence events amount to (synchronization.md:65-83): *)
(* one roster of the players that are there, each with the state it        *)
(* reported last.  Who begins to listen is shown the whole roster, itself  *)
(* excepted; from then on all who listen hear of each change in one step.  *)
(*                                                                         *)
(* A player whose session has ended never enters again, but what it sent   *)
(* before may still be announced: it then haunts the listeners' views      *)
(* although the roster does not have it (tcpServer.js:46).                 *)
(***************************************************************************)
CONSTANTS
  Player,
  Data,      \* the states a player reports
  Absent,    \* the roster's entry of a player that is not there
  Unplaced   \* ... that is there and has not reported a state

VARIABLES
  roster,    \* who is there
  over,      \* the players whose session has ended
  listeners, \* the players whose client is told
  view       \* what each has been told

boardVars == <<roster, over, listeners, view>>

Nothing == [q \in Player |-> Absent]

\* Everyone else, as the roster has them after this step.
Shown(l) == [q \in Player |-> IF q = l THEN Absent ELSE roster'[q]]

\* Of the players P what the roster has after this step, of the others what
\* it was before.
Hearing(l, P) == [q \in Player |-> IF q \in P \ {l} THEN roster'[q] ELSE view[l][q]]

\* This step's changes concern the players P.
Hear(P) ==
  view' = [l \in Player |-> IF l \notin listeners' THEN Nothing
                            ELSE IF l \notin listeners THEN Shown(l)
                            ELSE Hearing(l, P)]

Init ==
  /\ roster = Nothing
  /\ over = {}
  /\ listeners = {}
  /\ view = [l \in Player |-> Nothing]

\* A player whose client is already cut off may still enter.
Enter(p) ==
  /\ p \notin over
  /\ roster[p] = Absent
  /\ roster' = [roster EXCEPT ![p] = Unplaced]
  /\ listeners' \in {listeners, listeners \cup {p}}
  /\ Hear({p})
  /\ UNCHANGED over

Move(p, d) ==
  /\ roster[p] # Absent
  /\ roster' = [roster EXCEPT ![p] = d]
  /\ Hear({p})
  /\ UNCHANGED <<over, listeners>>

\* The sessions of P end, of those among them too who never entered.
Leave(P) ==
  /\ roster' = [p \in Player |-> IF p \in P THEN Absent ELSE roster[p]]
  /\ over' = over \cup P
  /\ listeners' = listeners \ P
  /\ Hear(P)

CutOff(p) ==
  /\ listeners' = listeners \ {p}
  /\ Hear({})
  /\ UNCHANGED <<roster, over>>

\* A message of a player whose session has ended is announced after all: that
\* it joined, to who does not see it there, or the state it reports.
Haunt(p) ==
  /\ p \in over
  /\ \E d \in Data \cup {Unplaced} :
       view' = [l \in Player |->
                  IF l \in listeners /\ (d = Unplaced => view[l][p] = Absent)
                  THEN [view[l] EXCEPT ![p] = d]
                  ELSE view[l]]
  /\ UNCHANGED <<roster, over, listeners>>

Next ==
  \/ \E p \in Player : Enter(p) \/ CutOff(p) \/ Haunt(p) \/ \E d \in Data : Move(p, d)
  \/ \E P \in SUBSET (Player \ over) : Leave(P)

Spec == Init /\ [][Next]_boardVars
=============================================================================
