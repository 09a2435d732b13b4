------------------------------ MODULE MCServer ------------------------------
(* Server with two or three clients; the descriptors follow the listener's. *)
EXTENDS Server, TLC

CONSTANTS c1, c2, c3

MCThreeClients == {c1, c2, c3}
MCTwoClients == {c1, c2}

(* c1 sends ahead and c3 asks nothing; or all wait; or nobody asks.        *)
MCImpatient == [c \in Client |-> CASE c = c1 -> 2 [] c = c2 -> 1 [] c = c3 -> 0]
MCOneEach == [c \in Client |-> 1]
MCSilent == [c \in Client |-> 0]

(* The requests of c2, or of c1, may come in two pieces.                   *)
MCSecondInPieces == [c \in Client |-> IF c = c2 THEN 2 ELSE 1]
MCFirstInPieces == [c \in Client |-> IF c = c1 THEN 2 ELSE 1]
=============================================================================
