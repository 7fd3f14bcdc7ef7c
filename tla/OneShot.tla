------------------------------- MODULE OneShot -------------------------------
(***************************************************************************)
(* What a fragment set promises to the connections of a query: a cell that *)
(* one caller claims and then fills exactly once.  Whoever reads the cell  *)
(* reads the value it was filled with, and a reader may also give up and   *)
(* leave with nothing.                                                     *)
(***************************************************************************)
CONSTANTS
  Cell,       \* the cells
  Reader,     \* whoever may read a cell
  Value,      \* what a cell can be filled with
  Nothing     \* an unfilled cell; what a reader that gave up has

VARIABLES
  claimed,    \* the cells somebody undertook to fill
  value,      \* value[s]: the content of cell s, or Nothing
  seen        \* seen[r]: what reader r left with, or Nothing

vars == <<claimed, value, seen>>

Init ==
  /\ claimed = {}
  /\ value = [s \in Cell |-> Nothing]
  /\ seen = [r \in Reader |-> Nothing]

Claim(s) ==
  /\ s \notin claimed
  /\ claimed' = claimed \cup {s}
  /\ UNCHANGED <<value, seen>>

Fill(s) ==
  /\ s \in claimed
  /\ value[s] = Nothing
  /\ \E v \in Value : value' = [value EXCEPT ![s] = v]
  /\ UNCHANGED <<claimed, seen>>

Read(r, s) ==
  /\ seen[r] = Nothing
  /\ value[s] # Nothing
  /\ seen' = [seen EXCEPT ![r] = value[s]]
  /\ UNCHANGED <<claimed, value>>

Next ==
  \/ \E s \in Cell : Claim(s) \/ Fill(s)
  \/ \E r \in Reader, s \in Cell : Read(r, s)

Spec == Init /\ [][Next]_vars
=============================================================================
