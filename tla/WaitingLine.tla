------------------------------ MODULE WaitingLine ------------------------------
(***************************************************************************)
(* What the waiting queue of the generator promises: the processes stand   *)
(* in line in the order in which they have come, until memory is found for *)
(* them; a refusal costs nobody his place.                                 *)
(***************************************************************************)
EXTENDS SequencesExt

CONSTANT Item

VARIABLE line

Init == line = << >>

Join(p) ==
  /\ p \notin Range(line)
  /\ line' = Append(line, p)

\* Memory has been found for the i-th of them.
Leave(i) == line' = RemoveAt(line, i)

Next == (\E p \in Item : Join(p)) \/ (\E i \in DOMAIN line : Leave(i))

Spec == Init /\ [][Next]_line
================================================================================
