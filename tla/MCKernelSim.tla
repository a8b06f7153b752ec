----------------------------- MODULE MCKernelSim ------------------------------
(***************************************************************************)
(* Small instances of KernelSim: the input files of the runs.              *)
(***************************************************************************)
EXTENDS KernelSim

CONSTANTS p1, p2, p3

Line(a, e, pr, m) == [arrival |-> a, exec |-> e, priority |-> pr, mem |-> m]

\* Two arrive together and one later; memory for two small or one large.
Trio == (p1 :> Line(0, 2, 5, 1)) @@ (p2 :> Line(0, 1, 3, 2)) @@ (p3 :> Line(2, 1, 7, 1))
\* The CPU is idle before the first and before the others.
Gap == (p1 :> Line(1, 1, 5, 1)) @@ (p2 :> Line(4, 1, 3, 2)) @@ (p3 :> Line(4, 1, 7, 1))
TrioWorkloads == {Trio, Gap}

\* All fit into memory at once; the others are shorter than what is left of
\* the first when they come.
Fitting == (p1 :> Line(0, 3, 5, 1)) @@ (p2 :> Line(1, 1, 3, 1)) @@ (p3 :> Line(1, 1, 3, 1))
FittingWorkloads == {Fitting}

\* A first process that needs three quanta.
Long == (p1 :> Line(0, 3, 5, 1)) @@ (p2 :> Line(0, 1, 3, 1)) @@ (p3 :> Line(1, 1, 7, 1))
LongWorkloads == {Long}

\* Two processes for the runs without Timely, and one with a runtime of zero.
Pair == (p1 :> Line(0, 2, 5, 1)) @@ (p2 :> Line(1, 1, 3, 2))
Zero == (p1 :> Line(0, 0, 5, 1)) @@ (p2 :> Line(0, 1, 3, 1))
PairWorkloads == {Pair, Zero}

\* The second process cannot be given memory before the first is gone.
Late == (p1 :> Line(0, 1, 5, 2)) @@ (p2 :> Line(0, 1, 3, 2))
LateWorkloads == {Late}
================================================================================
