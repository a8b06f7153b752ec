------------------------------ MODULE MCStructures ------------------------------
(***************************************************************************)
(* The data structures of the program side by side: the three of DS/, and  *)
(* the tree of memory_manager.c for requests that differ widely.  Each     *)
(* behaviour is about one of them, the subject, and leaves the others      *)
(* empty.                                                                  *)
(***************************************************************************)
EXTENDS MinHeap, WaitingQueue, ArrivalQueue

CONSTANTS
  p1, p2, p3, p4, p5,
  Depth, Client, Sizes   \* of BuddyMemory, with Client for Proc

ItemIds == 1..4
HeapIds == 1..5
KeyValues == 1..3

Symmetry == Permutations(Client)

VARIABLES
  subject,                \* "memory", "heap", "waiting" or "arrivals"
  mem, booked, resident   \* see BuddyMemory

Memory == INSTANCE MCBuddyMemory WITH Proc <- Client

memoryVars == <<mem, booked, resident>>
structuresVars == <<subject, memoryVars, heapVars, ringsVars, arrivalsVars>>

StructuresInit ==
  /\ subject \in {"memory", "heap", "waiting", "arrivals"}
  /\ Memory!Init
  /\ HeapInit /\ (subject # "heap" => key = [p \in Proc |-> CHOOSE k \in Keys : TRUE])
  /\ RingsInit
  /\ ArrivalsInit

StructuresNext ==
  \/ subject = "memory" /\ Memory!Next /\ UNCHANGED <<heapVars, ringsVars, arrivalsVars>>
  \/ subject = "heap" /\ HeapNext /\ UNCHANGED <<memoryVars, ringsVars, arrivalsVars>>
  \/ subject = "waiting" /\ RingsNext /\ UNCHANGED <<memoryVars, heapVars, arrivalsVars>>
  \/ subject = "arrivals" /\ ArrivalsNext /\ UNCHANGED <<memoryVars, heapVars, ringsVars>>

StructuresSpec == StructuresInit /\ [][StructuresNext /\ UNCHANGED subject]_structuresVars
--------------------------------------------------------------------------------
\* The allocator for empty and for very different requests, where blocks may overlap
\* or be unlinked: no block is left to a process that is gone, and the search of the
\* code, which also runs into blocks below others, is the one of the model.
MemoryIsKept == subject = "memory" => Memory!BlocksHaveOwners /\ Memory!SearchAgrees
================================================================================
