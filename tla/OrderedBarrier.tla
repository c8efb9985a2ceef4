--------------------------- MODULE OrderedBarrier ---------------------------
(***************************************************************************)
(* What mpi_barrier_ring promises, without its token or its streams.       *)
(*                                                                         *)
(* Every rank passes a sequence of barriers.  The ranks leave the k-th one *)
(* in the order 1, 2, ..., N-1, 0, and none leaves before rank 0 has       *)
(* entered it.  So rank 0, alone, learns that every rank has been there:   *)
(* it is the last to leave.                                                *)
(***************************************************************************)
EXTENDS Integers

CONSTANTS N,           \* WORD_SIZE, the number of ranks
          MaxBarriers  \* bound: the barriers a rank passes


Rank == 0 .. N-1

VARIABLES entered,  \* entered[r]: barriers rank r has entered
          left      \* left[r]: barriers rank r has left

vars == <<entered, left>>

Init == /\ entered = [r \in Rank |-> 0]
        /\ left = [r \in Rank |-> 0]

Enter(r) ==
  /\ entered[r] = left[r]
  /\ entered[r] < MaxBarriers
  /\ entered' = [entered EXCEPT ![r] = @ + 1]
  /\ UNCHANGED left

\* The ranks that leave a barrier before r does.
LeavesBefore(r) == IF r = 0 THEN Rank \ {0} ELSE 1 .. r-1

Leave(r) ==
  /\ left[r] < entered[r]
  /\ entered[0] >= entered[r]
  /\ \A q \in LeavesBefore(r) : left[q] >= entered[r]
  /\ left' = [left EXCEPT ![r] = @ + 1]
  /\ UNCHANGED entered

Next == \E r \in Rank : Enter(r) \/ Leave(r)

Spec == Init /\ [][Next]_vars
=============================================================================
