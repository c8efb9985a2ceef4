--------------------------- MODULE MCCollectives ---------------------------
(* Collectives for TLC: any rank may send, and every pair is registered.    *)
EXTENDS Collectives

AllPairs == {pair \in Rank \X Rank : pair[1] # pair[2]}
AllOpcodes == {"MPI_SEND", "MPI_BCAST_RING", "MPI_BCAST_LINEAR"}

\* The broadcasts whose root waits for an answer of every rank, and the others.
Waiting == {"mpi_bcast_ring_xdp", "mpi_bcast_linear_xdp", "mpi_bcast_linear"}
Relaxed == {"mpi_bcast_ring", "mpi_bcast_ring_xdp_eager"}
AnyOfThem == Waiting \cup Relaxed
=============================================================================
