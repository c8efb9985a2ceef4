---------------------------- MODULE MCXdpForward ----------------------------
(* XdpForward for TLC: every pair of ranks is registered, as mpi_init does   *)
(* for up to 32 ranks.                                                       *)
EXTENDS XdpForward

AllPairs == {pair \in Rank \X Rank : pair[1] # pair[2]}
AllOpcodes == {"MPI_SEND", "MPI_BCAST_RING", "MPI_BCAST_LINEAR"}
Broadcasts == {"MPI_BCAST_RING", "MPI_BCAST_LINEAR"}
=============================================================================
