---------------------------- MODULE MCTcForward ----------------------------
(* TcForward for TLC: every pair of ranks is registered.                    *)
EXTENDS TcForward

AllPairs == {pair \in Rank \X Rank : pair[1] # pair[2]}
AllOpcodes == {"MPI_SEND", "MPI_BCAST_RING", "MPI_BCAST_LINEAR"}
=============================================================================
