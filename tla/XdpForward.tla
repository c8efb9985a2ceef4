----------------------------- MODULE XdpForward -----------------------------
(***************************************************************************)
(* The data plane of a broadcast: what happens to one UDP datagram between *)
(* the sendto of the root and the sockets of the other ranks.              *)
(*                                                                         *)
(*   sendto -> cable -> mirror host (swaps addresses) -> cable -> NIC      *)
(*   NIC: kfunc -> handle_original: deliver, and ask the driver for copies *)
(*        each copy: kfunc -> handle_clone: rewrite and XDP_TX, or discard *)
(*                                                                         *)
(* The driver (XDP_CLONE_PASS) and the UDP sockets are external: they are  *)
(* modelled by what the programs rely on.  A packet is the header fields   *)
(* the programs read or write; "id" stands for seq, id and payload, which  *)
(* they never touch.  MPI_BCAST, which no algorithm of MPI.c sends, is     *)
(* left out.                                                               *)
(***************************************************************************)
EXTENDS Integers, Sequences, FiniteSets

CONSTANTS N,         \* WORD_SIZE: the ranks, and the value in the map num_process
          Roots,     \* the ranks that send
          Opcodes,   \* the opcodes they send with
          Known,     \* the keys <<src, dst>> of the map proc_to_address
          MaxSends,  \* bound: datagrams sent
          MaxLoss    \* bound: packets lost

ASSUME NAssumption == N \in Nat /\ N >= 2
Rank == 0 .. N-1
ASSUME RootsAssumption == Roots \subseteq Rank
ASSUME OpcodesAssumption ==
  Opcodes \subseteq {"MPI_SEND", "MPI_BCAST_RING", "MPI_BCAST_LINEAR"}
\* mpi_init registers pairs of different ranks, and only those.
ASSUME KnownAssumption ==
  Known \subseteq {pair \in Rank \X Rank : pair[1] # pair[2]}
ASSUME MaxSendsAssumption == MaxSends \in Nat
ASSUME MaxLossAssumption == MaxLoss \in Nat

next(r) == (r + 1) % N
prev(r) == (r - 1 + N) % N

Addresses == {"MAESTRALE_IP", "GRECALE_IP"}
Places == {"cable", "nic", "copy"}

\* "port" is the rank whose UDP socket has the destination port, "copy" the
\* number the driver writes in the metadata of a copy (0: no metadata).
\* "path" is history: the copies this packet descends from, which keeps any
\* two packets in flight apart.
Packet == [op : Opcodes, root : Rank, src : Rank, dst : Rank, id : 1 .. MaxSends,
           saddr : Addresses, port : Rank, copy : 0 .. N, path : Seq(0 .. N),
           at : Places]

VARIABLES net,     \* the packets in flight
          sock,    \* sock[r]: the datagrams queued in the UDP socket of rank r
          log,     \* history: the datagrams as they were sent, in order
          losses,  \* how many packets have been lost
          full     \* history: the pairs <<r, id>> a full socket of rank r has cost

netVars == <<net, sock, log, losses, full>>

NetInit ==
  /\ net = {}
  /\ sock = [r \in Rank |-> <<>>]
  /\ log = <<>>
  /\ losses = 0
  /\ full = {}

\* The datagram that rank root addresses to rank dest: sendto to GRECALE_IP,
\* at the port of dest.
Datagram(op, root, dest) ==
  [op |-> op, root |-> root, src |-> root, dst |-> dest, id |-> Len(log) + 1,
   saddr |-> "MAESTRALE_IP", port |-> dest, copy |-> 0, path |-> <<>>,
   at |-> "cable"]

\* __mpi_send of one datagram.
SendTo(op, root, dest) ==
  /\ Len(log) < MaxSends
  /\ net' = net \cup {Datagram(op, root, dest)}
  /\ log' = Append(log, Datagram(op, root, dest))
  /\ UNCHANGED <<sock, losses, full>>

\* mirror: a UDP datagram from MAESTRALE_IP goes back with the addresses
\* swapped; any other goes to the mirror host's own stack and is gone.
Mirrored(p) == [p EXCEPT !.saddr = "GRECALE_IP", !.at = "nic"]
Mirror(p) ==
  /\ p.at = "cable"
  /\ net' = (net \ {p}) \cup (IF p.saddr = "MAESTRALE_IP" THEN {Mirrored(p)} ELSE {})
  /\ UNCHANGED <<sock, log, losses, full>>

\* Mutants of handle_original.  The number of datagrams a ring hop makes is that
\* of a fan-out.
handle_original_RingFansOut(p) ==
  CASE p.op \in {"MPI_BCAST_RING", "MPI_BCAST_LINEAR"} /\ p.root # p.dst -> N
    [] OTHER -> 0

\* Every rank of a linear broadcast fans out, not only the first: the test of
\* root_host == src_host is missing.
handle_original_AllFanOut(p) ==
  CASE p.op = "MPI_BCAST_RING" /\ p.root # p.dst -> 1
    [] p.op = "MPI_BCAST_LINEAR" /\ p.root # p.dst -> N
    [] OTHER -> 0

\* The root is compared with the source, not with the destination.
handle_original_StopsAtSource(p) ==
  CASE p.op = "MPI_BCAST_RING" /\ p.root # p.src -> 1
    [] p.op = "MPI_BCAST_LINEAR" /\ p.root # p.src -> N
    [] OTHER -> 0

\* handle_original: how many copies the verdict asks for.  XDP_PASS is 0,
\* XDP_CLONE_PASS(n) is n; either way the original goes up the stack.
handle_original(p) ==
  CASE p.op = "MPI_BCAST_RING" /\ p.root # p.dst -> 1
    [] p.op = "MPI_BCAST_LINEAR" /\ p.root # p.dst /\ p.root = p.src -> N
    [] OTHER -> 0

\* XDP_CLONE_PASS(n): the driver makes copies 1 .. n of the packet.
Copy(p, k) == [p EXCEPT !.copy = k, !.path = Append(@, k), !.at = "copy"]
Copies(p, n) == {Copy(p, k) : k \in 1 .. n}

\* Packet p goes to the UDP socket its port names, or is dropped there if the
\* receive buffer is full.
ToSocket(p) ==
  \/ /\ sock' = [sock EXCEPT ![p.port] = Append(@, p)]
     /\ UNCHANGED <<losses, full>>
  \/ /\ losses < MaxLoss
     /\ losses' = losses + 1
     /\ full' = full \cup {<<p.port, p.id>>}
     /\ UNCHANGED sock

\* kfunc on a packet without metadata, and the driver carrying out its verdict.
\* kfunc drops what does not come from GRECALE_IP, but all that the mirror sends
\* does.
HandleOriginal(p) ==
  /\ p.at = "nic" /\ p.saddr = "GRECALE_IP"
  /\ net' = (net \ {p}) \cup Copies(p, handle_original(p))
  /\ ToSocket(p)
  /\ UNCHANGED log

\* Mutant: a copy is transmitted even when its next hop is the root.
Continues_ToTheRoot(c, hop) ==
  /\ c.op \in {"MPI_BCAST_RING", "MPI_BCAST_LINEAR"}
  /\ c.root # c.dst
  /\ <<c.dst, hop>> \in Known

\* Whether handle_clone transmits copy c to hop.
Continues(c, hop) ==
  /\ c.op \in {"MPI_BCAST_RING", "MPI_BCAST_LINEAR"}
  /\ c.root # c.dst
  /\ c.root # hop
  /\ <<c.dst, hop>> \in Known

\* Mutant: the source in the MPI header is left as it was.
Rewritten_SameSource(c, hop) ==
  [c EXCEPT !.dst = hop, !.port = hop, !.saddr = "MAESTRALE_IP", !.copy = 0, !.at = "cable"]

\* The header fields handle_clone writes, the addresses and ports those of
\* proc_to_address[<<c.dst, hop>>].
Rewritten(c, hop) ==
  [c EXCEPT !.src = c.dst, !.dst = hop, !.port = hop,
            !.saddr = "MAESTRALE_IP", !.copy = 0, !.at = "cable"]

\* handle_clone: what is transmitted for copy c, and to whom.  Every XDP_PASS is
\* the empty set, since the driver discards a copy that is not transmitted.
Hop(c) == (c.dst + c.copy) % N
handle_clone(c) == IF Continues(c, Hop(c)) THEN {Rewritten(c, Hop(c))} ELSE {}

\* Mutant: a copy that is not transmitted is never released.
HandleClone_Leaks(c) ==
  /\ c.at = "copy"
  /\ net' = IF handle_clone(c) = {} THEN net ELSE (net \ {c}) \cup handle_clone(c)
  /\ UNCHANGED <<sock, log, losses, full>>

\* kfunc on a packet with metadata.
HandleClone(c) ==
  /\ c.at = "copy" /\ c.saddr = "GRECALE_IP"
  /\ net' = (net \ {c}) \cup handle_clone(c)
  /\ UNCHANGED <<sock, log, losses, full>>

\* A packet is lost on the cable, in the mirror or in a receive ring.
Lose(p) ==
  /\ losses < MaxLoss
  /\ net' = net \ {p}
  /\ losses' = losses + 1
  /\ UNCHANGED <<sock, log, full>>

\* What moves the packets in flight.
Forward == \E p \in net : Mirror(p) \/ HandleOriginal(p) \/ HandleClone(p) \/ Lose(p)

-----------------------------------------------------------------------------
(* On its own: a broadcast starts with one datagram from the root to the    *)
(* next rank, and a point-to-point datagram can go to any rank.            *)

\* Mutant: the root starts with the rank before it.
FirstHop_Backwards(root) == prev(root)
FirstHop(root) == next(root)

Send ==
  \E op \in Opcodes, root \in Roots, dest \in Rank :
    /\ IF op = "MPI_SEND" THEN dest # root ELSE dest = FirstHop(root)
    /\ SendTo(op, root, dest)

Init == NetInit
Next == Send \/ Forward

\* The cable, the mirror and the NIC keep working; nothing must be sent and
\* nothing must be lost.
Working(p) == Mirror(p) \/ HandleOriginal(p) \/ HandleClone(p)
Fairness == WF_netVars(\E p \in net : Working(p))

Spec == Init /\ [][Next]_netVars /\ Fairness

-----------------------------------------------------------------------------

\* The variables stay in their types.
TypeOK ==
  /\ net \subseteq Packet
  /\ sock \in [Rank -> Seq(Packet)]
  /\ log \in Seq(Packet) /\ Len(log) <= MaxSends
  /\ losses \in 0 .. MaxLoss
  /\ full \subseteq Rank \X (1 .. MaxSends)

Delivered(r, id) == \E i \in DOMAIN sock[r] : sock[r][i].id = id

\* The socket of a rank receives no datagram twice: cloning and forwarding
\* make exactly one packet for each rank, in either topology.
AtMostOnce ==
  \A r \in Rank : \A i, j \in DOMAIN sock[r] :
    sock[r][i].id = sock[r][j].id => i = j

\* The broadcast stops before it is back at the root.
NeverToRoot ==
  \A r \in Rank : \A i \in DOMAIN sock[r] : sock[r][i].root # r

\* A datagram ends in the socket of the rank its header names, and its header
\* names as its source the rank it really came through: the predecessor on
\* the ring, or the rank the fan-out happened at.
RightSocket ==
  \A r \in Rank : \A i \in DOMAIN sock[r] :
    LET p == sock[r][i]
    IN  /\ p.dst = r
        /\ p.op = "MPI_BCAST_RING" => p.src = prev(r)
        /\ p.op = "MPI_BCAST_LINEAR" =>
             p.src = IF r = next(p.root) THEN p.root ELSE next(p.root)

\* How far rank r is from root, down the ring.
Distance(root, r) == (r - root + N) % N

\* The ring hands a datagram down in order: whoever has it, all the ranks
\* between the root and them have had it, if only to drop it at a full socket.
\* So the ranks a loss leaves without the datagram are all those from there on.
RingPrefix ==
  \A r \in Rank : \A i \in DOMAIN sock[r] :
    LET p == sock[r][i]
    IN  p.op = "MPI_BCAST_RING" =>
          \A q \in Rank : 0 < Distance(p.root, q) /\ Distance(p.root, q) < Distance(p.root, r)
            => Delivered(q, p.id) \/ <<q, p.id>> \in full

\* The fan-out happens at the first rank: no rank has a datagram that the
\* rank after the root has not had.
FanOutFirst ==
  \A r \in Rank : \A i \in DOMAIN sock[r] :
    LET p == sock[r][i]
    IN  p.op = "MPI_BCAST_LINEAR" =>
          Delivered(next(p.root), p.id) \/ <<next(p.root), p.id>> \in full

\* A datagram is in flight to a rank, counting what its copies may become.
InFlight(id) == \E p \in net : p.id = id

\* Whether datagram id has been sent, to be broadcast.
Broadcast(id) == \E i \in DOMAIN log : i = id /\ log[i].op # "MPI_SEND"

Covered(id) ==
  \E i \in DOMAIN log :
    i = id /\ \A q \in Rank : q # log[i].root => Delivered(q, id)

\* Unless a packet is lost, a broadcast datagram reaches every rank but the root.
Coverage == \A id \in 1 .. MaxSends : Broadcast(id) ~> Covered(id) \/ losses > 0

\* A datagram leaves the data plane: no broadcast circulates for ever.
Drains ==
  \A id \in 1 .. MaxSends : InFlight(id) ~> ~InFlight(id)

-----------------------------------------------------------------------------

\* The inductive invariant.  What the header of a packet looks like on its way.
WellFormed(p) ==
  /\ p.port = p.dst /\ p.dst # p.root
  /\ p.id <= Len(log)
  /\ p.copy \in IF p.at = "copy" THEN 1 .. N ELSE {0}
  /\ p.at = "copy" => p.op # "MPI_SEND"
  /\ p.op = "MPI_BCAST_RING" => p.src = prev(p.dst) /\ p.copy <= 1
  /\ p.op = "MPI_BCAST_LINEAR" =>
       IF p.src = p.root THEN p.dst = next(p.root)
       ELSE p.src = next(p.root) /\ p.dst # next(p.root) /\ p.at # "copy"

\* The ranks a packet claims: those that it, or what its copies become, may
\* still be delivered to.
Claim(p) ==
  CASE p.op = "MPI_SEND" -> {p.dst}
    [] p.op = "MPI_BCAST_RING" ->
         {q \in Rank : \/ Distance(p.root, p.dst) < Distance(p.root, q)
                       \/ p.at # "copy" /\ q = p.dst}
    [] p.op = "MPI_BCAST_LINEAR" ->
         IF p.at = "copy" THEN {Hop(p)} \ {p.root, p.dst}
         ELSE IF p.src = p.root THEN Rank \ {p.root}
         ELSE {p.dst}

\* The ranks that a packet has behind it have had its datagram.
Had(r, id) == Delivered(r, id) \/ <<r, id>> \in full
Behind(p) ==
  /\ p.op = "MPI_BCAST_RING" =>
       \A q \in Rank :
         /\ 0 < Distance(p.root, q)
         /\ \/ Distance(p.root, q) < Distance(p.root, p.dst)
            \/ p.at = "copy" /\ q = p.dst
         => Had(q, p.id)
  /\ p.op = "MPI_BCAST_LINEAR" /\ (p.at = "copy" \/ p.src # p.root) =>
       Had(next(p.root), p.id)

NetInv == \A p \in net : WellFormed(p) /\ Behind(p)
SockInv ==
  \A r \in Rank : \A i \in DOMAIN sock[r] :
    LET p == sock[r][i]
    IN  WellFormed(p) /\ Behind(p) /\ p.at # "copy" /\ p.dst = r

\* No two packets claim the same rank for the same datagram, and none claims a
\* rank that has it.
ClaimsApart ==
  \A p, q \in net : p # q /\ p.id = q.id => Claim(p) \cap Claim(q) = {}
ClaimsOpen ==
  \A p \in net : \A r \in Claim(p) : ~Delivered(r, p.id)

ForwardInv == TypeOK /\ NetInv /\ SockInv /\ ClaimsApart /\ ClaimsOpen /\ AtMostOnce
=============================================================================
