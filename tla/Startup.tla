------------------------------ MODULE Startup ------------------------------
(***************************************************************************)
(* From the fork of the ranks to the end of their first barrier: mpi_init  *)
(* builds the full-mesh socket table and registers the rank with the BPF   *)
(* program, then the rank pins itself to a core and runs mpi_barrier_ring  *)
(* over the table it has built.                                            *)
(*                                                                         *)
(* Rank r goes through the others in order: it accepts from the lower      *)
(* ones and connects to the higher ones.  A connection waits in the accept *)
(* queue of its server, where connect has already returned, and accept     *)
(* takes the oldest one and never asks who it is from.                     *)
(*                                                                         *)
(* A rank that has left the barrier may write to the streams of its table  *)
(* (a NACK to rank 0, after ten seconds), which no rank still in the       *)
(* barrier reads.  What follows the barrier is in Collectives.             *)
(***************************************************************************)
EXTENDS Integers, Sequences, FiniteSets

CONSTANTS N,           \* WORD_SIZE, the number of ranks
          CpuCounts,   \* how many CPUs the host may have
          MapSizes,    \* max_entries of the address maps: 1024 in the code
          MaxFailures  \* bound: forks and binds that fail

ASSUME NAssumption == N \in Nat /\ N >= 1
ASSUME CpuCountsAssumption == CpuCounts \subseteq Nat \ {0}
ASSUME MapSizesAssumption == MapSizes \subseteq Nat \ {0}
ASSUME MaxFailuresAssumption == MaxFailures \in Nat

Rank == 0 .. N-1
None == -1  \* an entry of socket_tcp_fd that no connection has been stored in
Pairs == {pair \in Rank \X Rank : pair[1] # pair[2]}

next(r) == (r + 1) % N
prev(r) == (r - 1 + N) % N

\* The loops of rank r over the other ranks: the first of them, and the one
\* after i.  A loop has ended at N or beyond.
First(r) == IF r = 0 THEN 1 ELSE 0
After(r, i) == IF i + 1 = r THEN i + 2 ELSE i + 1

VARIABLES cpus,     \* the CPUs of the host
          entries,  \* max_entries
          forked,   \* the loop of the parent: ranks below it have been forked
          pc,       \* what rank r is doing
          at,       \* the loop of rank r over the other ranks
          queue,    \* the accept queue of rank r: who has connected, oldest first
          table,    \* table[r][i]: the rank at the other end of socket_tcp_fd[i]
          address_to_proc,  \* the pairs registered in either map
          proc_to_address,
          stream,   \* <<q, r>>: q has sent r a token that r has not read
          failures  \* how many forks and binds have failed

maps == <<address_to_proc, proc_to_address>>
machine == <<cpus, entries>>
vars == <<machine, forked, pc, at, queue, table, maps, stream, failures>>

\* "exited" is an exit before the barrier, "failed" one inside it.
Labels == {"unborn", "sockets", "mesh", "address out", "address in", "proc out",
           "proc in", "pin", "send", "recv", "left", "exited", "failed"}
Dead(r) == pc[r] \in {"exited", "failed"}

Init ==
  /\ cpus \in CpuCounts
  /\ entries \in MapSizes
  /\ forked = 0
  /\ pc = [r \in Rank |-> "unborn"]
  /\ at = [r \in Rank |-> First(r)]
  /\ queue = [r \in Rank |-> <<>>]
  /\ table = [r \in Rank |-> [i \in Rank |-> None]]
  /\ address_to_proc = {}
  /\ proc_to_address = {}
  /\ stream = {}
  /\ failures = 0

GoTo(r, label) == pc' = [pc EXCEPT ![r] = label]

-----------------------------------------------------------------------------
(* The parent.                                                             *)

Fork ==
  /\ forked < N
  /\ forked' = forked + 1
  /\ GoTo(forked, "sockets")
  /\ UNCHANGED <<machine, at, queue, table, maps, stream, failures>>

\* fork returns -1: the loop goes on, and this rank never exists.
ForkFails ==
  /\ forked < N /\ failures < MaxFailures
  /\ forked' = forked + 1
  /\ failures' = failures + 1
  /\ UNCHANGED <<machine, pc, at, queue, table, maps, stream>>

-----------------------------------------------------------------------------
(* mpi_init: the socket table.                                             *)

\* create_udp_socket twice, create_tcp_socket: rank r listens.
Listen(r) ==
  /\ pc[r] = "sockets"
  /\ GoTo(r, "mesh")
  /\ UNCHANGED <<machine, forked, at, queue, table, maps, stream, failures>>

\* One of its binds fails, and the rank exits.
BindFails(r) ==
  /\ pc[r] = "sockets" /\ failures < MaxFailures
  /\ failures' = failures + 1
  /\ GoTo(r, "exited")
  /\ UNCHANGED <<machine, forked, at, queue, table, maps, stream>>

Store(r, i, q) ==
  /\ table' = [table EXCEPT ![r][i] = q]
  /\ at' = [at EXCEPT ![r] = After(r, i)]

\* connect_tcp_peer: connect succeeds once the peer listens, and is tried
\* again until then.
Connect(r) ==
  /\ pc[r] = "mesh" /\ r < at[r] /\ at[r] < N
  /\ pc[at[r]] = "mesh"
  /\ queue' = [queue EXCEPT ![at[r]] = Append(@, r)]
  /\ Store(r, at[r], at[r])
  /\ UNCHANGED <<machine, forked, pc, maps, stream, failures>>

\* accept, once there is a connection.
Accept(r) ==
  /\ pc[r] = "mesh" /\ at[r] < r
  /\ queue[r] # <<>>
  /\ queue' = [queue EXCEPT ![r] = Tail(@)]
  /\ Store(r, at[r], Head(queue[r]))
  /\ UNCHANGED <<machine, forked, pc, maps, stream, failures>>

\* Mutant of EndMesh: the rank closes its server when its own connections are
\* made and some are still to be accepted.
EndMesh_Early(r) ==
  /\ pc[r] = "mesh" /\ (at[r] >= N \/ at[r] = r - 1)
  /\ GoTo(r, "address out")
  /\ at' = [at EXCEPT ![r] = First(r)]
  /\ UNCHANGED <<machine, forked, queue, table, maps, stream, failures>>

\* The table is complete: the rank closes its server.
EndMesh(r) ==
  /\ pc[r] = "mesh" /\ at[r] >= N
  /\ GoTo(r, "address out")
  /\ at' = [at EXCEPT ![r] = First(r)]
  /\ UNCHANGED <<machine, forked, queue, table, maps, stream, failures>>

-----------------------------------------------------------------------------
(* mpi_init: the address maps.                                             *)

\* bpf_map_update_elem: a new key does not go into a full map.  The failure is
\* printed, and the loop goes on.
Updated(map, key) ==
  IF key \in map \/ Cardinality(map) < entries THEN map \cup {key} ELSE map

\* Rank r as the sender, then as the receiver, of the peer its loop is at.
AddressOut(r) ==
  /\ pc[r] = "address out" /\ at[r] < N
  /\ address_to_proc' = Updated(address_to_proc, <<r, at[r]>>)
  /\ GoTo(r, "address in")
  /\ UNCHANGED <<machine, forked, at, queue, table, proc_to_address, stream, failures>>

AddressIn(r) ==
  /\ pc[r] = "address in"
  /\ address_to_proc' = Updated(address_to_proc, <<at[r], r>>)
  /\ GoTo(r, "address out")
  /\ at' = [at EXCEPT ![r] = After(r, at[r])]
  /\ UNCHANGED <<machine, forked, queue, table, proc_to_address, stream, failures>>

\* Mutant of EndAddress: the second map is forgotten.
EndAddress_OneMap(r) ==
  /\ pc[r] = "address out" /\ at[r] >= N
  /\ GoTo(r, "pin")
  /\ UNCHANGED <<machine, forked, at, queue, table, maps, stream, failures>>

EndAddress(r) ==
  /\ pc[r] = "address out" /\ at[r] >= N
  /\ GoTo(r, "proc out")
  /\ at' = [at EXCEPT ![r] = First(r)]
  /\ UNCHANGED <<machine, forked, queue, table, maps, stream, failures>>

ProcOut(r) ==
  /\ pc[r] = "proc out" /\ at[r] < N
  /\ proc_to_address' = Updated(proc_to_address, <<r, at[r]>>)
  /\ GoTo(r, "proc in")
  /\ UNCHANGED <<machine, forked, at, queue, table, address_to_proc, stream, failures>>

ProcIn(r) ==
  /\ pc[r] = "proc in"
  /\ proc_to_address' = Updated(proc_to_address, <<at[r], r>>)
  /\ GoTo(r, "proc out")
  /\ at' = [at EXCEPT ![r] = After(r, at[r])]
  /\ UNCHANGED <<machine, forked, queue, table, address_to_proc, stream, failures>>

EndProc(r) ==
  /\ pc[r] = "proc out" /\ at[r] >= N
  /\ GoTo(r, "pin")
  /\ UNCHANGED <<machine, forked, at, queue, table, maps, stream, failures>>

-----------------------------------------------------------------------------
(* The rank itself.                                                        *)

\* sched_setaffinity to CPU r, without which the rank returns from main.
Pin(r) ==
  /\ pc[r] = "pin"
  /\ GoTo(r, IF r >= cpus THEN "exited" ELSE IF r = 0 THEN "send" ELSE "recv")
  /\ UNCHANGED <<machine, forked, at, queue, table, maps, stream, failures>>

\* mpi_barrier_ring: the token to next.  The send of a rank without a socket
\* for next fails, and nobody looks.
Send(r) ==
  /\ pc[r] = "send"
  /\ stream' = stream \cup {<<r, q>> : q \in {table[r][next(r)]} \ {None}}
  /\ GoTo(r, IF r = 0 THEN "recv" ELSE "left")
  /\ UNCHANGED <<machine, forked, at, queue, table, maps, failures>>

\* Whose token the receive of rank r takes: that of the rank at the other end.
From(r) == table[r][prev(r)]

\* Mutant of Recv: rank 0 does not wait for the token.
Recv_NoWait(r) ==
  /\ pc[r] = "recv" /\ (r = 0 \/ <<From(r), r>> \in stream)
  /\ stream' = stream \ {<<From(r), r>>}
  /\ GoTo(r, IF r = 0 THEN "left" ELSE "send")
  /\ UNCHANGED <<machine, forked, at, queue, table, maps, failures>>

\* The token from prev, which blocks while there is none and the other end
\* lives.
Recv(r) ==
  /\ pc[r] = "recv" /\ <<From(r), r>> \in stream
  /\ stream' = stream \ {<<From(r), r>>}
  /\ GoTo(r, IF r = 0 THEN "left" ELSE "send")
  /\ UNCHANGED <<machine, forked, at, queue, table, maps, failures>>

\* Mutant of RecvFails: a closed connection is read again, for ever.
RecvFails_Retries(r) ==
  /\ pc[r] = "recv" /\ <<From(r), r>> \notin stream
  /\ From(r) = None
  /\ GoTo(r, "failed")
  /\ UNCHANGED <<machine, forked, at, queue, table, maps, stream, failures>>

\* __mpi_recv_tcp without a socket, or at the end of a stream whose sender has
\* exited: the rank exits, with EXIT_SUCCESS.
RecvFails(r) ==
  /\ pc[r] = "recv" /\ <<From(r), r>> \notin stream
  /\ From(r) \in {None} \cup {q \in Rank : Dead(q)}
  /\ GoTo(r, "failed")
  /\ UNCHANGED <<machine, forked, at, queue, table, maps, stream, failures>>

-----------------------------------------------------------------------------

\* What a rank does unless a bind fails.
RankStep(r) ==
  \/ Listen(r) \/ Connect(r) \/ Accept(r) \/ EndMesh(r)
  \/ AddressOut(r) \/ AddressIn(r) \/ EndAddress(r) \/ ProcOut(r) \/ ProcIn(r) \/ EndProc(r)
  \/ Pin(r) \/ Send(r) \/ Recv(r) \/ RecvFails(r)

Next ==
  \/ Fork \/ ForkFails
  \/ \E r \in Rank : RankStep(r) \/ BindFails(r)

\* The parent and the ranks are processes that the kernel schedules; nothing
\* has to fail.
Fairness == WF_vars(Fork) /\ \A r \in Rank : WF_vars(RankStep(r))

Safety == Init /\ [][Next]_vars
Spec == Safety /\ Fairness

-----------------------------------------------------------------------------

\* The variables stay in their types.
TypeOK ==
  /\ cpus \in CpuCounts /\ entries \in MapSizes
  /\ forked \in 0 .. N
  /\ pc \in [Rank -> Labels]
  /\ at \in [Rank -> 0 .. N]
  /\ queue \in [Rank -> Seq(Rank)]
  /\ table \in [Rank -> [Rank -> Rank \cup {None}]]
  /\ address_to_proc \subseteq Pairs /\ proc_to_address \subseteq Pairs
  /\ stream \subseteq Rank \X Rank
  /\ failures \in 0 .. MaxFailures

\* The loop of rank r over the table is behind it.
Meshed(r) == pc[r] \in Labels \ {"unborn", "sockets", "mesh", "exited"}

\* Where rank b holds the connection that the lower rank a has made: in how
\* many places of its table, and of its accept queue.
Stored(a, b) == Cardinality({i \in Rank : table[b][i] = a})
Waiting(a, b) == Cardinality({k \in DOMAIN queue[b] : queue[b][k] = a})

\* Each pair of ranks has exactly one connection.  Its lower end is stored where
\* it belongs; its upper end is in the accept queue or in one place of the
\* table, and none is left in the queue when the server is closed.
OneConnectionPerPair ==
  \A a, b \in Rank : a < b =>
    /\ table[a][b] \in {None, b}
    /\ Stored(a, b) + Waiting(a, b) = IF table[a][b] = b THEN 1 ELSE 0
    /\ Meshed(b) => Stored(a, b) = 1

\* The table of rank r is right where the barrier looks at it.
NeighboursRight(r) == table[r][next(r)] = next(r) /\ table[r][prev(r)] = prev(r)

\* Rank 0 leaves the first barrier only if every rank has been forked, has
\* found its ports, its core and its neighbours and has left the barrier too:
\* a rank that is missing, or whose neighbours are swapped, stops them all
\* before the first broadcast.
GateHolds == pc[0] = "left" => \A r \in Rank : pc[r] = "left" /\ NeighboursRight(r)

\* When rank 0 starts to broadcast, every pair of ranks is registered with the
\* data plane, unless the map is full: the first datagram finds all its hops.
Registered ==
  pc[0] = "left" => proc_to_address = Pairs \/ Cardinality(proc_to_address) = entries

\* The first barrier as the ring barrier sees it.  A rank that fails in its
\* receive never leaves it.
barrierPc == [r \in Rank |-> CASE pc[r] \in {"send", "recv"} -> pc[r]
                              [] pc[r] = "failed" -> "recv"
                              [] OTHER -> "out"]
barrierEntered ==
  [r \in Rank |-> IF pc[r] \in {"send", "recv", "failed", "left"} THEN 1 ELSE 0]
barrierChan == [r \in Rank |-> IF \E q \in Rank : <<r, q>> \in stream THEN 1 ELSE 0]

\* Whatever the ranks have stored in their tables and whoever has exited, what
\* runs is one round of mpi_barrier_ring: a token is never taken by another
\* rank than the next.
FirstBarrier == INSTANCE RingBarrier WITH
  MaxBarriers <- 1, pc <- barrierPc, entered <- barrierEntered, chan <- barrierChan
RunsTheBarrier == FirstBarrier!Safety

\* No rank is left waiting: unless a rank is missing from the start or a
\* neighbour is swapped, every rank is through the barrier or has exited, that
\* is, a rank that cannot be pinned takes those that wait for it with it.
Settled == \A r \in Rank : pc[r] = "left" \/ Dead(r)
Swapped == \E r \in Rank : Meshed(r) /\ ~NeighboursRight(r)
EveryoneSettles == <>(Settled \/ Swapped \/ failures > 0)

\* With a core for every rank and nothing failing, every rank gets through the
\* first barrier to its first broadcast ("warmup loop, barrier, algo(), barrier,
\* write timing CSV, exit", AGENT.md).
ReachesTheBroadcast == <>(\/ \A r \in Rank : pc[r] = "left"
                         \/ cpus < N \/ failures > 0)

-----------------------------------------------------------------------------

\* The inductive invariant.  A rank that has not been forked has done nothing.
Unforked == \A r \in Rank : r >= forked => pc[r] = "unborn"

\* Lower ranks connect, higher ranks accept: below r the table has lower ranks,
\* in any order, above r it is right, and it is complete once its loop is over.
TableInv ==
  /\ \A r \in Rank : at[r] # r /\ table[r][r] = None
  /\ \A r \in Rank : \A k \in DOMAIN queue[r] : queue[r][k] < r
  /\ \A r, i \in Rank : i < r => table[r][i] < r
  /\ \A r, i \in Rank : r < i => table[r][i] \in {None, i}
  /\ \A r, i \in Rank : i # r /\ (Meshed(r) \/ (pc[r] = "mesh" /\ i < at[r])) => table[r][i] # None
  /\ \A r \in Rank : pc[r] \in {"unborn", "sockets"} => at[r] = First(r)

\* A pair is registered, or the map is full and stays so.
Room == Cardinality(proc_to_address) < entries
Noted(a, b) == <<a, b>> \in proc_to_address \/ ~Room
MapInv ==
  /\ Cardinality(proc_to_address) <= entries
  /\ \A r \in Rank : pc[r] \in {"address in", "proc in"} => at[r] < N
  /\ \A r \in Rank : pc[r] = "proc in" => Noted(r, at[r])
  /\ \A r, i \in Rank :
       /\ i # r
       /\ \/ pc[r] \in {"proc out", "proc in"} /\ i < at[r]
          \/ pc[r] \in {"pin", "send", "recv", "left", "failed"}
       => Noted(r, i) /\ Noted(i, r)

\* Whether rank r has sent its token, and has received the one of prev.
Sent(r) == IF r = 0 THEN pc[r] \in {"recv", "left", "failed"} ELSE pc[r] = "left"
Got(r) == IF r = 0 THEN pc[r] = "left" ELSE pc[r] \in {"send", "left"}

\* A token is where its sender's table says.  A rank that has the token has it
\* over the right connection, and all ranks before it have sent it.
TokenInv == \A q, s \in Rank : <<q, s>> \in stream => Sent(q) /\ table[q][next(q)] = s
LinkRight(r) == table[prev(r)][r] = r /\ table[r][prev(r)] = prev(r)
ChainInv ==
  \A r \in Rank : Got(r) =>
    LinkRight(r) /\ \A q \in Rank : (q < r \/ r = 0) => Sent(q)

\* The counting: what the loop over the table has still to fill is empty, and a
\* connection that has been made is in the table or in the queue of its upper
\* end, once.
MeshInv ==
  /\ \A r, i \in Rank : pc[r] \in {"unborn", "sockets", "mesh"} /\ i >= at[r] => table[r][i] = None
  /\ \A a, b \in Rank : a < b =>
       Stored(a, b) + Waiting(a, b) = IF table[a][b] = b THEN 1 ELSE 0

IInv == TypeOK /\ Unforked /\ TableInv /\ MapInv /\ TokenInv /\ ChainInv
=============================================================================
