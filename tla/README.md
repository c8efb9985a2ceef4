# XDP-MPI-Collectives: a TLA+ model

This directory specifies, model-checks and proves properties of the broadcast
benchmark in `src/`: ranks that are forked processes, a broadcast that is one
UDP datagram multiplied and forwarded by a BPF program on the NIC, and a TCP
mesh that carries answers, retransmissions and barriers.

## 1. The system

| Component | Where | State | Operations | Interacts with |
|---|---|---|---|---|
| Start-up | `mpi_collective.c:49-371` | sockets, address maps | `mpi_init`, connect/accept loop, registration | every rank with every other |
| TCP transport | `mpi_collective.c:508-917` | one byte stream per ordered pair | `__mpi_send_tcp`, `__mpi_recv_tcp`, `__mpi_send_tcp_lost_packet` | barrier, broadcasts |
| Barrier | `mpi_collective.c:2501-2532` | the rank's place in the call | `mpi_barrier_ring` | TCP streams of ring neighbours |
| XDP broadcasts | `mpi_collective.c:919-1227, 1947-2459, 2685-2904` | buffer, fragments, the answer awaited | `__mpi_send`, `mpi_recv`, `mpi_bcast_ring_xdp`, `mpi_bcast_linear_xdp` | UDP sockets, TCP streams |
| Eager and naive broadcasts | `mpi_collective.c:1229-1945, 2628-2683, 2906-2929` | the same, fewer answers | `mpi_send`, `mpi_recv_no_ack`, ... | the same |
| XDP data plane | `bpf/xdp/mpi_xdp.bpf.c` | packets; three maps it only reads | `kfunc`, `handle_original`, `handle_clone` | NIC driver, UDP sockets |
| Mirror host | `mirror/mirror.bpf.c` | none | swap addresses and send back | cable |
| TC data plane | `bpf/tc/mpi_tc.bpf.c` | as XDP | as XDP, with other verdicts | as XDP |
| Byte order, fragmentation | `hton.h`, parts of `__mpi_send`, `mpi_recv` | none | split, reassemble, convert | broadcasts |
| Reductions | `mpi_collective.c:2931-4045` | accumulator | not reached by any call | - |
| Main program | `MPI.c` | none of its own | options, fork, barrier/broadcast loop, CSV | all of the above |
| Loader, tools, scripts | `my_ebpf.c`, `mirror.c`, `tx.c`, `packet.c`, `run_tests.py`, `profiling/` | - | input and output | - |

What is hard about it:

* **Start-up.** Ranks come up in any order, connect when the other end happens to
  listen, and store an accepted connection without asking who it is from.
* **Interleaving.** Ranks run in parallel and a barrier lets them drift apart;
  originals, copies and the copies of later hops are in flight at once.
* **Shared streams.** Barrier tokens (52 bytes), answers (48 bytes) and
  retransmitted payloads use the same TCP stream per pair; nothing but their
  order and length tells them apart. Tag, seq and id of the header are written
  and never compared.
* **Loss and time.** A datagram may be lost on the cable, in the mirror, in a
  receive ring or at a full socket; a receive gives up after ten seconds; the
  late datagram can still arrive.
* **Termination in the data plane.** Every hop clones; only comparisons of the
  rank numbers in the MPI header stop a broadcast from circulating.

What makes each component correct:

* Start-up: who broadcasts has every rank, the right neighbours and all pairs
  registered; a rank that cannot go on does not leave others in a broadcast.
* Cutting and conversion: what comes out of a receive is what went into the send,
  for every size and order of arrival; what is not whole does not touch the buffer.
* Barrier: who may have left when a rank leaves; rounds never mix; all get through.
* Data plane: each rank but the root gets each datagram once, in its own socket,
  and the packet population dies out; what one loss costs.
* Broadcasts: the content of the k-th broadcast is in every buffer when the root
  returns from its k-th call; answers and tokens are never confused; a lost
  datagram is recovered; every call returns.

The full list of hazards with the line where each bites is in `PROJECT.json`.

## 2. The modules

```
OrderedBarrier <--- RingBarrier <--- RingBarrierProofs
 (abstract)    refines  ^    ^
        instance        |    |   refines (RunsTheBarrier)
   (RunsTheBarriers)    |    +-------- Startup <--- StartupProofs
                        |
XdpForward <- TcForward <- Collectives ---refines---> Broadcast (abstract)
                                                   (unlabelled arrows: EXTENDS)
MCXdpForward extends XdpForward, MCTcForward TcForward, MCCollectives Collectives

XdpForwardProofs <- TcForwardProofs <- CollectivesProofs <- DeliveryProofs
Payload <--- PayloadProofs             (each extends what it is named after too)
Counting: lemmas, in StartupProofs and CollectivesProofs
```

| Module | Models | State and actions in terms of the code |
|---|---|---|
| `Startup` | the fork loop of `MPI.c`, `mpi_init`, the pinning, the first `mpi_barrier_ring` | `pc` and `at` are a rank's place in `mpi_init` and in its loops, `queue[r]` the accept queue of its server, `table[r]` its `socket_tcp_fd`, as the rank at the other end of each socket; `address_to_proc` and `proc_to_address` the BPF maps. One action per system call that other ranks notice |
| `Payload` | `__mpi_send`, `mpi_recv`, `mpi_recv_no_ack`, `generic_hton` | one payload: `seq` is the sender's loop, `net` the datagrams, `fragment`, `total_recv`, `i`, `offset`, `buf` the receiver's locals. A byte is its position in the sender's buffer, so that misplaced bytes are told from right ones |
| `OrderedBarrier` | the promise of the barrier | counters of barriers entered and left per rank |
| `RingBarrier` | `mpi_barrier_ring` | `pc` is the rank's place in the call, `chan[r]` the tokens on the stream to its successor, `entered` is history. `Enter`, `Send`, `Recv` are the call, `__mpi_send_tcp` and `__mpi_recv_tcp` |
| `XdpForward` | sendto, mirror, `kfunc`, driver, sockets | `net` holds the packets on the cable, at the NIC and as copies; `sock[r]` is the UDP socket queue. `Mirror`, `HandleOriginal`, `HandleClone` are one run of a BPF program each, with what the driver does with its verdict; `Lose` and the second half of `ToSocket` are loss |
| `TcForward` | the same with the program of `bpf/tc` | `TcPass`, `TcSendOn`, `TcEnd`, `TcCloneFails` are one run of `kfunc` on an unmarked packet, by what `handle_original` and `handle_clone` do with it; `TcMarked` its run on the marked clone |
| `Broadcast` | the promise of a broadcast | started, returned, content of each buffer |
| `Collectives` | the benchmark loop of `MPI.c` with its five broadcasts | `algo` and `plane` are the options `-a`, `-z`, `-t`. `stream` are the TCP streams as messages with a length in bytes; `pc`, `round`, `buf`, `seq`, `frag`, `peer` are the locals of the calls. One action per system call of a rank: `SendFragment`, `RecvAnswer`, `Recvfrom`, `Timeout`, `RecvFallback`, `SendAck`, and the barrier's `EnterBarrier`, `SendToken`, `RecvToken`. `Garble` is a read that ends inside a message. What the broadcasts differ in is in operators of their own (`Opcode`, `Target`, `FirstAnswer`, `LastAnswer`, `Source`, `AckTo`, `RecvAcks`, `Forwards`) |
| `*Proofs` | - | theorems about the module they are named after; `CollectivesProofs` and `DeliveryProofs` are both about `Collectives` |
| `Counting` | - | what `Append` and `Tail` make of the number of elements of a sequence that are in a set |
| `MC*` | - | constant values for TLC |

How the parts fit. `Startup` ends where the benchmark loop begins: its
`GateHolds` and `Registered` are what `RingBarrier`, `Collectives` (the right
stream between each pair) and `XdpForward` (`Known`, the registered pairs) take
for granted. `Payload` looks at the bytes of one payload between two ranks, which
`Collectives` reduces to a number and a count of fragments.

Operators named `<definition>_<Bug>` are mutants: the definition with a
plausible bug. No specification uses them; each one breaks a property.

Abstractions, all deliberate:

* In `Collectives` a payload is the number of its broadcast, and a datagram's
  `id` stands for its seq, id and payload.
* MAC addresses, checksums and the UDP source port are left out; a destination
  port is the rank that listens there.
* The driver is external. It delivers the original, makes copies 1..n, and
  discards a copy whose verdict is not `XDP_TX` (`AGENT.md`, "silently discarded").
* A TCP message is sent in one step. A read that must go on over the end of a
  message is `Garble`; the rank is not followed further, as the meaning of every
  later byte is lost. A read that has too few bytes waits, as recv does.
* `received < sizeof(int)` in the fragmented `mpi_recv` compares unsigned, so -1
  passes it; the length test further down (line 2067) then takes the same
  branch. Both are `Timeout`.
* The counters `ids` are written into headers and never read; they are left out.
* The TC program leaves a linear broadcast's packet, once it has rewritten it, to
  the stack (`TC_ACT_OK`). Its destination is then the mirror host, so the stack
  discards it; that, and `bpf_clone_redirect`, are external.
* In `Collectives` no process exits and no connection closes. `Startup` has both:
  `Dead` ranks, and `RecvFails`, the exit of `__mpi_recv_tcp` at the end of a
  stream.
* In `Startup` a failing `malloc`, `socket` or `listen` is a failing bind: the rank
  exits. `connect` to a server that has closed again cannot happen, as the server
  closes only after its last accept. The sleeps are left out: they make a
  bad order of connections rare and exclude none.
* `Payload` cuts only types of one byte, which is what `MPI.c` sends. For wider
  types the loops of sender and receiver take elements for bytes and leave their
  buffers, and the same holds for the terminator of `MPI_SIGNED_CHAR`,
  `MPI_UNSIGNED_CHAR` and `MPI_WCHAR` in the receiver's loop. `__mpi_recv_tcp` puts
  its terminator at `buf[count]`, not `buf[count - 1]`; within the buffer this is
  no difference, as the payload ends in one (`MPI.c:306`).
* `hton128` loses the upper half of a `long double`. As both ends lose it in the
  same way the lower eight bytes survive, and `Delivered` claims no more.

## 3. The runs

| Run | Bounds | What it shows |
|---|---|---|
| `startup` | 3 ranks, 2 or 3 CPUs, maps of 5 or 6 pairs, one failing fork or bind | one connection per pair, in any order; nobody broadcasts unless all are there, rightly connected and registered; the first barrier is a ring barrier; ranks do not wait for ever for one that has no core |
| `barrier` | 4 ranks, 4 barriers | the root leaves last, one token, bounded skew, refinement, all leave |
| `payload` | datagrams of 20 bytes with 2 of header, six types, 15 sizes around 1, 2 and 3 full datagrams, two failures | the payload arrives whole or not at all, no receive is refused without a failure, no fragment leaves its datagram or the buffer, no receive waits for datagrams for ever: it returns, gives up or has asked its source over TCP (whether that answers is not for this run) |
| `forward` | 4 ranks, roots 0 and 2, 2 datagrams of any opcode, at most one loss | no duplicates, never back to the root, right socket, cost of a loss; covered without one; the data plane drains |
| `tc` | the same | a ring for either broadcast, two deliveries at its last rank and nowhere else, covered without a loss |
| `lossless` | 4 ranks, 3 broadcasts by each of the five algorithms, no loss | refinement of `Broadcast` (with the barrier in the place of the answers, for the two that do not wait), barriers undisturbed, answers read, all ACKs had, termination |
| `first_lossy` | 3 ranks, one broadcast of 2 fragments by each algorithm whose root waits, one loss, 2 timeouts | no wrong content; no rank is forgotten; who asks the root is answered |
| `relaxed_lossy` | 3 ranks, one broadcast of 2 fragments, eager or naive ring, either data plane, one loss, 2 timeouts | streams framed, termination |

Why the bounds are enough. Four ranks are the first ring with a rank that is
neither the root, nor next to it on either side, and the first fan-out with two
copies transmitted and two discarded. Ranks drift at most two barriers apart
(`BoundedSkew`, proved), so four barriers include every relative position. The
packets of two datagrams, of two roots and opcodes, never read each other's
fields; a second datagram is there to show just that. Three broadcasts include
two in a row that follow one another and one that follows those. Two timeouts let
every receiver of three ranks give up once, which is all a broadcast allows; of
three ranks one has the root as its predecessor and one has not. Three ranks are
the first with two connections to one server, the only thing their order can
confuse; 2 CPUs and a map of 5 are one short. The sizes of `payload` are those at
which sender or receiver, or the one and not the other, change their minds
(16 to 18 bytes are what 1376 to 1424 are with datagrams of 1472), the exact
multiples and their neighbours. The safety properties of `startup`, `barrier`,
`payload`, `forward`, `tc`, `lossless`, `first_lossy` and `relaxed_lossy` are proved
for every value besides (for `lossless` those over the XDP data plane).

Runs that expect a violation. Each shows the code departing from what the
repository says of it (`findings` in `PROJECT.json`):

| Run | Property | What happens |
|---|---|---|
| `startup_race` | `ReachesTheBroadcast` | 3 ranks: rank 1 connects to rank 2 before rank 0 does. Rank 2 stores both connections the wrong way round, and the first barrier waits on them for ever |
| `nack_deadlock` | `ReceivesReturn` | 3 ranks: rank 2 sends its NACK to rank 1, its predecessor, and waits there; the root waits for rank 2. Nobody moves again |
| `misframed` | `StreamsFramed` | a fragmented payload is acknowledged twice and the answer read once, with nothing lost; the leftover ACK is read as the start of the next barrier token |
| `tc_large` | `RightContent` | over TC, with nothing lost: the last rank receives the first of two fragments twice, counts two, and acknowledges a payload with a hole |

The positive runs are therefore about the regimes the benchmark does work in: no
loss with one datagram per payload, and one broadcast with loss. Beyond them:

* a fragmented second broadcast is misframed;
* a datagram that is late for its broadcast is taken for the content of the next
  (`RightContent` does not hold over two broadcasts with a timeout, nor, with the
  second delivery at the last rank, over two broadcasts in the TC data plane);
* a NACK is the one header the root reads from its rank, so with a loss the root
  returns before the ACK that follows it has been sent; that ACK stays on the
  stream, where the naive linear broadcast, and any broadcast between two ranks,
  leaves it to the next barrier (so `first_lossy` asks for `AskingTheRootReturns`
  and for neither `Terminates` nor `RootWaitsForAllAcks`);
* the barrier holds back rank 0 only: rank 1 may leave before rank 2 has entered,
  and the timed calls do not start together;
* up to four ranks every swap in a table involves a neighbour, and `GateHolds`
  says that the first barrier then stops the program. From five ranks on two
  ranks that are not neighbours of the third can be swapped in its table; the
  barrier does not look there, and later answers and NACKs go to the wrong rank;
* one rank alone has no socket to itself and exits in its first barrier, and the
  parent does not look at the status of any child;
* a rank of the eager broadcast returns without content after a loss, as intended.

Deadlock checking is off in every run: the program ends, and so do the models
at their bounds. That ranks do not stop early is `EveryoneSettles`,
`EveryoneLeaves`, `EndsOrAsks`, `Terminates` and `AskingTheRootReturns`; a rank that
asks another than the root may wait for ever (`ReceivesReturn`).

### Fairness

Ranks are separate processes, each pinned to its own core (`MPI.c:329`); an
action a rank can take it takes (weak fairness per rank; in `RingBarrier` per
rank and action, whose guards exclude each other; in `Startup` also of the
parent's `Fork`). No failure, of a fork, a bind or a send, is ever required. The
cable, the mirror and the NIC go on working as long as a packet is in flight (weak
fairness of their steps together; loss is never required). `SO_RCVTIMEO` makes a
receive that stays empty time out (weak fairness of `Timeout`). The answer to a NACK
is not fair in `Payload` (`RecvFallback`): it goes to a rank that may never read it,
so `EndsOrAsks` stops at the question, and who gets an answer is the business of
`Collectives` (`AskingTheRootReturns`, and `ReceivesReturn`, which fails). Sending is
not fair in `XdpForward`: nothing obliges a root to broadcast.

## 4. What is proved

By TLAPS, for every value of the constants, from the assumptions named in each
module and no others but those a theorem states itself:

| Module | For every | Theorems |
|---|---|---|
| `RingBarrierProofs` | `N >= 2`, number of barriers | `Invariance`, `TypeCorrect`, `RootLast`, `Predecessors`, `SingleToken`, `Skew`, `Refinement` (of `OrderedBarrier`) |
| `StartupProofs` | `N >= 1`, CPUs, map size, failures | `Invariance`, `TypeCorrect`, `GateCorrect`, `RegisteredCorrect`, `ConnectionsCorrect`, `Refinement` (of `RingBarrier`, for `N >= 2`) |
| `XdpForwardProofs` | `N >= 2`, roots, opcodes, registered pairs, datagrams, losses | `Invariance`, `TypeCorrect`, `OnceCorrect`, `RootCorrect`, `SocketCorrect`, `PrefixCorrect`, `FanOutCorrect` |
| `TcForwardProofs` | the same, and failing clones | `TcInvariance`, `TcRootCorrect`, `PredecessorCorrect`, `HandedDownCorrect`; `TwiceCorrect` where the neighbours on the ring are registered |
| `PayloadProofs` | sizes of datagram and header, types, counts, failures | `Invariance`, `TypeCorrect`, `DeliveredCorrect`, `AllOrNothingCorrect`, `NotRefusedCorrect`, `BoundsCorrect` |
| `CollectivesProofs` | `N >= 2`, the five broadcasts, either data plane, broadcasts, fragments, losses, timeouts | `CInvariance`, `CTypeCorrect`, `RetransmissionsCorrect`; `AcksCounted`, `AcksCorrect` until a receive times out; `FramesApart`, `FramesCorrect`, `EagerFramesCorrect`; the refinement of `RingBarrier`: `BarriersRun`, `BarriersCorrect`, `EagerBarriersCorrect` |
| `DeliveryProofs` | `N >= 2`, the five broadcasts, broadcasts, losses; one datagram to a payload, over XDP, no receive timed out | `DeliveryInvariance`, `ContentCorrect`, `ReadyCorrect`, `AnswersCorrect`, `PromiseKept` (refinement of `Broadcast`), `PlainBroadcasts` (all of it, told of the constants) |
| the same | `N >= 2`, one broadcast, fragments, losses, timeouts; over XDP, or over TC with one datagram to the payload | `SingleInvariance`, `SingleContent`, `FragmentsCorrect`; `SingleCovered`, `CoveredCorrect` where the root waits for every rank |
| the same | `N >= 3`, one broadcast, eager or naive ring, either data plane, fragments, losses, timeouts | `RingInvariance`, `RingFrames`, `RelaxedFramesCorrect` (with the refinement of `RingBarrier`) |

The type invariants, the inductive invariants and `PredecessorsEntered` have been
checked by TLC on the instances above before they were proved; as theorems they
are in no run any more.

**Barrier.** None of the properties is inductive alone: a receive must know
where the token it takes came from. `IInv` counts for each rank the tokens it
has sent (`sent`) and received (`recvd`), both determined by `entered` and `pc`.
`StreamsCount` says a stream holds the tokens sent into it and not received;
`DownTheRing` says the counters never increase along the ring, and that rank 0
has not received what some rank has not sent. Each action moves one counter by
one and the guard supplies the inequality it needs. `RootLeavesLast`,
`PredecessorsEntered` and `BoundedSkew` are comparisons of two counters;
`OneToken` adds the streams up to the difference between what rank 0 has sent
and received, which is at most one. For the refinement, `Enter` maps to `Enter`,
the action that ends a call (`Send`, or `Recv` of rank 0) to `Leave`, whose guard
is `DownTheRing` read at the rank that leaves, and the others to stuttering.

**Start-up.** `TableInv`: below its own index a table has lower ranks only, above
it the right ones. So a token sent up the ring goes to the right rank
whoever is swapped, and one that a rank takes at index `prev` can only come from a
rank whose own table sends it there (`TokenInv`). `ChainInv` puts the two together
along the ring: who has the token has it over the right connection, and every rank
before it has sent. When rank 0 has it back, all have (`GateHolds`), and as a token
is never taken by a rank that is not next, the barrier is one round of
`RingBarrier` (`Refinement`). `MapInv` follows the two registration loops:
what is behind them is noted, or the map is full and stays so.
`OneConnectionPerPair` compares numbers: `MeshInv` says that a connection a lower
rank has made is in the upper one's table or accept queue, once. Accepting moves it
from one to the other; when the queue of a rank is empty and its loop done, the
table of that rank has as many places as it has ranks below it, each of which
is in it at most once. The lemmas of `Counting` say what an `Append` or `Tail` does
to the number of a rank's entries in a queue.

**Data plane.** Every packet has a claim: the ranks that it, or what becomes of its
copies, may still be delivered to. For a ring packet these are the ranks from
its destination on around to the root (without the destination once it is a copy);
for a fan-out all ranks, then one per copy. `ClaimsApart` and `ClaimsOpen` say that
claims on one datagram are disjoint from each other and from the ranks that
have it; every action hands claims on or splits them. This gives `AtMostOnce`;
`Behind`, that the ranks a packet has passed have had its datagram, gives
`RingPrefix` and `FanOutFirst`; `WellFormed`, what the header looks like at each
place, gives the other two. The distance on the ring is handled by lemmas about
`next`, `prev` and `Distance` without remainders.

**TC data plane.** The claims are of places, not ranks. A rank has one place for a
datagram, and a second one, for the marked clone, where the ring ends
(`RingEnd`): there the packet is both cloned to the stack and passed to it. A packet
claims the places from its destination to the end; `PlacesApart`, `PlacesOpen` and
`OncePerPlace` are as before, and `TwiceAtTheEnd` is that a rank is delivered to at
most once per place. The ring also ends at a pair that is not registered, where the
rank in the middle would then be delivered to twice: hence the hypothesis of
`TwiceCorrect`. `RegisteredCorrect` of start-up meets it unless the map is full.
`TcBehind` is the loss-free `HandedDown` for packets on their way.

**Payload.** `Datagram(k)` and `Piece(k)` are what sender and receiver make of piece
k; `NetInv` and `FragmentInv` say that what is on its way and what has come is just
that, so both cut alike. `TotalInv` equates the bytes counted with those of the
pieces received: the count reaches the size only when all are there, which makes
the loop that counts bytes right although it does not look at fragments. The
assembly then appends pieces of known length. `NotRefused` needs `KeptInv`, that
without a failure nothing is lost, and that a payload which the sender cuts and
the receiver does not is one full datagram. That conversion there and
back is the identity, but for the lost half of a `long double`, is a lemma over the
widths.

**Broadcasts: what holds in any run.** `ProgramInv` says which rank can be where:
the root never receives, an answer loop starts at peer 1 again. `LogInv` ties the
datagrams in the data plane to the broadcast they were sent in, `FromInv` says from
whom a datagram can be. `AskInv` counts: for each rank, the NACKs and retransmitted
payloads it is concerned in, on any stream, are one while it is in the fallback and
none else. A NACK becomes a payload in one step of the rank that reads it, so
nobody is sent what it has not asked for (`RetransmissionsCorrect`). `AckInv`
accounts for ACKs: what a rank has sent (`acks`) is on its stream to the root or
was read, and the root has read `round[root]` of each, and one more of those its
loop has passed. A NACK is read in the place of an ACK, so this holds until the
first timeout only, and `AcksCounted` says so.

**Broadcasts: framing and barriers.** `StreamsFramed` fails in the code
(`misframed`), so what is proved is where it holds: `Quiet`, that is no timeout yet
and one ACK per payload, or the eager broadcast. There a stream has tokens, from a
rank to its successor, and ACKs only. One stream can have both: that from
the last rank to the root. `FrameInv` says that on it they alternate, the
next message being fixed by how many the last rank has sent (`SentUp`) and the root
has read (`ReadUp`). Given that every read fits, each step of `Collectives` is one of
`RingBarrier` or leaves its variables alone; for the mapped `chan`, the number
of tokens on a stream, `Counting` is used again. `BarriersRun` takes the framing as
an assumption about the run, `BarriersCorrect` and `EagerBarriersCorrect` get it
from the theorems before.

**Broadcasts: content.** Nothing in a datagram says to the receiver which broadcast it
is of, so `RightContent` over several broadcasts must come from the barriers. The
invariant holds in the regime `Plain`: one datagram to a payload, over XDP,
no receive timed out. (Losses are in it: a rank that loses its datagram then waits,
and the theorems say what the others may do meanwhile.) `Got(r)` is how many
broadcasts rank r has received and `SentTo(r)` how many have been sent to
it, by the root or, in the naive ring, its predecessor (`Sender`). `DueInv`:
whatever is in a socket or claimed by a packet is of broadcast `SentTo(r)`, and `r`
has got one less than that. The claims are those of the data plane, which here
are disjoint across datagrams too. `GotInv`: the buffer of a rank has what it got
last. When a broadcast starts, all of this must be empty: the barrier
invariant of `RingBarrier` holds of the mapped variables, by it the root leaves
a barrier last, a rank that has entered it has received what it had to, and one
that has received has no more due (`WellFormed` keeps claims on the root out).
`AnswerInv` adds the one stream on which the naive ring is answered. The barrier
lemmas are stated again for the mapped variables, as `tlapm` does not cite a theorem
of an instance. For the refinement of `Broadcast`, `Start` is the root's first
`sendto`, `Receive` each `recvfrom`, and `Return` the root's read of the
last answer or, for the two broadcasts that do not wait, its leaving the
barrier that follows.

**Broadcasts: one, with everything that can happen to it.** With fragments and
timeouts the barriers are of no help: a retransmission may overtake the datagrams,
and a NACK passes for an answer. The content of one broadcast does not need them,
but it needs each fragment to count once, since `mpi_recv` counts fragments and never
looks whether it has one already (`tc_large` is what happens otherwise). `LaneInv`
says by whom and to whom the datagrams a rank can meet were sent (`LaneOf`);
`SentInv`, that no two datagrams of a lane have the same fragment, because those
already sent are behind the sender's loop; `OnceInv` adds to the claims of
the data plane that what a rank has counted is nowhere else. `Fragments` different
ones are then all of them (`HasInv`). Over TC the last rank has every datagram
twice; one datagram to a payload is then as good, as the first makes it whole.
`SaidInv`: a payload on a stream is that content and an ACK is from a rank that has
it. A root that reads a rank's answer thus reads an ACK, and the rank has the payload,
or a NACK, and sends it (`AnsweredInv`, the step from `RightContent` to
`CoveredOrOnItsWay`); a payload leaves the stream only by being received. The
eager broadcast is excepted from `RightContent` once a receive has timed out:
`mpi_recv_no_ack` gives up with nothing in the buffer, and its rank goes on.

**Broadcasts: the naive ring when receives time out.** Its answers and its
retransmissions are between neighbours, where the tokens are. In a ring of three
ranks or more they go apart: down the ring only tokens and payloads, up only
answers (`WayInv`), and the datagrams are from the neighbour too (`HopInv`). What could go
wrong is a payload behind a token on the stream down, or a NACK behind an ACK on the
stream up: a rank reads one header of its successor and never another, and so might
leave the NACK. `FirstHeaderInv` says neither happens: while the rank before is in its
broadcast, the first header on the stream up to it is the NACK, if there is one;
once that has returned, a rank in the fallback has its payload in front, ahead of
any token, because who returns has first answered, and the token is sent after that.
This is for one broadcast: one that is fragmented, or in which a receive times out,
leaves an ACK unread on the stream up, and the next would take it for the answer. Of two ranks each is before and
after the other, and the ACK left over meets a token.

Only model-checked:

* all liveness (fairness and `ENABLED` are out of the prover's reach):
  `EveryoneSettles`, `EveryoneLeaves`, `EndsOrAsks`, `Coverage`, `Drains`, `Terminates`,
  `AskingTheRootReturns`.

## 5. Plan

1. `ReadyForNext` and `RightContent` over several broadcasts of more than one
   fragment, for the eager ring, the one algorithm that fragments do not misframe.
2. `mpi_bcast` and `mpi_bcast_xdp`, should the program come to use them. As it
   stands `mpi_send` waits for an answer that `mpi_recv` does not send for a
   payload in one datagram, so `mpi_bcast` has no regime to state a promise in.

## 6. Not modelled, and why

Option parsing, CSV output, libbpf calls, tracing, the packet printers and
`run_tests.py` are input and output without protocol state. `mpi_bcast` and
`mpi_bcast_xdp` are reached by no call; `MPI_BCAST` packets are therefore never
sent. The reductions are reached by none either, and `mpi_reduce_ring` indexes the
socket table with `MPI_ANY_SOURCE`, -2: there is no behaviour to be faithful to.
`XDP_DROP` of packets from other hosts (line 668) never meets a packet of the
benchmark, whose datagrams all come back through the mirror.

Of the files counted as source, `profiling/vmlinux.h` is 150721 generated lines of
kernel type definitions out of 158535, with nothing to model. What is left are
some 7800 lines, more than a thousand of which are the reductions.
