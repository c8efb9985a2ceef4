---------------------------- MODULE RingBarrier ----------------------------
(***************************************************************************)
(* mpi_barrier_ring: one token makes one trip around the ring of ranks,    *)
(* over the TCP streams of the full-mesh socket table.  Rank 0 sends it    *)
(* and then waits for it; every other rank waits for it and passes it on.  *)
(*                                                                         *)
(* A token is a 52-byte message (header and one int) that names no round,  *)
(* so a stream is the number of tokens it holds.  What else travels on the *)
(* same streams is the business of Collectives, which composes both.       *)
(***************************************************************************)
EXTENDS Integers

CONSTANTS N,           \* WORD_SIZE, the number of ranks
          MaxBarriers  \* bound: the barriers a rank passes

\* With one rank next = prev = rank and socket_tcp_fd[0] is -1: the first
\* barrier ends the program, so N starts at 2.
ASSUME NAssumption == N \in Nat /\ N >= 2
ASSUME MaxBarriersAssumption == MaxBarriers \in Nat

Rank == 0 .. N-1

next(r) == (r + 1) % N
prev(r) == (r - 1 + N) % N

VARIABLES pc,       \* where rank r is: "out" of the barrier, or about to "send" or "recv"
          entered,  \* history: how many barriers rank r has entered
          chan      \* chan[r]: tokens in the stream from r to next(r)

vars == <<pc, entered, chan>>

Init ==
  /\ pc = [r \in Rank |-> "out"]
  /\ entered = [r \in Rank |-> 0]
  /\ chan = [r \in Rank |-> 0]

\* Mutants of Enter: every rank starts with its send, or with its receive.
Enter_AllSend(r) ==
  /\ pc[r] = "out"
  /\ entered[r] < MaxBarriers
  /\ pc' = [pc EXCEPT ![r] = "send"]
  /\ entered' = [entered EXCEPT ![r] = @ + 1]
  /\ UNCHANGED chan
Enter_AllRecv(r) ==
  /\ pc[r] = "out"
  /\ entered[r] < MaxBarriers
  /\ pc' = [pc EXCEPT ![r] = "recv"]
  /\ entered' = [entered EXCEPT ![r] = @ + 1]
  /\ UNCHANGED chan

\* Rank r calls mpi_barrier_ring: rank 0 starts with its send, the others
\* with their receive.
Enter(r) ==
  /\ pc[r] = "out"
  /\ entered[r] < MaxBarriers
  /\ pc' = [pc EXCEPT ![r] = IF r = 0 THEN "send" ELSE "recv"]
  /\ entered' = [entered EXCEPT ![r] = @ + 1]
  /\ UNCHANGED chan

\* Mutant of Send: rank 0 does not wait for the token to come back.
Send_NoWait(r) ==
  /\ pc[r] = "send"
  /\ chan' = [chan EXCEPT ![r] = @ + 1]
  /\ pc' = [pc EXCEPT ![r] = "out"]
  /\ UNCHANGED entered

\* __mpi_send_tcp of the token to next; it ends the call of every rank but 0.
Send(r) ==
  /\ pc[r] = "send"
  /\ chan' = [chan EXCEPT ![r] = @ + 1]
  /\ pc' = [pc EXCEPT ![r] = IF r = 0 THEN "recv" ELSE "out"]
  /\ UNCHANGED entered

\* Mutants of Recv: it returns when there is no token, or leaves the token in
\* the stream.
Recv_NoWait(r) ==
  /\ pc[r] = "recv"
  /\ chan' = [chan EXCEPT ![prev(r)] = @ - 1]
  /\ pc' = [pc EXCEPT ![r] = IF r = 0 THEN "out" ELSE "send"]
  /\ UNCHANGED entered
Recv_Peeks(r) ==
  /\ pc[r] = "recv"
  /\ chan[prev(r)] > 0
  /\ pc' = [pc EXCEPT ![r] = IF r = 0 THEN "out" ELSE "send"]
  /\ UNCHANGED <<entered, chan>>

\* __mpi_recv_tcp of the token from prev, which blocks while there is none.
Recv(r) ==
  /\ pc[r] = "recv"
  /\ chan[prev(r)] > 0
  /\ chan' = [chan EXCEPT ![prev(r)] = @ - 1]
  /\ pc' = [pc EXCEPT ![r] = IF r = 0 THEN "out" ELSE "send"]
  /\ UNCHANGED entered

Next == \E r \in Rank : Enter(r) \/ Send(r) \/ Recv(r)

\* A rank that is scheduled runs on: between two calls of the barrier the
\* benchmark only broadcasts, and inside one it only sends and receives.
Fairness == \A r \in Rank : WF_vars(Enter(r)) /\ WF_vars(Send(r)) /\ WF_vars(Recv(r))

Safety == Init /\ [][Next]_vars
Spec == Safety /\ Fairness

-----------------------------------------------------------------------------

\* History: how many barriers rank r has left.
left == [r \in Rank |-> IF pc[r] = "out" THEN entered[r] ELSE entered[r] - 1]

\* The variables stay in their types.
TypeOK ==
  /\ pc \in [Rank -> {"out", "send", "recv"}]
  /\ entered \in [Rank -> 0 .. MaxBarriers]
  /\ chan \in [Rank -> Nat]

\* When rank 0 is out of its k-th barrier every other rank has entered that
\* barrier and left it: a broadcast that rank 0 starts finds no rank that is
\* still before or inside the barrier.
RootLeavesLast == \A r \in Rank : left[0] <= left[r]

\* A rank that has left its k-th barrier knows that the ranks before it have
\* entered theirs: the token came through them.
PredecessorsEntered ==
  \A r \in Rank : \A q \in 0 .. r : left[r] <= entered[q]

\* One token per trip: no two tokens are ever on the way, whatever the skew
\* between the ranks, so no rank can take the token of another round.
OneToken ==
  \A r \in Rank : /\ chan[r] <= 1
                  /\ \A q \in Rank \ {r} : chan[r] + chan[q] <= 1

\* Two ranks are never more than two barriers apart: rank 1 can be in the next
\* barrier while rank 3 has not entered this one, and no further.
BoundedSkew ==
  \A r, q \in Rank : entered[r] - entered[q] <= 2

\* mpi_barrier_ring implements the ordered barrier.
Abstract == INSTANCE OrderedBarrier
ImplementsOrderedBarrier == Abstract!Spec

\* Every rank leaves every barrier it enters.
EveryoneLeaves ==
  \A r \in Rank : pc[r] # "out" ~> pc[r] = "out"

-----------------------------------------------------------------------------

\* The inductive invariant.  Counted in tokens, each rank is a counter of
\* those it has sent and of those it has received; a stream holds the
\* difference, and along the ring the counters never increase.
sent == [r \in Rank |-> IF pc[r] = "out" \/ (r = 0 /\ pc[r] = "recv")
                        THEN entered[r] ELSE entered[r] - 1]
recvd == [r \in Rank |-> IF pc[r] = "out" \/ (r # 0 /\ pc[r] = "send")
                         THEN entered[r] ELSE entered[r] - 1]

InCallEntered == \A r \in Rank : pc[r] # "out" => entered[r] >= 1
StreamsCount == \A r \in Rank : chan[r] = sent[r] - recvd[next(r)]
DownTheRing ==
  /\ \A q, r \in Rank : q < r => sent[q] >= recvd[r]
  /\ \A r \in Rank : sent[r] >= recvd[0]

IInv == TypeOK /\ InCallEntered /\ StreamsCount /\ DownTheRing
=============================================================================
