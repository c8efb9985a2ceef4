---------------------------- MODULE Collectives ----------------------------
(***************************************************************************)
(* The benchmark as its ranks run it: barrier, then MaxBcasts times        *)
(* (broadcast; barrier), over the data plane of XdpForward or TcForward and *)
(* the TCP streams of the socket table.  The broadcast is one of the five MPI.c    *)
(* chooses from, and the root is rank 0, as in every call of MPI.c.        *)
(*                                                                         *)
(* A TCP stream is a sequence of messages, each sent with one send.  Its   *)
(* reader asks for a number of bytes and never looks at the header, so a   *)
(* read only fits the message at the head when their lengths agree.  A     *)
(* rank whose read takes bytes of two messages, or part of one, goes to    *)
(* "garbled" and is followed no further.                                   *)
(*                                                                         *)
(* Without the BPF program (option -z) every datagram is an MPI_SEND, for  *)
(* which the program would do nothing either.                              *)
(***************************************************************************)
EXTENDS TcForward

Sequence == INSTANCE SequencesExt

CONSTANTS Algorithms,   \* the broadcasts to choose from
          Planes,       \* the data planes to choose from
          MaxBcasts,    \* bound: the broadcasts (warm-up and measured)
          Fragments,    \* the datagrams of one payload, all of them full
          MaxTimeouts   \* bound: receives that time out

ASSUME AlgorithmsAssumption ==
  Algorithms \subseteq {"mpi_bcast_ring_xdp", "mpi_bcast_linear_xdp",
                        "mpi_bcast_ring_xdp_eager", "mpi_bcast_ring", "mpi_bcast_linear"}
ASSUME PlanesAssumption == Planes \subseteq {"XDP", "TC"}
\* What the broadcasts of Algorithms send with.
ASSUME OpcodesUsed == {"MPI_SEND", "MPI_BCAST_RING", "MPI_BCAST_LINEAR"} \subseteq Opcodes
ASSUME MaxBcastsAssumption == MaxBcasts \in Nat
ASSUME FragmentsAssumption == Fragments \in Nat \ {0}
ASSUME MaxTimeoutsAssumption == MaxTimeouts \in Nat
\* The bound on the datagrams cuts no broadcast short.
ASSUME SendsAssumption == MaxSends >= MaxBcasts * Fragments * (N - 1)

root == 0
Receiver == Rank \ {root}

\* The content of a buffer is the number of the broadcast it came from.
NoContent == 0      \* what the buffer held before the first broadcast
MixedContent == -1  \* fragments of different broadcasts, or with one missing

VARIABLES algo,     \* the broadcast chosen
          plane,    \* the data plane chosen
          pc,       \* what rank r is doing
          round,    \* how many broadcasts rank r has returned from
          stream,   \* stream[<<q, r>>]: messages sent by q over TCP, unread by r
          buf,      \* the content of the buffer of rank r
          seq,      \* the number of the fragment rank r sends next
          loads,    \* loads[id]: the fragment that datagram id carries
          frag,     \* the datagrams rank r has received in this mpi_recv
          peer,     \* the rank whose answer r waits for, or the next to be sent to
          timeouts, \* how many receives have timed out
          acks      \* history: how many ACKs rank r has sent

rankVars == <<algo, plane, pc, round, stream, buf, seq, loads, frag, peer, timeouts, acks>>
options == <<algo, plane>>
vars == <<netVars, rankVars>>

\* The messages of the TCP streams.  "from" is the root field, which every
\* sender fills with its own rank.
Message == [kind : {"ACK", "NACK", "TOKEN", "DATA"}, from : Rank,
            content : -1 .. MaxBcasts]
Header(kind, r) == [kind |-> kind, from |-> r, content |-> NoContent]
Token(r) == Header("TOKEN", r)
Data(r) == [kind |-> "DATA", from |-> r, content |-> buf[r]]

\* Lengths in bytes: a header alone, with one int, with the payload.
MPI_HEADER == 48
PAYLOAD_SIZE == 1424
TokenLength == MPI_HEADER + 4
DataLength == MPI_HEADER + Fragments * PAYLOAD_SIZE
Length(message) == CASE message.kind \in {"ACK", "NACK"} -> MPI_HEADER
                     [] message.kind = "TOKEN" -> TokenLength
                     [] message.kind = "DATA" -> DataLength
Bytes(messages) == Sequence!FoldLeft(LAMBDA n, message : n + Length(message), 0, messages)

Link(q, r) == <<q, r>>
Queue(s, q, r, message) == [s EXCEPT ![Link(q, r)] = Append(@, message)]
Dequeue(s, q, r) == [s EXCEPT ![Link(q, r)] = Tail(@)]

-----------------------------------------------------------------------------
(* What the broadcasts differ in.                                          *)

Eager == algo = "mpi_bcast_ring_xdp_eager"
NaiveRing == algo = "mpi_bcast_ring"
NaiveLinear == algo = "mpi_bcast_linear"
WaitsForAll == ~Eager /\ ~NaiveRing  \* the root reads an answer of every rank

Opcode == CASE algo \in {"mpi_bcast_ring_xdp", "mpi_bcast_ring_xdp_eager"} -> "MPI_BCAST_RING"
            [] algo = "mpi_bcast_linear_xdp" -> "MPI_BCAST_LINEAR"
            [] OTHER -> "MPI_SEND"

\* Where rank r sends its datagrams, whose answer it waits for first, and
\* whether the answer it has just had is the last.
Target(r) == IF NaiveLinear THEN peer[r] ELSE FirstHop(r)
FirstAnswer(r) == IF NaiveRing \/ NaiveLinear THEN Target(r) ELSE 1

\* Mutant: the loop over the other ranks ends one too early.
LastAnswer_OneShort(r) == NaiveRing \/ peer[r] = N-2
LastAnswer(r) == NaiveRing \/ peer[r] = N-1

\* The source argument of mpi_recv, to which it sends its NACK, and the rank
\* its caller sends the ACK to.
Source(r) == IF NaiveLinear THEN root ELSE prev(r)
AckTo(r) == IF NaiveRing THEN prev(r) ELSE root

\* With more than one fragment mpi_recv itself sends an ACK when it has them
\* all; mpi_recv_no_ack never does.
RecvAcks == Fragments > 1 /\ ~Eager

\* Mutant: the last rank of the ring forwards as well.
Forwards_All(r) == NaiveRing
\* Every rank of the naive ring but the last forwards what it has received.
Forwards(r) == NaiveRing /\ next(r) # root

\* What rank r does after its barrier.
AfterBarrier(r) == IF round[r] = MaxBcasts THEN "done"
                   ELSE IF r = root THEN "send" ELSE "recv"

\* Rank r returns from its broadcast.
Return(r) ==
  /\ pc' = [pc EXCEPT ![r] = "out"]
  /\ round' = [round EXCEPT ![r] = @ + 1]
  /\ peer' = [peer EXCEPT ![r] = 1]

\* Rank r goes on with its broadcast, at label.
GoOn(r, label) ==
  /\ pc' = [pc EXCEPT ![r] = label]
  /\ UNCHANGED <<round, peer>>

-----------------------------------------------------------------------------
(* Reading a TCP stream.                                                   *)

\* The read that rank r is in: whose stream, and how many bytes.
Reading(r) == pc[r] \in {"barrier recv", "answers", "fallback"}
Peer(r) == CASE pc[r] = "barrier recv" -> prev(r)
             [] pc[r] = "answers" -> peer[r]
             [] pc[r] = "fallback" -> Source(r)
Want(r) == CASE pc[r] = "barrier recv" -> TokenLength
             [] pc[r] = "answers" -> MPI_HEADER
             [] pc[r] = "fallback" -> DataLength

\* What the read is about to take: the message at the head of the stream, if
\* the lengths agree.
Incoming(r) == stream[Link(Peer(r), r)]
Fits(r) == Incoming(r) # <<>> /\ Length(Head(Incoming(r))) = Want(r)
Taken(r) == Dequeue(stream, Peer(r), r)

\* Otherwise, once there are enough bytes, the read ends inside a message.
Garble(r) ==
  /\ Reading(r)
  /\ Incoming(r) # <<>> /\ Bytes(Incoming(r)) >= Want(r)
  /\ ~Fits(r)
  /\ pc' = [pc EXCEPT ![r] = "garbled"]
  /\ UNCHANGED <<netVars, options, round, stream, buf, seq, loads, frag, peer, timeouts, acks>>
-----------------------------------------------------------------------------
(* mpi_barrier_ring, as in RingBarrier.                                    *)

EnterBarrier(r) ==
  /\ pc[r] = "out"
  /\ pc' = [pc EXCEPT ![r] = IF r = 0 THEN "barrier send" ELSE "barrier recv"]
  /\ UNCHANGED <<netVars, options, round, stream, buf, seq, loads, frag, peer, timeouts, acks>>

\* Mutant: rank 0 does not wait for the token to come back.
AfterToken_NoWait(r) == AfterBarrier(r)
AfterToken(r) == IF r = 0 THEN "barrier recv" ELSE AfterBarrier(r)

SendToken(r) ==
  /\ pc[r] = "barrier send"
  /\ stream' = Queue(stream, r, next(r), Token(r))
  /\ pc' = [pc EXCEPT ![r] = AfterToken(r)]
  /\ UNCHANGED <<netVars, options, round, buf, seq, loads, frag, peer, timeouts, acks>>

RecvToken(r) ==
  /\ pc[r] = "barrier recv"
  /\ Fits(r)
  /\ stream' = Taken(r)
  /\ pc' = [pc EXCEPT ![r] = IF r = 0 THEN AfterBarrier(r) ELSE "barrier send"]
  /\ UNCHANGED <<netVars, options, round, buf, seq, loads, frag, peer, timeouts, acks>>

-----------------------------------------------------------------------------
(* The sending side of a broadcast.                                        *)

\* Mutant: the root returns without waiting for any answer.
AfterSend_Return(r) == Return(r)

\* The payload is sent: wait for the answers, but not in the eager broadcast.
AfterSend(r) ==
  IF Eager THEN Return(r)
  ELSE /\ pc' = [pc EXCEPT ![r] = "answers"]
       /\ peer' = [peer EXCEPT ![r] = FirstAnswer(r)]
       /\ UNCHANGED round

\* Mutant: the loop over the fragments goes on from where the last one ended.
NextSeq_NoReset(k) == k + 1
\* The loop over the fragments starts again with the next payload.
NextSeq(k) == (k + 1) % Fragments

\* __mpi_send, one datagram per step.  The root broadcasts what is new, the
\* ranks of the naive ring what they have received.
SendFragment(r) ==
  /\ pc[r] = "send"
  /\ SendTo(Opcode, r, Target(r))
  /\ buf' = IF r = root THEN [buf EXCEPT ![r] = round[r] + 1] ELSE buf
  /\ loads' = Append(loads, [content |-> buf'[r], seq |-> seq[r]])
  /\ seq' = [seq EXCEPT ![r] = NextSeq(@)]
  /\ IF seq[r] = Fragments - 1 THEN AfterSend(r) ELSE GoOn(r, "send")
  /\ UNCHANGED <<options, stream, frag, timeouts, acks>>

\* Mutants of Reply: a NACK is read as any other header, or every header is
\* taken for a NACK.
Reply_Ignores(r, answer, s) == s
Reply_Always(r, answer, s) == Queue(s, r, answer.from, Data(r))

\* Rank r sends the whole payload to a rank whose header is a NACK.
Reply(r, answer, s) ==
  IF answer.kind = "NACK" THEN Queue(s, r, answer.from, Data(r)) ELSE s

\* One header is read for each rank sent to: mpi_send reads it after each
\* payload, the XDP broadcasts after the one they send.
RecvAnswer(r) ==
  /\ pc[r] = "answers"
  /\ Fits(r)
  /\ stream' = Reply(r, Head(Incoming(r)), Taken(r))
  /\ IF LastAnswer(r) THEN Return(r)
     ELSE /\ peer' = [peer EXCEPT ![r] = @ + 1]
          /\ pc' = [pc EXCEPT ![r] = IF NaiveLinear THEN "send" ELSE "answers"]
          /\ UNCHANGED round
  /\ UNCHANGED <<netVars, options, buf, seq, loads, frag, timeouts, acks>>

-----------------------------------------------------------------------------
(* The receiving side: mpi_recv, mpi_recv_no_ack and their callers.        *)

\* The content mpi_recv puts together from the datagrams it has counted: it
\* stops at the right number of them, whichever they are.
Assemble(ids) ==
  LET contents == {loads[ids[i]].content : i \in DOMAIN ids}
      seqs == {loads[ids[i]].seq : i \in DOMAIN ids}
  IN  IF Cardinality(contents) = 1 /\ seqs = 0 .. Fragments-1
      THEN CHOOSE k \in contents : TRUE
      ELSE MixedContent

Complete(ids) == Len(ids) = Fragments

\* It takes a datagram from the socket: any datagram.  Its own ACK goes to the
\* rank in the root field of the last one.
Recvfrom(r) ==
  /\ pc[r] = "recv"
  /\ sock[r] # <<>>
  /\ sock' = [sock EXCEPT ![r] = Tail(@)]
  /\ LET p == Head(sock[r])
         ids == Append(frag[r], p.id)
     IN  IF Complete(ids)
         THEN /\ frag' = [frag EXCEPT ![r] = <<>>]
              /\ buf' = [buf EXCEPT ![r] = Assemble(ids)]
              /\ stream' = IF RecvAcks THEN Queue(stream, r, p.root, Header("ACK", r))
                           ELSE stream
              /\ acks' = IF RecvAcks THEN [acks EXCEPT ![r] = @ + 1] ELSE acks
              /\ IF Eager THEN Return(r) ELSE GoOn(r, "ack")
         ELSE /\ frag' = [frag EXCEPT ![r] = ids]
              /\ UNCHANGED <<buf, stream, acks, pc, round, peer>>
  /\ UNCHANGED <<net, log, losses, full, options, seq, loads, timeouts>>

\* recvfrom returns -1 after ten seconds: mpi_recv sends a NACK to its source
\* and waits for the payload over TCP; mpi_recv_no_ack fails, the broadcast
\* with it, and the benchmark does not look.
Timeout(r) ==
  /\ pc[r] = "recv"
  /\ sock[r] = <<>>
  /\ timeouts < MaxTimeouts
  /\ timeouts' = timeouts + 1
  /\ frag' = [frag EXCEPT ![r] = <<>>]
  /\ IF Eager THEN Return(r) ELSE GoOn(r, "fallback")
  /\ stream' = IF Eager THEN stream ELSE Queue(stream, r, Source(r), Header("NACK", r))
  /\ UNCHANGED <<netVars, options, buf, seq, loads, acks>>

\* Mutant of RecvFallback: the payload does not reach the caller's buffer.
RecvFallback_NoStore(r) ==
  /\ pc[r] = "fallback"
  /\ Fits(r)
  /\ stream' = Taken(r)
  /\ GoOn(r, "ack")
  /\ UNCHANGED <<netVars, options, buf, seq, loads, frag, timeouts, acks>>

\* __mpi_recv_tcp of the payload, from the source.
RecvFallback(r) ==
  /\ pc[r] = "fallback"
  /\ Fits(r)
  /\ buf' = [buf EXCEPT ![r] = Head(Incoming(r)).content]
  /\ stream' = Taken(r)
  /\ GoOn(r, "ack")
  /\ UNCHANGED <<netVars, options, seq, loads, frag, timeouts, acks>>

\* The caller of mpi_recv sends its ACK, and returns or forwards the payload.
SendAck(r) ==
  /\ pc[r] = "ack"
  /\ stream' = Queue(stream, r, AckTo(r), Header("ACK", r))
  /\ acks' = [acks EXCEPT ![r] = @ + 1]
  /\ IF Forwards(r) THEN GoOn(r, "send") ELSE Return(r)
  /\ UNCHANGED <<netVars, options, buf, seq, loads, frag, timeouts>>

-----------------------------------------------------------------------------

CInit ==
  /\ NetInit
  /\ algo \in Algorithms
  /\ plane \in Planes
  /\ pc = [r \in Rank |-> "out"]
  /\ round = [r \in Rank |-> 0]
  /\ stream = [link \in Rank \X Rank |-> <<>>]
  /\ buf = [r \in Rank |-> NoContent]
  /\ seq = [r \in Rank |-> 0]
  /\ loads = <<>>
  /\ frag = [r \in Rank |-> <<>>]
  /\ peer = [r \in Rank |-> 1]
  /\ timeouts = 0
  /\ acks = [r \in Rank |-> 0]

RankStep(r) ==
  \/ EnterBarrier(r) \/ SendToken(r) \/ RecvToken(r) \/ Garble(r)
  \/ SendFragment(r) \/ RecvAnswer(r)
  \/ Recvfrom(r) \/ RecvFallback(r) \/ SendAck(r)

DataPlane ==
  /\ \/ plane = "XDP" /\ Forward
     \/ plane = "TC" /\ TcStep
  /\ UNCHANGED rankVars

\* What the data plane does unless a packet is lost.
DataPlaneWorking ==
  /\ \E p \in net : \/ plane = "XDP" /\ Working(p)
                    \/ plane = "TC" /\ TcWorking(p)
  /\ UNCHANGED rankVars

CNext ==
  \/ \E r \in Rank : RankStep(r) \/ Timeout(r)
  \/ DataPlane

CSafety == CInit /\ [][CNext]_vars

\* Each rank is a process of its own, pinned to its own core; the data plane
\* keeps working; a receive that waits on for nothing times out.  Nothing has
\* to be lost.
CFairness ==
  /\ \A r \in Rank : WF_vars(RankStep(r)) /\ WF_vars(Timeout(r))
  /\ WF_vars(DataPlaneWorking)

CSpec == CSafety /\ CFairness

-----------------------------------------------------------------------------

Labels == {"out", "barrier send", "barrier recv", "send", "answers", "recv", "fallback", "ack",
           "done", "garbled"}

\* The variables of the ranks stay in their types.
RankTypeOK ==
  /\ algo \in Algorithms /\ plane \in Planes
  /\ pc \in [Rank -> Labels]
  /\ round \in [Rank -> 0 .. MaxBcasts]
  /\ stream \in [Rank \X Rank -> Seq(Message)]
  /\ buf \in [Rank -> -1 .. MaxBcasts]
  /\ seq \in [Rank -> 0 .. Fragments-1]
  /\ loads \in Seq([content : -1 .. MaxBcasts, seq : 0 .. Fragments-1])
  /\ frag \in [Rank -> Seq(1 .. MaxSends)]
  /\ peer \in [Rank -> 1 .. N-1]
  /\ timeouts \in 0 .. MaxTimeouts
  /\ acks \in [Rank -> Nat]

CTypeOK == TypeOK /\ RankTypeOK

\* Every read of a stream takes one whole message of the kind the reader
\* expects: barrier tokens, answers and retransmitted payloads share the
\* streams of the socket table without ever being taken for one another.
StreamsFramed == \A r \in Rank : pc[r] # "garbled"

\* A rank is inside a broadcast.
InBcast(r) == pc[r] \in {"send", "answers", "recv", "fallback", "ack"}

\* A rank that returns from its k-th broadcast has the content of the k-th
\* broadcast in its buffer, not that of another or a mixture.
RightContent ==
  \A r \in Receiver :
    (pc[r] = "ack" => buf[r] = round[r] + 1) /\ (pc[r] = "out" => buf[r] = round[r])

\* Whatever the broadcast waits for, the barrier after it makes up for the
\* rest: when the root starts the next broadcast, every rank has the content
\* of the last one and no datagram of it is still to come.
ReadyForNext ==
  pc[root] = "send" /\ seq[root] = 0 /\ peer[root] = 1 =>
    /\ \A r \in Receiver : buf[r] = round[root] /\ sock[r] = <<>>
    /\ \A p \in net : p.at = "copy" /\ handle_clone(p) = {}

\* "The root always waits for all N-1 ACKs before returning from the
\* collective" (AGENT.md): back from its k-th broadcast, it has had k ACKs
\* of every rank.  The eager broadcast and the naive ring do not.
RootWaitsForAllAcks ==
  WaitsForAll /\ ~InBcast(root) => \A r \in Receiver : acks[r] >= round[root]

\* A receiver answers a broadcast with one message, so the root is back from
\* its broadcast with no answer left unread.
AnswersRead ==
  ~InBcast(root) =>
    \A r \in Receiver : \A i \in DOMAIN stream[Link(r, root)] :
      stream[Link(r, root)][i].kind = "TOKEN"

\* After one broadcast, whatever was lost or late: a rank that the root has
\* returned without is one whose payload is on its way over TCP.
CoveredOrOnItsWay ==
  ~InBcast(root) /\ round[root] = 1 =>
    \A r \in Receiver :
      \/ buf[r] = 1
      \/ \E i \in DOMAIN stream[Link(root, r)] : stream[Link(root, r)][i] = Data(root)

\* A payload is retransmitted only to a rank that has asked for it and waits
\* for it.
OnlyAskedRetransmissions ==
  \A q, r \in Rank : \A i \in DOMAIN stream[Link(q, r)] :
    stream[Link(q, r)][i].kind = "DATA" => pc[r] \in {"fallback", "garbled"} /\ Source(r) = q

\* How many messages of a kind are on a stream.
Count(messages, kind) == Cardinality({i \in DOMAIN messages : messages[i].kind = kind})

\* The ranks run the barriers of RingBarrier: nothing the broadcasts leave on
\* the streams disturbs them.
barrierPc == [r \in Rank |-> CASE pc[r] = "barrier send" -> "send"
                               [] pc[r] = "barrier recv" -> "recv"
                               [] OTHER -> "out"]
barrierEntered == [r \in Rank |-> round[r] + (IF pc[r] = "out" THEN 0 ELSE 1)]
barrierChan == [r \in Rank |-> Count(stream[Link(r, next(r))], "TOKEN")]
Barrier == INSTANCE RingBarrier WITH
  MaxBarriers <- MaxBcasts + 1, pc <- barrierPc, entered <- barrierEntered,
  chan <- barrierChan
RunsTheBarriers == Barrier!Safety

\* The broadcasts that the root has put behind it: those it has returned from,
\* where it waits for all the answers, and else those whose barrier it has left.
InBarrier(r) == pc[r] \in {"out", "barrier send", "barrier recv"}
finished == IF ~WaitsForAll /\ InBarrier(root) /\ round[root] > 0
            THEN round[root] - 1 ELSE round[root]

\* The ranks and the data plane together implement the broadcast, whichever of
\* the five it is: for those that do not wait the barrier makes up.
Promise == INSTANCE Broadcast WITH
  started <- buf[root],
  returned <- finished,
  content <- [r \in Receiver |-> buf[r]]
KeepsThePromise == Promise!Spec

\* Every rank gets through all its broadcasts and barriers.
AllDone == \A r \in Rank : pc[r] = "done"
Terminates == <>AllDone

\* Every mpi_recv returns.
Returns(r) == pc[r] \in {"recv", "fallback"} ~> pc[r] \in {"ack", "out"}
ReceivesReturn == \A r \in Receiver : Returns(r)

\* Every mpi_recv whose source is the root returns: the root answers its NACK,
\* whatever the other ranks wait for.
AskingTheRootReturns == \A r \in Receiver : Source(r) = root => Returns(r)

-----------------------------------------------------------------------------

\* The inductive invariants.  Where the program of a rank can be: the root
\* never receives, only the root and the inner ranks of the naive ring send, and
\* the loop over the answers starts at 1 again.
ProgramInv ==
  \A r \in Rank :
    /\ InBcast(r) => round[r] < MaxBcasts
    /\ pc[r] \in {"send", "answers"} => r = root \/ Forwards(r)
    /\ pc[r] \in {"recv", "fallback", "ack"} => r # root
    /\ Eager => pc[r] \notin {"answers", "fallback", "ack"}
    /\ pc[r] = "fallback" => timeouts > 0
    /\ NaiveRing /\ pc[r] = "answers" => peer[r] = next(r)
    /\ \/ pc[r] \notin {"send", "answers", "garbled"}
       \/ pc[r] = "send" /\ ~NaiveLinear
       => peer[r] = 1

\* A datagram in flight, in a socket or counted by mpi_recv has been sent, and
\* its payload is known; only the naive ring has senders other than the root.
Logged(p) == p.id <= Len(log) /\ (p.root = root \/ NaiveRing)
LogInv ==
  /\ Len(loads) = Len(log)
  /\ \A p \in net : Logged(p)
  /\ \A r \in Rank : \A i \in DOMAIN sock[r] : Logged(sock[r][i])
  /\ \A r \in Rank : \A i \in DOMAIN frag[r] : frag[r][i] <= Len(log)

\* Every message names the rank at the other end of its stream.
FromInv ==
  \A q, r \in Rank : \A i \in DOMAIN stream[Link(q, r)] : stream[Link(q, r)][i].from = q

\* A NACK and the payload that answers it are one request of a rank that waits
\* for its answer; nobody has two.
Asked(r, q) == Count(stream[Link(r, q)], "NACK") + Count(stream[Link(q, r)], "DATA")
AskInv ==
  \A q, r \in Rank :
    /\ Asked(r, q) <= 1
    /\ Asked(r, q) > 0 =>
         timeouts > 0 /\ pc[r] \in {"fallback", "garbled"} /\ Source(r) = q

\* While no receive times out, the ACKs of a rank are with the root or on
\* their way to it.
AckInv ==
  timeouts = 0 /\ WaitsForAll =>
    \A r \in Receiver :
      acks[r] = Count(stream[Link(r, root)], "ACK") + round[root]
                + (IF r < peer[root] THEN 1 ELSE 0)

\* What keeps the messages apart: no retransmission, and one ACK for a payload.
Quiet == Eager \/ (timeouts = 0 /\ ~RecvAcks)

\* The one stream that has both tokens and answers is that from the last rank
\* to the root, if its ACKs go there.  They take turns on it: what the last rank
\* has sent on it in its barriers and its broadcasts, and what the root has read.
Shared == ~Eager /\ AckTo(N-1) = root
SentUp == 2 * round[N-1] + IF pc[N-1] \in {"recv", "fallback", "ack", "done"} THEN 1 ELSE 0
ReadUp == 2 * round[root] + IF pc[root] \in {"send", "answers", "done"} THEN 1 ELSE 0
FrameInv ==
  /\ StreamsFramed
  /\ \A q, r \in Rank : \A i \in DOMAIN stream[Link(q, r)] :
       LET message == stream[Link(q, r)][i]
       IN  \/ message.kind = "TOKEN" /\ r = next(q)
           \/ message.kind = "ACK" /\ ~Eager /\ q # root /\ r = AckTo(q)
  /\ Shared =>
       LET messages == stream[Link(N-1, root)]
       IN  /\ Len(messages) = SentUp - ReadUp
           /\ \A i \in DOMAIN messages :
                messages[i].kind = IF (ReadUp + i) % 2 = 1 THEN "TOKEN" ELSE "ACK"

CInv ==
  /\ CTypeOK /\ ProgramInv /\ LogInv /\ FromInv /\ AskInv /\ AckInv
  /\ Quiet => FrameInv

\* What keeps the broadcasts apart: one datagram for a payload, over the XDP data
\* plane, and no receive that times out.
Plain == plane = "XDP" /\ Fragments = 1 /\ timeouts = 0

\* How many broadcasts rank r has received, and how many have been sent to it.
Got(r) == round[r] + IF r # root /\ pc[r] \in {"ack", "send", "answers"} THEN 1 ELSE 0
Sender(r) == IF NaiveRing THEN prev(r) ELSE root
SentTo(r) ==
  round[Sender(r)] + IF \/ pc[Sender(r)] = "answers" /\ (NaiveLinear => r <= peer[root])
                        \/ NaiveLinear /\ r < peer[root]
                     THEN 1 ELSE 0

\* What is due to a receiver, in its socket or in the one packet that claims it,
\* is the datagram of the one broadcast that it has not received.
Due(r, p) == loads[p.id].content = SentTo(r) /\ Got(r) = SentTo(r) - 1
DueInv ==
  /\ \A p \in net : WellFormed(p) /\ p.op = Opcode /\ p.dst # root
  /\ \A p, q \in net : p # q => Claim(p) \cap Claim(q) = {}
  /\ \A p \in net : \A r \in Claim(p) : r # root /\ sock[r] = <<>> /\ Due(r, p)
  /\ \A r \in Receiver :
       sock[r] # <<>> => Len(sock[r]) = 1 /\ Due(r, Head(sock[r]))

\* So a receiver has in its buffer what it has last received, no further than
\* the root, and answers once.
GotInv ==
  /\ buf[root] = round[root] + IF pc[root] = "answers" \/ peer[root] > 1 THEN 1 ELSE 0
  /\ \A r \in Receiver :
       /\ buf[r] = Got(r) /\ Got(r) <= SentTo(r) /\ SentTo(r) <= buf[root]
       /\ ~Eager => acks[r] = round[r] + IF pc[r] \in {"send", "answers"} THEN 1 ELSE 0
  /\ \A r \in Rank : frag[r] = <<>>

\* In the naive ring the root reads the answers of its successor only.
AnswerInv == NaiveRing => acks[1] = Count(stream[Link(1, root)], "ACK") + round[root]

\* The barriers are in step with the broadcasts, by the invariant of RingBarrier.
DeliveryInv == (Quiet => Barrier!IInv) /\ (Plain => DueInv /\ GotInv /\ AnswerInv)

-----------------------------------------------------------------------------

\* The inductive invariants of a single broadcast, whatever is lost, late or cut.
\* No datagram counts twice: over TC the last rank has two of each.
Single == MaxBcasts = 1 /\ (plane = "XDP" \/ Fragments = 1)

\* Which datagrams rank r is to have: by whom and to whom they have been sent.
LaneOf(r) == IF NaiveRing THEN <<prev(r), r>>
             ELSE <<root, IF NaiveLinear THEN r ELSE next(root)>>
Lane(id) == <<log[id].root, log[id].dst>>
LaneInv ==
  /\ \A p \in net : p.op = Opcode /\ Lane(p.id) = LaneOf(p.dst)
  /\ \A r \in Rank : \A i \in DOMAIN sock[r] : Lane(sock[r][i].id) = LaneOf(r)
  /\ \A r \in Rank : \A i \in DOMAIN frag[r] : Lane(frag[r][i]) = LaneOf(r)

\* Each is sent once, in the order of the loop over the fragments.
SentInv ==
  /\ \A i, j \in DOMAIN log : Lane(i) = Lane(j) /\ loads[i].seq = loads[j].seq => i = j
  /\ \A i \in DOMAIN log :
       LET q == log[i].root
       IN  /\ pc[q] \in {"send", "answers", "garbled"} \/ round[q] = 1
           /\ pc[q] = "send" => \/ NaiveLinear /\ log[i].dst < peer[q]
                                \/ log[i].dst = Target(q) /\ loads[i].seq < seq[q]
           /\ pc[q] = "answers" /\ NaiveLinear => log[i].dst <= peer[q]

\* And received once: what a rank has counted is neither in its socket nor
\* claimed by a packet.
Counted(r, id) == \E i \in DOMAIN frag[r] : frag[r][i] = id
CountedOnce ==
  /\ \A p \in net : \A r \in Claim(p) : ~Counted(r, p.id)
  /\ \A r \in Rank : \A i \in DOMAIN frag[r] : ~Delivered(r, frag[r][i])
  /\ \A r \in Rank : \A i, j \in DOMAIN frag[r] : frag[r][i] = frag[r][j] => i = j
OnceInv ==
  (\A p \in net : WellFormed(p)) /\ ClaimsApart /\ ClaimsOpen /\ AtMostOnce /\ CountedOnce

\* So there is one content, and who acknowledges or forwards has it.
HasInv ==
  /\ \A i \in DOMAIN loads : loads[i].content = 1
  /\ pc[root] = "answers" \/ round[root] = 1 => buf[root] = 1
  /\ \A r \in Receiver :
       /\ buf[r] \in {NoContent, 1}
       /\ pc[r] \in {"ack", "send", "answers"} => buf[r] = 1
       /\ round[r] = 1 /\ (Eager => timeouts = 0) => buf[r] = 1
       /\ pc[r] \notin {"ack", "send", "answers", "garbled"} /\ round[r] = 0 => buf[r] = NoContent

\* A payload on a stream is that content, and an ACK says that its sender has it.
SaidInv ==
  \A q, r \in Rank : \A i \in DOMAIN stream[Link(q, r)] :
    LET message == stream[Link(q, r)][i]
    IN  /\ message.kind = "DATA" => message.content = 1
        /\ message.kind = "ACK" => q # root /\ buf[q] = 1

\* A rank whose answer the root has read has the content, or is sent it.
OnItsWay(r) == \E i \in DOMAIN stream[Link(root, r)] : stream[Link(root, r)][i].kind = "DATA"
AnsweredInv ==
  WaitsForAll => \A r \in Receiver : round[root] = 1 \/ r < peer[root] => buf[r] = 1 \/ OnItsWay(r)

SingleInv ==
  Single => /\ plane = "XDP" => LaneInv /\ SentInv /\ OnceInv
            /\ HasInv /\ SaidInv /\ AnsweredInv

\* The inductive invariant of one broadcast around the naive ring, with timeouts.
\* Of two ranks each is both before and after the other, so there must be more.
AroundTheRing == NaiveRing /\ MaxBcasts = 1 /\ N > 2

\* A datagram is for the rank after its sender.
HopInv ==
  /\ \A p \in net : p.op = "MPI_SEND" /\ p.port = p.dst /\ p.root = prev(p.dst)
  /\ \A r \in Rank : \A i \in DOMAIN sock[r] : sock[r][i].root = prev(r)

\* Tokens and payloads go down the ring, answers up; a rank sends a payload over
\* TCP when it returns.
WayInv ==
  \A q, r \in Rank : \A i \in DOMAIN stream[Link(q, r)] :
    LET kind == stream[Link(q, r)][i].kind
    IN  \/ kind = "TOKEN" /\ r = next(q)
        \/ kind = "DATA" /\ r = next(q) /\ round[q] = 1
        \/ kind \in {"ACK", "NACK"} /\ r = prev(q)

\* The one header that a rank reads is the first that the rank after it has sent,
\* so who asks has its NACK read, and then the payload before the next token.
FirstHeaderInv ==
  \A r \in Receiver :
    LET up == stream[Link(r, prev(r))]
        down == stream[Link(prev(r), r)]
        answering == pc[r] \in {"fallback", "ack", "send", "answers"}
    IN  IF round[prev(r)] = 0
        THEN /\ pc[r] = "fallback" => up # <<>> /\ Head(up).kind = "NACK"
             /\ round[r] = 0 /\ ~answering => up = <<>>
        ELSE /\ pc[r] = "fallback" => down # <<>> /\ Head(down).kind = "DATA"
             /\ round[r] = 0 => answering

RingInv ==
  AroundTheRing => StreamsFramed /\ Barrier!IInv /\ HopInv /\ WayInv /\ FirstHeaderInv
=============================================================================
