------------------------------ MODULE Payload ------------------------------
(***************************************************************************)
(* One payload on its way from the buffer of one rank to that of another:  *)
(* __mpi_send cuts it into datagrams and puts it into network byte order,  *)
(* mpi_recv, or mpi_recv_no_ack, puts it together again.  What the network *)
(* does to datagrams is loss and reordering; who answers whom over TCP is  *)
(* in Collectives.                                                         *)
(*                                                                         *)
(* Sender and receiver decide for themselves, and not alike, whether a     *)
(* payload is cut: the sender compares header and payload with             *)
(* PAYLOAD_SIZE, the receiver with MAX_PAYLOAD.                            *)
(*                                                                         *)
(* Only types of one byte are cut.  For the wider ones both loops confuse  *)
(* elements and bytes and leave their buffers; MPI.c sends MPI_CHAR.       *)
(***************************************************************************)
EXTENDS Integers, FiniteSets

CONSTANTS MAX_PAYLOAD,  \* the bytes of a full datagram: 1472 in the code
          MPI_HEADER,   \* those of its header: 48
          Datatypes,    \* the types of payload to choose from
          Counts,       \* how many elements it may have
          MaxFailures   \* bound: sends that fail, datagrams lost or late

AllDatatypes == {"MPI_CHAR", "MPI_C_BOOL", "MPI_SHORT", "MPI_INT", "MPI_DOUBLE",
                 "MPI_LONG_DOUBLE"}

ASSUME HeaderAssumption == MPI_HEADER \in Nat \ {0}
ASSUME MaxPayloadAssumption == MAX_PAYLOAD \in Nat /\ MAX_PAYLOAD > MPI_HEADER
ASSUME DatatypesAssumption == Datatypes \subseteq AllDatatypes
ASSUME CountsAssumption == Counts \subseteq Nat \ {0}
ASSUME MaxFailuresAssumption == MaxFailures \in Nat

PAYLOAD_SIZE == MAX_PAYLOAD - MPI_HEADER

\* sizeof; the other types of mpi_struct.h have the width of one of these.
Width(type) == CASE type \in {"MPI_CHAR", "MPI_C_BOOL"} -> 1
                 [] type = "MPI_SHORT" -> 2
                 [] type = "MPI_INT" -> 4
                 [] type = "MPI_DOUBLE" -> 8
                 [] type = "MPI_LONG_DOUBLE" -> 16

VARIABLES datatype,    \* the arguments of the two calls
          count,
          no_ack,      \* the receive is mpi_recv_no_ack
          sender,      \* "sending", or out of __mpi_send
          seq,         \* the fragment it is at
          net,         \* the datagrams in flight and in the receiver's socket
          receiver,    \* what the receiving rank is doing
          fragment,    \* fragment[i]: length and data of fragment i, if it has come
          total_recv,  \* the bytes counted in them
          i, offset,   \* the loop that puts them together
          buf,         \* the receiver's buffer
          failures     \* how many sends have failed and datagrams got lost or late

arguments == <<datatype, count, no_ack>>
sending == <<sender, seq>>
receiving == <<receiver, fragment, total_recv, i, offset, buf>>
vars == <<arguments, sending, net, receiving, failures>>

datatype_size_in_bytes == count * Width(datatype)
size == datatype_size_in_bytes

\* A byte of the sender's buffer is its position, but for the terminator that
\* MPI.c ends it with.
Nul == -1
Old == -2  \* what the receiver's buffer holds before
Byte == {Nul, Old} \cup 0 .. size-1
Text == datatype = "MPI_CHAR"
payload == [j \in 0 .. size-1 |-> IF Text /\ j = size-1 THEN Nul ELSE j]

Data(len) == [0 .. len-1 -> Byte]
\* An entry of the array of fragments for one that has not come.
Absent == [len |-> 0, arr |-> <<>>]

-----------------------------------------------------------------------------
(* Byte order.                                                             *)

\* Where byte k of an element of width w goes.  hton128 assigns the swapped low
\* half to high before it reads high for the swapped high half, so the low half
\* is there twice and the high half is lost.
Swapped(w, k) == IF w = 16 /\ k < 8 THEN k ELSE w-1 - k

\* generic_hton, which is generic_ntoh as well.
generic_hton(data, w) ==
  [j \in DOMAIN data |-> data[(j \div w) * w + Swapped(w, j % w)]]
generic_ntoh(data, w) ==
  [j \in DOMAIN data |-> data[(j \div w) * w + Swapped(w, j % w)]]

-----------------------------------------------------------------------------
(* __mpi_send.                                                             *)

\* Mutant: one more than fits an exact multiple.
Pieces_OneMore == size \div PAYLOAD_SIZE + 1
\* N, which both ends compute: ceil(size / PAYLOAD_SIZE).
Pieces == (size + PAYLOAD_SIZE - 1) \div PAYLOAD_SIZE
Last == size - (Pieces - 1) * PAYLOAD_SIZE

\* The sender's loop is at this byte, and cuts this many from there.
Start == seq * PAYLOAD_SIZE
Cut == IF size - Start > PAYLOAD_SIZE THEN PAYLOAD_SIZE ELSE Last

\* The part of the sender's buffer that goes into a datagram, in network order.
Part(start, len) ==
  generic_hton([j \in 0 .. len-1 |-> payload[start + j]], Width(datatype))

CutBySender == MPI_HEADER + size > PAYLOAD_SIZE
CutByReceiver == MPI_HEADER + size > MAX_PAYLOAD

\* The payload in one datagram, of its own length.
SendWhole ==
  /\ sender = "sending" /\ ~CutBySender
  /\ net' = net \cup {[seq |-> 0, len |-> size, bytes |-> MPI_HEADER + size,
                        data |-> Part(0, size)]}
  /\ sender' = "sent"
  /\ UNCHANGED <<arguments, seq, receiving, failures>>

\* One fragment; whatever its share of the payload, the datagram is full.
SendFragment ==
  /\ sender = "sending" /\ CutBySender
  /\ net' = net \cup {[seq |-> seq, len |-> Cut, bytes |-> MAX_PAYLOAD,
                        data |-> Part(Start, Cut)]}
  /\ seq' = seq + 1
  /\ sender' = IF Start + PAYLOAD_SIZE < size THEN "sending" ELSE "sent"
  /\ UNCHANGED <<arguments, receiving, failures>>

\* sendto fails: __mpi_send returns -1, with fragments still to send, and no
\* caller looks.
SendFails ==
  /\ sender = "sending" /\ failures < MaxFailures
  /\ failures' = failures + 1
  /\ sender' = "failed"
  /\ UNCHANGED <<arguments, seq, net, receiving>>

-----------------------------------------------------------------------------
(* mpi_recv and mpi_recv_no_ack.                                           *)

Lose(d) ==
  /\ failures < MaxFailures
  /\ failures' = failures + 1
  /\ net' = net \ {d}
  /\ UNCHANGED <<arguments, sending, receiving>>

\* Put data into the buffer at byte start; text is terminated each time.
Stored(data, start) ==
  [j \in 0 .. size-1 |->
     IF Text /\ j = size-1 THEN Nul
     ELSE IF j - start \in DOMAIN data THEN data[j - start] ELSE buf[j]]

\* The receive has failed.  mpi_recv asks for the payload over TCP.
Fail == receiver' = IF no_ack THEN "gave up" ELSE "fallback"

\* recvfrom takes no more bytes than there is room for.
Room == IF CutByReceiver THEN MAX_PAYLOAD ELSE MPI_HEADER + size
DataSize(d) == (IF d.bytes > Room THEN Room ELSE d.bytes) - MPI_HEADER

\* FINAL_SEND, the length that a last fragment may have.
FinalSend == IF size % Pieces # 0 THEN Last ELSE PAYLOAD_SIZE

\* A payload in one datagram.
RecvWhole(d) ==
  /\ receiver = "recv" /\ ~CutByReceiver
  /\ net' = net \ {d}
  /\ IF DataSize(d) = size
     THEN /\ buf' = Stored(generic_ntoh(d.data, Width(datatype)), 0)
          /\ receiver' = "returned"
     ELSE Fail /\ UNCHANGED buf
  /\ UNCHANGED <<arguments, sending, fragment, total_recv, i, offset, failures>>

\* Mutant: fragments are kept in the order in which they come.
Place_Arrival(d) == Cardinality({k \in DOMAIN fragment : fragment[k] # Absent})
\* Where a fragment is kept.
Place(d) == d.seq

\* Mutant of RecvFragment: it goes straight into the buffer.
RecvFragment_InPlace(d) ==
  /\ receiver = "recv" /\ CutByReceiver
  /\ net' = net \ {d}
  /\ buf' = Stored(generic_ntoh(d.data, Width(datatype)), d.seq * PAYLOAD_SIZE)
  /\ total_recv' = total_recv + d.len
  /\ receiver' = IF total_recv' < size THEN "recv" ELSE "returned"
  /\ UNCHANGED <<arguments, sending, fragment, i, offset, failures>>

\* A fragment.
RecvFragment(d) ==
  /\ receiver = "recv" /\ CutByReceiver
  /\ net' = net \ {d}
  /\ IF DataSize(d) \in {PAYLOAD_SIZE, FinalSend}
     THEN /\ fragment' = [fragment EXCEPT ![Place(d)] =
                            [len |-> d.len, arr |-> generic_ntoh(d.data, Width(datatype))]]
          /\ total_recv' = total_recv + d.len
          /\ receiver' = IF total_recv' < size THEN "recv" ELSE "assemble"
     ELSE Fail /\ UNCHANGED <<fragment, total_recv>>
  /\ UNCHANGED <<arguments, sending, i, offset, buf, failures>>

\* Mutant of Timeout: a receive that has a fragment is not given up.
Timeout_OnlyFirst ==
  /\ receiver = "recv" /\ total_recv = 0
  /\ \/ net = {} /\ sender # "sending" /\ UNCHANGED failures
     \/ failures < MaxFailures /\ failures' = failures + 1
  /\ Fail
  /\ UNCHANGED <<arguments, sending, net, fragment, total_recv, i, offset, buf>>

\* recvfrom waits ten seconds: nothing is to come any more, or it is late.
Timeout ==
  /\ receiver = "recv"
  /\ \/ net = {} /\ sender # "sending" /\ UNCHANGED failures
     \/ failures < MaxFailures /\ failures' = failures + 1
  /\ Fail
  /\ UNCHANGED <<arguments, sending, net, fragment, total_recv, i, offset, buf>>

\* Mutant: the fragments that follow the first are put one byte too far.
NextOffset_Terminated(len) == offset + len + 1
NextOffset(len) == offset + len

\* One round of the loop over the fragments.  One that has not come takes no
\* room: the next one is put in its place.
Assemble ==
  /\ receiver = "assemble"
  /\ IF fragment[i] = Absent THEN UNCHANGED <<offset, buf>>
     ELSE /\ buf' = Stored(generic_ntoh(fragment[i].arr, Width(datatype)), offset)
          /\ offset' = NextOffset(fragment[i].len)
  /\ i' = i + 1
  /\ receiver' = IF i' < Pieces THEN "assemble" ELSE "returned"
  /\ UNCHANGED <<arguments, sending, net, fragment, total_recv, failures>>

\* __mpi_recv_tcp of what __mpi_send_tcp has sent, should the source answer.  The
\* terminator that the code puts at buf[count], outside the buffer, is left out.
RecvFallback ==
  /\ receiver = "fallback"
  /\ buf' = Stored(generic_ntoh(Part(0, size), Width(datatype)), 0)
  /\ receiver' = "returned"
  /\ UNCHANGED <<arguments, sending, net, fragment, total_recv, i, offset, failures>>

-----------------------------------------------------------------------------

Init ==
  /\ datatype \in Datatypes /\ count \in Counts /\ no_ack \in BOOLEAN
  /\ CutBySender => Width(datatype) = 1
  /\ sender = "sending" /\ seq = 0
  /\ net = {}
  /\ receiver = "recv"
  /\ fragment = [k \in 0 .. Pieces-1 |-> Absent]
  /\ total_recv = 0
  /\ i = 0 /\ offset = 0
  /\ buf = [j \in 0 .. size-1 |-> Old]
  /\ failures = 0

Send == SendWhole \/ SendFragment
Recv == (\E d \in net : RecvWhole(d) \/ RecvFragment(d)) \/ Assemble

Next ==
  \/ Send \/ SendFails
  \/ Recv \/ Timeout \/ RecvFallback
  \/ \E d \in net : Lose(d)

\* Both ranks run on and recvfrom times out.  RecvFallback is not fair: the NACK
\* goes to the source, which may never read it.
Fairness == WF_vars(Send) /\ WF_vars(Recv) /\ WF_vars(Timeout)

Safety == Init /\ [][Next]_vars
Spec == Safety /\ Fairness

-----------------------------------------------------------------------------

\* The variables stay in their types.
TypeOK ==
  /\ datatype \in Datatypes /\ count \in Counts /\ no_ack \in BOOLEAN
  /\ sender \in {"sending", "sent", "failed"}
  /\ seq \in 0 .. Pieces
  /\ \A d \in net : /\ d.seq \in 0 .. Pieces-1
                    /\ d.len \in 1 .. size /\ d.data \in Data(d.len)
                    /\ d.bytes \in 0 .. MAX_PAYLOAD
  /\ receiver \in {"recv", "assemble", "fallback", "returned", "gave up"}
  /\ DOMAIN fragment = 0 .. Pieces-1
  /\ \A k \in 0 .. Pieces-1 :
       \/ fragment[k] = Absent
       \/ fragment[k].len \in 1 .. size /\ fragment[k].arr \in Data(fragment[k].len)
  /\ total_recv \in 0 .. size
  /\ i \in 0 .. Pieces /\ offset \in 0 .. size
  /\ buf \in Data(size)
  /\ failures \in 0 .. MaxFailures

\* What a receiver can have: all of the payload, of a long double the first
\* eight bytes.
Survives(j) == Width(datatype) = 16 => j % 16 < 8
Whole == \A j \in 0 .. size-1 : Survives(j) => buf[j] = payload[j]

\* A receive that returns has the whole payload, whatever its size, however it
\* was cut and in whatever order its datagrams came.
Delivered == receiver = "returned" => Whole

\* Nothing of a payload that is not complete gets into the buffer, also when
\* the receive gives up.
AllOrNothing ==
  receiver \in {"recv", "fallback", "gave up"} => \A j \in 0 .. size-1 : buf[j] = Old

\* The two ends agree on what a payload looks like, although not on when it is
\* cut: nothing is refused that was not lost or late.
NotRefused == receiver \in {"fallback", "gave up"} => failures > 0

\* No fragment is longer than a datagram has room for, nor leaves the buffer
\* where it is put.
WithinBounds ==
  /\ \A d \in net : MPI_HEADER + d.len <= d.bytes
  /\ receiver = "assemble" => offset + fragment[i].len <= size

\* No receive waits for datagrams for ever, whatever is lost or not sent:
\* mpi_recv_no_ack returns or gives up, and mpi_recv returns or asks its source
\* over TCP.  Whether the source answers is not said here.
EndsOrAsks ==
  /\ no_ack => <>(receiver \in {"returned", "gave up"})
  /\ ~no_ack => <>(receiver \in {"returned", "fallback"})

-----------------------------------------------------------------------------

\* The inductive invariant.  Both ends cut the payload at the same places:
\* piece k is this long, and this part of the payload.
Length(k) == IF k < Pieces-1 THEN PAYLOAD_SIZE ELSE Last
Piece(k) == [j \in 0 .. Length(k)-1 |-> payload[k * PAYLOAD_SIZE + j]]

\* The datagram that carries it.
Datagram(k) ==
  IF CutBySender
  THEN [seq |-> k, len |-> Length(k), bytes |-> MAX_PAYLOAD,
        data |-> Part(k * PAYLOAD_SIZE, Length(k))]
  ELSE [seq |-> k, len |-> size, bytes |-> MPI_HEADER + size, data |-> Part(0, size)]

Sent == IF CutBySender THEN 0 .. seq-1 ELSE IF sender = "sent" THEN {0} ELSE {}
Received == {k \in 0 .. Pieces-1 : fragment[k] # Absent}

\* Where the variables range; TypeOK follows from this and what comes after it.
Ranges ==
  /\ datatype \in Datatypes /\ count \in Counts /\ no_ack \in BOOLEAN
  /\ sender \in {"sending", "sent", "failed"} /\ seq \in 0 .. Pieces
  /\ receiver \in {"recv", "assemble", "fallback", "returned", "gave up"}
  /\ DOMAIN fragment = 0 .. Pieces-1
  /\ i \in 0 .. Pieces /\ offset \in 0 .. size
  /\ buf \in Data(size)
  /\ failures \in 0 .. MaxFailures
ArgumentsInv == CutBySender => Width(datatype) = 1
SenderInv ==
  /\ sender = "sending" => seq < Pieces
  /\ sender = "sent" /\ CutBySender => seq = Pieces
  /\ ~CutBySender => seq = 0
NetInv == \A d \in net : d.seq \in Sent /\ d = Datagram(d.seq)

\* What has come is what was sent, and is no longer on its way.
FragmentInv ==
  \A k \in Received :
    /\ CutByReceiver /\ k \in Sent
    /\ fragment[k] = [len |-> Length(k), arr |-> Piece(k)]
    /\ \A d \in net : d.seq # k

\* The bytes counted are those of the fragments that have come.
Bytes(R) == Cardinality(R) * PAYLOAD_SIZE
              - (IF Pieces-1 \in R THEN PAYLOAD_SIZE - Last ELSE 0)
TotalInv == total_recv = Bytes(Received)

\* While it waits something is missing; while it assembles nothing is.
ReceiverInv ==
  /\ receiver = "recv" => Received # 0 .. Pieces-1 /\ i = 0 /\ offset = 0
  /\ receiver = "assemble" =>
       /\ CutByReceiver /\ Received = 0 .. Pieces-1
       /\ i < Pieces /\ offset = i * PAYLOAD_SIZE
       /\ \A j \in 0 .. offset-1 : buf[j] = payload[j]

\* Nothing is lost without a failure.
KeptInv ==
  failures = 0 =>
    /\ sender # "failed"
    /\ receiver = "recv" => \A k \in Sent : k \in Received \/ \E d \in net : d.seq = k

IInv ==
  /\ Ranges /\ ArgumentsInv /\ SenderInv /\ NetInv
  /\ FragmentInv /\ TotalInv /\ ReceiverInv /\ KeptInv
  /\ Delivered /\ AllOrNothing /\ NotRefused
=============================================================================
