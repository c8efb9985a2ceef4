-------------------------- MODULE CollectivesProofs --------------------------
(***************************************************************************)
(* Theorems about the benchmark as its ranks run it, for every number of   *)
(* ranks N >= 2, each of the five broadcasts, both data planes, and any    *)
(* number of broadcasts, fragments, losses and receives that time out.     *)
(***************************************************************************)
EXTENDS Collectives, TcForwardProofs, Counting

\* The root, the receivers and the next ranks, where the definitions would be
\* expanded too often.
LEMMA TheRoot ==
  /\ root \in Rank /\ root = 0 /\ N-1 \in Rank /\ N-1 # root
  /\ next(root) = 1 /\ prev(root) = N-1 /\ next(N-1) = root
  /\ \A r : r \in Receiver <=> r \in 1 .. N-1
  /\ \A r : r \in Receiver <=> r \in Rank /\ r # root
  <1>1. root \in Rank /\ root = 0 /\ N-1 \in Rank /\ N-1 # root
    BY InRank, NAssumption DEF root
  <1>2. next(root) = 1 /\ prev(root) = N-1 /\ next(N-1) = root
    BY <1>1, NextRank, PrevRank, NAssumption
  <1>3. \A r : r \in Receiver <=> r \in Rank /\ r # root
    BY DEF Receiver
  <1>4. \A r : r \in Receiver <=> r \in 1 .. N-1
    BY <1>1, <1>3, InRank, NAssumption
  <1> QED
    BY <1>1, <1>2, <1>3, <1>4

\* Two ranks are each other's next only if there are no others.
LEMMA TwoRanks ==
  ASSUME NEW r \in Rank, next(next(r)) = r
  PROVE  N = 2
  BY NextRank, InRank, NAssumption

\* The options are what the assumptions say.
LEMMA OpcodeType == algo \in Algorithms => Opcode \in Opcodes
  BY OpcodesUsed DEF Opcode

LEMMA AlgorithmsApart ==
  /\ ~(Eager /\ NaiveRing) /\ ~(Eager /\ NaiveLinear) /\ ~(NaiveRing /\ NaiveLinear)
  /\ Eager \/ NaiveRing => ~WaitsForAll
  BY DEF Eager, NaiveRing, NaiveLinear, WaitsForAll

-----------------------------------------------------------------------------
(* The messages and the streams.                                           *)

LEMMA MessageTypes ==
  ASSUME NEW r \in Rank
  PROVE  /\ \A kind \in {"ACK", "NACK", "TOKEN"} :
              Header(kind, r) \in Message /\ Header(kind, r).kind = kind
              /\ Header(kind, r).from = r
         /\ Token(r) \in Message /\ Token(r).kind = "TOKEN" /\ Token(r).from = r
         /\ buf[r] \in -1 .. MaxBcasts =>
              Data(r) \in Message /\ Data(r).kind = "DATA" /\ Data(r).from = r
  <1>1. 0 \in -1 .. MaxBcasts
    BY MaxBcastsAssumption
  <1> QED
    BY <1>1 DEF Header, Token, Data, Message, NoContent

\* A read that fits takes a message of its kind: the lengths are different.
LEMMA Lengths ==
  ASSUME NEW message \in Message
  PROVE  /\ Length(message) = MPI_HEADER <=> message.kind \in {"ACK", "NACK"}
         /\ Length(message) = TokenLength <=> message.kind = "TOKEN"
         /\ Length(message) = DataLength <=> message.kind = "DATA"
  <1>1. message.kind \in {"ACK", "NACK", "TOKEN", "DATA"}
    BY DEF Message
  <1>2. DataLength \in Int /\ DataLength > TokenLength /\ TokenLength > MPI_HEADER
    <2>1. Fragments \in Nat /\ Fragments >= 1
      BY FragmentsAssumption
    <2>2. Fragments * PAYLOAD_SIZE \in Int /\ Fragments * PAYLOAD_SIZE >= PAYLOAD_SIZE
      BY <2>1 DEF PAYLOAD_SIZE
    <2> QED
      BY <2>2 DEF DataLength, TokenLength, MPI_HEADER, PAYLOAD_SIZE
  <1>3. TokenLength = 52 /\ MPI_HEADER = 48
    BY DEF TokenLength, MPI_HEADER
  <1> HIDE DEF TokenLength, MPI_HEADER, DataLength
  <1>4. /\ message.kind \in {"ACK", "NACK"} => Length(message) = MPI_HEADER
        /\ message.kind = "TOKEN" => Length(message) = TokenLength
        /\ message.kind = "DATA" => Length(message) = DataLength
    BY DEF Length
  <1> QED
    BY <1>1, <1>2, <1>3, <1>4

\* Streams: a function of pairs of ranks, changed in one place.
StreamType == [Rank \X Rank -> Seq(Message)]

LEMMA QueueAt ==
  ASSUME NEW s \in StreamType, NEW q \in Rank, NEW r \in Rank, NEW m \in Message
  PROVE  /\ Queue(s, q, r, m) \in StreamType
         /\ \A a, b \in Rank : Queue(s, q, r, m)[Link(a, b)] =
              IF a = q /\ b = r THEN Append(s[Link(q, r)], m) ELSE s[Link(a, b)]
  <1>1. Append(s[Link(q, r)], m) \in Seq(Message)
    BY DEF StreamType, Link
  <1> QED
    BY <1>1 DEF Queue, StreamType, Link

LEMMA DequeueAt ==
  ASSUME NEW s \in StreamType, NEW q \in Rank, NEW r \in Rank, s[Link(q, r)] # <<>>
  PROVE  /\ Dequeue(s, q, r) \in StreamType
         /\ Head(s[Link(q, r)]) \in Message
         /\ \A a, b \in Rank : Dequeue(s, q, r)[Link(a, b)] =
              IF a = q /\ b = r THEN Tail(s[Link(q, r)]) ELSE s[Link(a, b)]
  <1>1. s[Link(q, r)] \in Seq(Message)
    BY DEF StreamType, Link
  <1>2. Tail(s[Link(q, r)]) \in Seq(Message) /\ Head(s[Link(q, r)]) \in Message
    BY <1>1
  <1> QED
    BY <1>2 DEF Dequeue, StreamType, Link

\* How many messages of a kind there are on a stream.
Kind(k) == {m \in Message : m.kind = k}

LEMMA CountIs ==
  ASSUME NEW messages \in Seq(Message), NEW k
  PROVE  /\ Count(messages, k) = Occurrences(messages, Kind(k))
         /\ Count(messages, k) \in Nat
         /\ \A i \in DOMAIN messages : messages[i].kind = k => Count(messages, k) >= 1
  <1>1. {i \in DOMAIN messages : messages[i].kind = k}
          = {i \in DOMAIN messages : messages[i] \in Kind(k)}
    BY DEF Kind
  <1>2. Count(messages, k) = Occurrences(messages, Kind(k))
    BY <1>1 DEF Count, Occurrences
  <1>3. ASSUME NEW i \in DOMAIN messages, messages[i].kind = k
        PROVE  Count(messages, k) >= 1
    <2>1. messages[i] \in Kind(k)
      BY <1>3 DEF Kind
    <2> QED
      BY <1>2, <2>1, OccurrencesPositive
  <1>4. Occurrences(messages, Kind(k)) \in Nat
    BY OccurrencesType
  <1> QED
    BY <1>2, <1>3, <1>4

LEMMA CountEmpty == \A k : Count(<<>>, k) = 0
  <1>1. <<>> \in Seq(Message)
    OBVIOUS
  <1>2. \A k : Count(<<>>, k) = Occurrences(<<>>, Kind(k))
    BY <1>1, CountIs
  <1> QED
    BY <1>2, OccurrencesEmpty

CountOn(s, a, b, k) == Count(s[Link(a, b)], k)

LEMMA CountOnType ==
  ASSUME NEW s \in StreamType, NEW a \in Rank, NEW b \in Rank, NEW k
  PROVE  CountOn(s, a, b, k) \in Nat
  <1>1. s[Link(a, b)] \in Seq(Message)
    BY DEF StreamType, Link
  <1> QED
    BY <1>1, CountIs DEF CountOn

LEMMA CountQueue ==
  ASSUME NEW s \in StreamType, NEW q \in Rank, NEW r \in Rank, NEW m \in Message, NEW k,
         NEW a \in Rank, NEW b \in Rank
  PROVE  CountOn(Queue(s, q, r, m), a, b, k)
           = CountOn(s, a, b, k) + (IF a = q /\ b = r /\ m.kind = k THEN 1 ELSE 0)
  <1> DEFINE t == s[Link(a, b)]
  <1>1. t \in Seq(Message)
    BY DEF StreamType, Link
  <1>2. Count(t, k) \in Nat /\ Count(t, k) = Occurrences(t, Kind(k))
    BY <1>1, CountIs
  <1>3. CASE a = q /\ b = r
    <2>0. Append(t, m) \in Seq(Message)
      BY <1>1
    <2>1. Queue(s, q, r, m)[Link(a, b)] = Append(t, m) /\ Append(t, m) \in Seq(Message)
      <3>1. Queue(s, q, r, m)[Link(a, b)]
              = IF a = q /\ b = r THEN Append(s[Link(q, r)], m) ELSE s[Link(a, b)]
        BY ONLY s \in StreamType, q \in Rank, r \in Rank, m \in Message, a \in Rank,
                b \in Rank, QueueAt
      <3>2. Queue(s, q, r, m)[Link(a, b)] = Append(s[Link(q, r)], m)
        BY <1>3, <3>1
      <3>3. s[Link(q, r)] = t
        BY <1>3
      <3> HIDE DEF t
      <3> QED
        BY <2>0, <3>2, <3>3
    <2>2. Count(Append(t, m), k) = Occurrences(Append(t, m), Kind(k))
      BY <2>1, CountIs
    <2>3. Occurrences(Append(t, m), Kind(k))
            = Occurrences(t, Kind(k)) + (IF m \in Kind(k) THEN 1 ELSE 0)
      BY <1>1, OccurrencesAppend
    <2>4. m \in Kind(k) <=> m.kind = k
      BY DEF Kind
    <2> HIDE DEF t
    <2> QED
      BY <1>2, <1>3, <2>1, <2>2, <2>3, <2>4 DEF t, CountOn
  <1>4. CASE ~(a = q /\ b = r)
    <2>1. Queue(s, q, r, m)[Link(a, b)] = t
      BY <1>4, QueueAt
    <2> HIDE DEF t
    <2> QED
      BY <1>2, <1>4, <2>1 DEF t, CountOn
  <1> QED
    BY <1>3, <1>4

LEMMA CountDequeue ==
  ASSUME NEW s \in StreamType, NEW q \in Rank, NEW r \in Rank, s[Link(q, r)] # <<>>, NEW k,
         NEW a \in Rank, NEW b \in Rank
  PROVE  CountOn(Dequeue(s, q, r), a, b, k)
           = CountOn(s, a, b, k)
             - (IF a = q /\ b = r /\ Head(s[Link(q, r)]).kind = k THEN 1 ELSE 0)
  <1> DEFINE t == s[Link(a, b)]
  <1>1. t \in Seq(Message)
    BY DEF StreamType, Link
  <1>2. Count(t, k) \in Nat /\ Count(t, k) = Occurrences(t, Kind(k))
    BY <1>1, CountIs
  <1>3. CASE a = q /\ b = r
    <2>1. Dequeue(s, q, r)[Link(a, b)] = Tail(t) /\ t # <<>> /\ Head(t) \in Message
      BY <1>3, DequeueAt
    <2>2. Tail(t) \in Seq(Message)
      BY <1>1, <2>1
    <2>3. Count(Tail(t), k) = Occurrences(Tail(t), Kind(k))
      BY <2>2, CountIs
    <2>4. Occurrences(Tail(t), Kind(k))
            = Occurrences(t, Kind(k)) - (IF Head(t) \in Kind(k) THEN 1 ELSE 0)
      BY <1>1, <2>1, OccurrencesTail
    <2>5. Head(t) \in Kind(k) <=> Head(t).kind = k
      BY <2>1 DEF Kind
    <2>6. Head(s[Link(q, r)]) = Head(t)
      BY <1>3
    <2> HIDE DEF t
    <2> QED
      BY <1>2, <1>3, <2>1, <2>3, <2>4, <2>5, <2>6 DEF t, CountOn
  <1>4. CASE ~(a = q /\ b = r)
    <2>1. Dequeue(s, q, r)[Link(a, b)] = t
      BY <1>4, DequeueAt
    <2> HIDE DEF t
    <2> QED
      BY <1>2, <1>4, <2>1 DEF t, CountOn
  <1> QED
    BY <1>3, <1>4

-----------------------------------------------------------------------------
(* The data planes, as the ranks see them: a step of either keeps what a    *)
(* packet carries, and may queue one packet in one socket.                  *)

LEMMA HopType ==
  ASSUME NEW c \in Packet
  PROVE  Hop(c) \in Rank
  <1>1. c.dst \in Rank /\ c.copy \in 0 .. N
    BY Fields
  <1>2. (c.dst + c.copy) % N \in Rank
    BY <1>1, InRank, NAssumption
  <1> QED
    BY <1>2 DEF Hop

LEMMA PlaneMoves ==
  ASSUME TypeOK, Forward \/ TcStep
  PROVE  /\ TypeOK' /\ log' = log
         /\ \A s \in net' : \E p \in net : s.id = p.id /\ s.root = p.root
         /\ \/ sock' = sock
            \/ \E p \in net : sock' = [sock EXCEPT ![p.port] = Append(@, p)]
  <1>0. /\ net \subseteq Packet /\ sock \in [Rank -> Seq(Packet)]
        /\ log \in Seq(Packet) /\ Len(log) <= MaxSends
        /\ losses \in 0 .. MaxLoss /\ full \subseteq Rank \X (1 .. MaxSends)
    BY DEF TypeOK
  <1>1. PICK p \in net :
          \/ Mirror(p) \/ HandleOriginal(p) \/ HandleClone(p) \/ Lose(p)
          \/ TcPass(p) \/ TcSendOn(p) \/ TcEnd(p) \/ TcMarked(p) \/ TcCloneFails(p)
    BY DEF Forward, TcStep, TcWorking
  <1>2. p \in Packet /\ p.port \in Rank /\ p.id \in 1 .. MaxSends
    BY <1>0, Fields
  <1>3. ASSUME losses < MaxLoss
        PROVE  losses + 1 \in 0 .. MaxLoss
    BY <1>0, <1>3, MaxLossAssumption
  <1>4. /\ log' = log /\ losses' \in 0 .. MaxLoss /\ full' \subseteq Rank \X (1 .. MaxSends)
        /\ \/ sock' = sock
           \/ sock' = [sock EXCEPT ![p.port] = Append(@, p)]
    BY <1>0, <1>1, <1>2, <1>3 DEF Mirror, HandleOriginal, HandleClone, Lose, TcPass, TcSendOn,
       TcEnd, TcMarked, TcCloneFails, ToSocket
  <1>5. \A s \in net' : s \in net \/ (s \in Packet /\ s.id = p.id /\ s.root = p.root)
    <2>1. CASE Mirror(p)
      BY <1>2, <2>1, MirroredFields DEF Mirror
    <2>2. CASE HandleOriginal(p)
      <3>1. \A k \in 1 .. handle_original(p) : k \in 1 .. N
        BY NAssumption DEF handle_original
      <3>2. ASSUME NEW s \in Copies(p, handle_original(p))
            PROVE  s \in Packet /\ s.id = p.id /\ s.root = p.root
        <4>1. PICK k \in 1 .. N : s = Copy(p, k)
          BY <3>1 DEF Copies
        <4> QED
          BY <1>2, <4>1, CopyFields
      <3>3. net' = (net \ {p}) \cup Copies(p, handle_original(p))
        BY <2>2 DEF HandleOriginal
      <3>4. \A s \in net' : s \in net \/ s \in Copies(p, handle_original(p))
        BY <3>3
      <3> QED
        BY <3>2, <3>4
    <2>3. CASE HandleClone(p)
      <3>1. ASSUME NEW s \in handle_clone(p)
            PROVE  s \in Packet /\ s.id = p.id /\ s.root = p.root
        <4>1. s = Rewritten(p, Hop(p)) /\ Hop(p) \in Rank
          BY <1>2, HopType DEF handle_clone
        <4> QED
          BY <1>2, <4>1, RewrittenFields
      <3>2. \A s \in net' : s \in net \/ s \in handle_clone(p)
        BY <2>3 DEF HandleClone
      <3> QED
        BY <3>1, <3>2
    <2>4. CASE Lose(p) \/ TcPass(p) \/ TcMarked(p) \/ TcCloneFails(p)
      BY <2>4 DEF Lose, TcPass, TcMarked, TcCloneFails
    <2>5. CASE TcSendOn(p)
      BY <1>2, <2>5, MarkedFields, TcRewrittenFields DEF TcSendOn
    <2>6. CASE TcEnd(p)
      BY <1>2, <2>6, MarkedFields DEF TcEnd
    <2> QED
      BY <1>1, <2>1, <2>2, <2>3, <2>4, <2>5, <2>6
  <1>6. sock' \in [Rank -> Seq(Packet)]
    BY <1>0, <1>2, <1>4, Queued
  <1>7. net' \subseteq Packet
    BY <1>0, <1>5
  <1>8. TypeOK'
    BY <1>0, <1>4, <1>6, <1>7 DEF TypeOK
  <1> QED
    BY <1>4, <1>5, <1>8

LEMMA SendTyped ==
  ASSUME TypeOK, NEW op \in Opcodes, NEW r \in Rank, NEW dest \in Rank, SendTo(op, r, dest)
  PROVE  /\ TypeOK' /\ sock' = sock
         /\ Len(log) < MaxSends /\ Len(log') = Len(log) + 1 /\ Len(log) \in Nat
         /\ \E d \in Packet : net' = net \cup {d} /\ d.id = Len(log) + 1 /\ d.root = r
  <1>0. PICK d : d = Datagram(op, r, dest)
    OBVIOUS
  <1>1. /\ net' = net \cup {d} /\ log' = Append(log, d) /\ Len(log) < MaxSends
        /\ sock' = sock /\ losses' = losses /\ full' = full
    BY <1>0 DEF SendTo
  <1>2. log \in Seq(Packet) /\ Len(log) \in Nat
    BY DEF TypeOK
  <1>3. d \in Packet /\ d.id = Len(log) + 1 /\ d.root = r
    <2>1. Len(log) + 1 \in 1 .. MaxSends /\ 0 \in 0 .. N /\ <<>> \in Seq(0 .. N)
      BY <1>1, <1>2, MaxSendsAssumption, NAssumption
    <2> QED
      BY <1>0, <2>1 DEF Datagram, Packet, Addresses, Places
  <1>4. log' \in Seq(Packet) /\ Len(log') = Len(log) + 1 /\ Len(log') <= MaxSends
    BY <1>1, <1>2, <1>3, MaxSendsAssumption
  <1>5. TypeOK'
    BY <1>1, <1>3, <1>4 DEF TypeOK
  <1> QED
    BY <1>1, <1>2, <1>3, <1>4, <1>5

-----------------------------------------------------------------------------
(* Types.                                                                  *)

LEMMA Typed ==
  ASSUME CTypeOK
  PROVE  /\ stream \in StreamType
         /\ \A r \in Rank : /\ peer[r] \in 1 .. N-1 /\ peer[r] \in Rank
                           /\ round[r] \in 0 .. MaxBcasts /\ buf[r] \in -1 .. MaxBcasts
                           /\ frag[r] \in Seq(1 .. MaxSends) /\ acks[r] \in Nat
         /\ Len(loads) \in Nat
         /\ \A id \in 1 .. Len(loads) : /\ loads[id].content \in -1 .. MaxBcasts
                                       /\ loads[id].seq \in 0 .. Fragments-1
         /\ log \in Seq(Packet) /\ Len(log) \in Nat
  <1>1. /\ stream \in StreamType /\ peer \in [Rank -> 1 .. N-1]
        /\ round \in [Rank -> 0 .. MaxBcasts] /\ buf \in [Rank -> -1 .. MaxBcasts]
        /\ frag \in [Rank -> Seq(1 .. MaxSends)] /\ acks \in [Rank -> Nat]
    BY DEF CTypeOK, RankTypeOK, StreamType
  <1>2. \A i \in 1 .. N-1 : i \in Rank
    BY TheRoot
  <1>3. loads \in Seq([content : -1 .. MaxBcasts, seq : 0 .. Fragments-1])
    BY DEF CTypeOK, RankTypeOK
  <1>4. Len(loads) \in Nat /\ \A id \in 1 .. Len(loads) :
          loads[id] \in [content : -1 .. MaxBcasts, seq : 0 .. Fragments-1]
    BY <1>3, LenProperties, ElementOfSeq
  <1>5. log \in Seq(Packet) /\ Len(log) \in Nat
    BY LenProperties DEF CTypeOK, TypeOK
  <1> QED
    BY <1>1, <1>2, <1>4, <1>5

\* What a read that fits takes.
LEMMA Reads ==
  ASSUME CTypeOK, NEW r \in Rank, Reading(r)
  PROVE  /\ Peer(r) \in Rank
         /\ pc[r] = "barrier recv" => Peer(r) = prev(r)
         /\ pc[r] = "answers" => Peer(r) = peer[r]
         /\ pc[r] = "fallback" => Peer(r) = Source(r)
         /\ Fits(r) =>
              /\ Incoming(r) # <<>> /\ Head(Incoming(r)) \in Message
              /\ pc[r] = "barrier recv" <=> Head(Incoming(r)).kind = "TOKEN"
              /\ pc[r] = "answers" <=> Head(Incoming(r)).kind \in {"ACK", "NACK"}
              /\ pc[r] = "fallback" <=> Head(Incoming(r)).kind = "DATA"
              /\ Taken(r) \in StreamType
  <1>1. /\ pc[r] = "barrier recv" => Peer(r) = prev(r) /\ Want(r) = TokenLength
        /\ pc[r] = "answers" => Peer(r) = peer[r] /\ Want(r) = MPI_HEADER
        /\ pc[r] = "fallback" => Peer(r) = Source(r) /\ Want(r) = DataLength
    BY DEF Peer, Want
  <1>2. prev(r) \in Rank /\ Source(r) \in Rank /\ peer[r] \in Rank
    <2>1. peer[r] \in Rank
      BY Typed
    <2> QED
      BY <2>1, PrevRank, TheRoot DEF Source
  <1>3. Peer(r) \in Rank
    BY <1>1, <1>2 DEF Reading
  <1>4. stream \in StreamType
    BY Typed
  <1>5. ASSUME Fits(r)
        PROVE  /\ Incoming(r) # <<>> /\ Head(Incoming(r)) \in Message
               /\ Length(Head(Incoming(r))) = Want(r) /\ Taken(r) \in StreamType
    BY <1>3, <1>4, <1>5, DequeueAt DEF Fits, Incoming, Taken
  <1>6. ASSUME Fits(r)
        PROVE  /\ pc[r] = "barrier recv" => Head(Incoming(r)).kind = "TOKEN"
               /\ pc[r] = "answers" => Head(Incoming(r)).kind \in {"ACK", "NACK"}
               /\ pc[r] = "fallback" => Head(Incoming(r)).kind = "DATA"
    BY <1>1, <1>5, <1>6, Lengths
  <1> QED
    BY <1>1, <1>3, <1>5, <1>6 DEF Reading

LEMMA AssembleType ==
  ASSUME CTypeOK, LogInv, NEW ids \in Seq(1 .. MaxSends),
         \A i \in DOMAIN ids : ids[i] <= Len(log)
  PROVE  Assemble(ids) \in -1 .. MaxBcasts
  <1> DEFINE contents == {loads[ids[i]].content : i \in DOMAIN ids}
  <1>1. ASSUME NEW i \in DOMAIN ids
        PROVE  loads[ids[i]].content \in -1 .. MaxBcasts
    <2>1. ids[i] \in 1 .. MaxSends
      BY ElementOfSeq, LenProperties
    <2>2. Len(loads) = Len(log)
      BY DEF LogInv
    <2>3. ids[i] \in 1 .. Len(loads)
      BY <2>1, <2>2, Typed, MaxSendsAssumption
    <2> QED
      BY <2>3, Typed
  <1>2. contents \subseteq -1 .. MaxBcasts
    BY <1>1
  <1>3. Cardinality(contents) = 1 => contents # {}
    <2> HIDE DEF contents
    <2>1. CASE contents = {}
      <3>1. Cardinality(contents) = 0
        BY <2>1, FS_EmptySet
      <3> QED
        BY <3>1
    <2> QED
      BY <2>1
  <1>4. contents # {} => (CHOOSE k \in contents : TRUE) \in contents
    OBVIOUS
  <1>5. MixedContent \in -1 .. MaxBcasts
    BY MaxBcastsAssumption DEF MixedContent
  <1> QED
    BY <1>2, <1>3, <1>4, <1>5 DEF Assemble

\* The first answer the root waits for, in each broadcast.
LEMMA Answers ==
  ASSUME CTypeOK, ProgramInv, NEW r \in Rank, pc[r] \in {"send", "answers"}
  PROVE  /\ FirstAnswer(r) \in 1 .. N-1 /\ Target(r) \in Rank
         /\ NaiveRing => Target(r) = next(r) /\ FirstAnswer(r) = next(r)
         /\ WaitsForAll => r = root
         /\ WaitsForAll /\ ~NaiveLinear => FirstAnswer(r) = 1
         /\ NaiveLinear => FirstAnswer(r) = peer[r]
         /\ ~LastAnswer(r) => peer[r] + 1 \in 1 .. N-1 /\ ~NaiveRing
  <1>1. peer[r] \in 1 .. N-1 /\ 1 \in 1 .. N-1 /\ N \in Nat
    BY NAssumption, Typed
  <1>2. next(r) \in Rank /\ peer[r] \in Rank
    BY <1>1, NextRank, TheRoot
  <1>3. NaiveRing => next(r) # root
    <2>1. r = root \/ Forwards(r)
      BY DEF ProgramInv
    <2> QED
      BY <1>1, <2>1, TheRoot DEF Forwards
  <1>4. next(r) # root => next(r) \in 1 .. N-1
    BY <1>2, TheRoot
  <1>5. NaiveRing => Target(r) = next(r) /\ FirstAnswer(r) = next(r)
    BY AlgorithmsApart DEF Target, FirstAnswer, FirstHop
  <1>6. NaiveLinear => Target(r) = peer[r] /\ FirstAnswer(r) = peer[r]
    BY DEF Target, FirstAnswer
  <1>7. ~NaiveLinear => Target(r) = next(r)
    BY DEF Target, FirstHop
  <1>8. ~NaiveLinear /\ ~NaiveRing => FirstAnswer(r) = 1
    BY DEF FirstAnswer
  <1>9. WaitsForAll => r = root
    BY DEF WaitsForAll, ProgramInv, Forwards
  <1>10. ~LastAnswer(r) => peer[r] + 1 \in 1 .. N-1 /\ ~NaiveRing
    BY <1>1 DEF LastAnswer
  <1> QED
    BY <1>1, <1>2, <1>3, <1>4, <1>5, <1>6, <1>7, <1>8, <1>9, <1>10 DEF WaitsForAll

LEMMA DestinationTypes ==
  ASSUME NEW r \in Rank
  PROVE  Source(r) \in Rank /\ AckTo(r) \in Rank /\ next(r) \in Rank /\ prev(r) \in Rank
  BY NextRank, PrevRank, TheRoot DEF Source, AckTo

\* What the control of a rank does.
ControlType ==
  /\ pc \in [Rank -> Labels] /\ round \in [Rank -> 0 .. MaxBcasts] /\ peer \in [Rank -> 1 .. N-1]

LEMMA ReturnTyped ==
  ASSUME ControlType, NEW r \in Rank, round[r] < MaxBcasts, Return(r)
  PROVE  ControlType'
  <1>1. round[r] + 1 \in 0 .. MaxBcasts
    BY MaxBcastsAssumption DEF ControlType
  <1>2. 1 \in 1 .. N-1
    BY NAssumption
  <1> QED
    BY <1>1, <1>2 DEF ControlType, Return, Labels

LEMMA GoOnTyped ==
  ASSUME ControlType, NEW r \in Rank, NEW label \in Labels, GoOn(r, label)
  PROVE  ControlType'
  BY DEF ControlType, GoOn

LEMMA AfterBarrierTyped ==
  \A r \in Rank : AfterBarrier(r) \in {"done", "send", "recv"} /\ AfterToken(r) \in Labels
  BY DEF AfterBarrier, AfterToken, Labels

\* The control stays in its type.
LEMMA ControlStep ==
  ASSUME CTypeOK, ProgramInv, NEW r \in Rank, RankStep(r) \/ Timeout(r)
  PROVE  ControlType'
  <1>0. ControlType
    BY DEF CTypeOK, RankTypeOK, ControlType
  <1>1. CASE EnterBarrier(r)
    BY <1>0, <1>1 DEF EnterBarrier, ControlType, Labels
  <1>2. CASE SendToken(r)
    BY <1>0, <1>2, AfterBarrierTyped DEF SendToken, ControlType
  <1>3. CASE RecvToken(r)
    <2>1. (IF r = 0 THEN AfterBarrier(r) ELSE "barrier send") \in Labels
      BY AfterBarrierTyped DEF Labels
    <2> QED
      BY <1>0, <1>3, <2>1 DEF RecvToken, ControlType
  <1>4. CASE Garble(r)
    BY <1>0, <1>4 DEF Garble, ControlType, Labels
  <1>5. CASE SendFragment(r)
    <2>1. FirstAnswer(r) \in 1 .. N-1 /\ round[r] < MaxBcasts
      BY <1>5, Answers DEF SendFragment, ProgramInv, InBcast
    <2>2. CASE AfterSend(r) /\ Eager
      BY <1>0, <2>1, <2>2, ReturnTyped DEF AfterSend
    <2>3. CASE AfterSend(r) /\ ~Eager
      BY <1>0, <2>1, <2>3 DEF AfterSend, ControlType, Labels
    <2>4. CASE GoOn(r, "send")
      BY <1>0, <2>4, GoOnTyped DEF Labels
    <2> QED
      BY <1>5, <2>2, <2>3, <2>4 DEF SendFragment
  <1>6. CASE RecvAnswer(r)
    <2>1. pc[r] = "answers" /\ round[r] < MaxBcasts
      BY <1>6 DEF RecvAnswer, ProgramInv, InBcast
    <2>2. CASE LastAnswer(r)
      BY <1>0, <1>6, <2>1, <2>2, ReturnTyped DEF RecvAnswer
    <2>3. CASE ~LastAnswer(r)
      <3>1. peer[r] + 1 \in 1 .. N-1
        BY <2>1, <2>3, Answers
      <3> QED
        BY <1>0, <1>6, <2>3, <3>1 DEF RecvAnswer, ControlType, Labels
    <2> QED
      BY <2>2, <2>3
  <1>7. CASE Recvfrom(r)
    <2>1. round[r] < MaxBcasts
      BY <1>7 DEF Recvfrom, ProgramInv, InBcast
    <2>2. Return(r) \/ GoOn(r, "ack") \/ UNCHANGED <<pc, round, peer>>
      BY <1>7 DEF Recvfrom
    <2>3. UNCHANGED <<pc, round, peer>> => ControlType'
      BY <1>0 DEF ControlType
    <2> QED
      BY <1>0, <2>1, <2>2, <2>3, ReturnTyped, GoOnTyped DEF Labels
  <1>8. CASE RecvFallback(r)
    BY <1>0, <1>8, GoOnTyped DEF RecvFallback, Labels
  <1>9. CASE SendAck(r)
    <2>1. round[r] < MaxBcasts
      BY <1>9 DEF SendAck, ProgramInv, InBcast
    <2> QED
      BY <1>0, <1>9, <2>1, ReturnTyped, GoOnTyped DEF SendAck, Labels
  <1>10. CASE Timeout(r)
    <2>1. round[r] < MaxBcasts
      BY <1>10 DEF Timeout, ProgramInv, InBcast
    <2> QED
      BY <1>0, <1>10, <2>1, ReturnTyped, GoOnTyped DEF Timeout, Labels
  <1> QED
    BY <1>1, <1>2, <1>3, <1>4, <1>5, <1>6, <1>7, <1>8, <1>9, <1>10 DEF RankStep

\* What the ranks keep besides: each step changes a little of it.
DataType ==
  /\ stream \in StreamType /\ buf \in [Rank -> -1 .. MaxBcasts]
  /\ seq \in [Rank -> 0 .. Fragments-1]
  /\ loads \in Seq([content : -1 .. MaxBcasts, seq : 0 .. Fragments-1])
  /\ frag \in [Rank -> Seq(1 .. MaxSends)]
  /\ timeouts \in 0 .. MaxTimeouts /\ acks \in [Rank -> Nat]

LEMMA TypeParts ==
  /\ CTypeOK <=> /\ TypeOK /\ algo \in Algorithms /\ plane \in Planes
                 /\ ControlType /\ DataType
  /\ CTypeOK' <=> /\ TypeOK' /\ algo' \in Algorithms /\ plane' \in Planes
                  /\ ControlType' /\ DataType'
  BY DEF CTypeOK, RankTypeOK, ControlType, DataType, StreamType

\* The messages of a step: at most one is read and at most one is sent, by the
\* rank it names.
LEMMA StreamMoves ==
  ASSUME CTypeOK, ProgramInv, LogInv, FromInv, NEW r \in Rank, RankStep(r) \/ Timeout(r)
  PROVE  \E s \in StreamType :
           /\ s = stream \/ (Reading(r) /\ Fits(r) /\ s = Taken(r))
           /\ \/ stream' = s
              \/ \E q \in Rank : \E m \in Message : m.from = r /\ stream' = Queue(s, r, q, m)
  <1>0. stream \in StreamType /\ buf[r] \in -1 .. MaxBcasts
    BY Typed
  <1>1. CASE \/ EnterBarrier(r) \/ Garble(r) \/ SendFragment(r)
    BY <1>0, <1>1 DEF EnterBarrier, Garble, SendFragment
  <1>2. CASE SendToken(r)
    BY <1>0, <1>2, MessageTypes, DestinationTypes DEF SendToken
  <1>3. CASE RecvToken(r) \/ RecvFallback(r)
    <2>1. Reading(r) /\ Fits(r) /\ stream' = Taken(r)
      BY <1>3 DEF RecvToken, RecvFallback, Reading
    <2> QED
      BY <2>1, Reads
  <1>4. CASE RecvAnswer(r)
    <2>1. Reading(r) /\ Fits(r) /\ stream' = Reply(r, Head(Incoming(r)), Taken(r))
      BY <1>4 DEF RecvAnswer, Reading
    <2>2. Taken(r) \in StreamType /\ Head(Incoming(r)) \in Message
      BY <2>1, Reads
    <2>3. Head(Incoming(r)).from \in Rank
      BY <2>2 DEF Message
    <2>4. Data(r) \in Message /\ Data(r).from = r
      BY <1>0, MessageTypes
    <2> QED
      BY <2>1, <2>2, <2>3, <2>4 DEF Reply
  <1>5. CASE Recvfrom(r)
    <2>1. sock[r] \in Seq(Packet) /\ sock[r] # <<>>
      BY <1>5 DEF Recvfrom, CTypeOK, TypeOK
    <2>2. Head(sock[r]).root \in Rank
      BY <2>1, Fields
    <2>3. \/ stream' = stream
          \/ stream' = Queue(stream, r, Head(sock[r]).root, Header("ACK", r))
      BY <1>5 DEF Recvfrom
    <2> QED
      BY <1>0, <2>2, <2>3, MessageTypes
  <1>6. CASE Timeout(r)
    <2>1. \/ stream' = stream \/ stream' = Queue(stream, r, Source(r), Header("NACK", r))
      BY <1>6 DEF Timeout
    <2> QED
      BY <1>0, <2>1, MessageTypes, DestinationTypes
  <1>7. CASE SendAck(r)
    BY <1>0, <1>7, MessageTypes, DestinationTypes DEF SendAck
  <1> QED
    BY <1>1, <1>2, <1>3, <1>4, <1>5, <1>6, <1>7 DEF RankStep

LEMMA FromStep ==
  ASSUME CTypeOK, ProgramInv, LogInv, FromInv, NEW r \in Rank, RankStep(r) \/ Timeout(r)
  PROVE  stream' \in StreamType /\ FromInv'
  <1>1. PICK s \in StreamType :
          /\ s = stream \/ (Reading(r) /\ Fits(r) /\ s = Taken(r))
          /\ \/ stream' = s
             \/ \E q \in Rank : \E m \in Message : m.from = r /\ stream' = Queue(s, r, q, m)
    BY StreamMoves
  <1> DEFINE Names(t) == \A a, b \in Rank : \A i \in DOMAIN t[Link(a, b)] : t[Link(a, b)][i].from = a
  <1>2. Names(s)
    <2>1. CASE s = stream
      BY <2>1 DEF FromInv
    <2>2. CASE Reading(r) /\ Fits(r) /\ s = Taken(r)
      <3>1. Peer(r) \in Rank /\ Incoming(r) # <<>> /\ stream \in StreamType
        BY <2>2, Reads, Typed
      <3>2. ASSUME NEW a \in Rank, NEW b \in Rank, NEW i \in DOMAIN s[Link(a, b)]
            PROVE  s[Link(a, b)][i].from = a
        <4>1. stream[Link(a, b)] \in Seq(Message)
          BY <3>1 DEF StreamType, Link
        <4>2. CASE a = Peer(r) /\ b = r
          <5>1. s[Link(a, b)] = Tail(stream[Link(a, b)]) /\ stream[Link(a, b)] # <<>>
            BY <2>2, <3>1, <4>2, DequeueAt DEF Taken, Incoming
          <5>2. i + 1 \in DOMAIN stream[Link(a, b)] /\ s[Link(a, b)][i] = stream[Link(a, b)][i+1]
            BY <3>2, <4>1, <5>1, HeadTailProperties, LenProperties
          <5> QED
            BY <5>2 DEF FromInv
        <4>3. CASE ~(a = Peer(r) /\ b = r)
          <5>1. s[Link(a, b)] = stream[Link(a, b)]
            BY <2>2, <3>1, <4>3, DequeueAt DEF Taken, Incoming
          <5> QED
            BY <3>2, <5>1 DEF FromInv
        <4> QED
          BY <4>2, <4>3
      <3> QED
        BY <3>2
    <2> QED
      BY <1>1, <2>1, <2>2
  <1>3. CASE stream' = s
    BY <1>2, <1>3 DEF FromInv
  <1>4. ASSUME NEW q \in Rank, NEW m \in Message, m.from = r, stream' = Queue(s, r, q, m)
        PROVE  stream' \in StreamType /\ FromInv'
    <2>1. stream' \in StreamType
      BY <1>4, QueueAt
    <2>2. ASSUME NEW a \in Rank, NEW b \in Rank, NEW i \in DOMAIN stream'[Link(a, b)]
          PROVE  stream'[Link(a, b)][i].from = a
      <3>1. s[Link(a, b)] \in Seq(Message)
        BY DEF StreamType, Link
      <3>2. stream'[Link(a, b)]
              = IF a = r /\ b = q THEN Append(s[Link(r, q)], m) ELSE s[Link(a, b)]
        BY <1>4, QueueAt
      <3>3. CASE a = r /\ b = q
        <4>1. stream'[Link(a, b)] = Append(s[Link(a, b)], m)
          BY <3>2, <3>3
        <4>2. \/ i \in DOMAIN s[Link(a, b)] /\ stream'[Link(a, b)][i] = s[Link(a, b)][i]
              \/ stream'[Link(a, b)][i] = m
          BY <2>2, <3>1, <4>1, AppendProperties, LenProperties
        <4> QED
          BY <1>2, <1>4, <3>3, <4>2
      <3>4. CASE ~(a = r /\ b = q)
        BY <1>2, <2>2, <3>2, <3>4
      <3> QED
        BY <3>3, <3>4
    <2> QED
      BY <2>1, <2>2 DEF FromInv
  <1> QED
    BY <1>1, <1>3, <1>4

LEMMA NextSeqType == \A k \in 0 .. Fragments-1 : NextSeq(k) \in 0 .. Fragments-1
  BY FragmentsAssumption DEF NextSeq

\* What a datagram received is, and what mpi_recv has counted with it.
LEMMA Received ==
  ASSUME CTypeOK, LogInv, NEW r \in Rank, Recvfrom(r)
  PROVE  LET p == Head(sock[r])
             ids == Append(frag[r], p.id)
         IN  /\ p \in Packet /\ Logged(p) /\ sock[r] # <<>>
             /\ ids \in Seq(1 .. MaxSends) /\ \A i \in DOMAIN ids : ids[i] <= Len(log)
             /\ Assemble(ids) \in -1 .. MaxBcasts
             /\ <<>> \in Seq(1 .. MaxSends)
             /\ sock' \in [Rank -> Seq(Packet)]
             /\ \A q \in Rank : \A i \in DOMAIN sock'[q] : Logged(sock'[q][i])
  <1> DEFINE p == Head(sock[r])
             ids == Append(frag[r], p.id)
  <1>1. /\ sock \in [Rank -> Seq(Packet)] /\ sock[r] \in Seq(Packet) /\ sock[r] # <<>>
        /\ sock' = [sock EXCEPT ![r] = Tail(@)]
    BY DEF Recvfrom, CTypeOK, TypeOK
  <1>2. /\ p = sock[r][1] /\ p \in Packet /\ 1 \in DOMAIN sock[r]
        /\ Tail(sock[r]) \in Seq(Packet)
        /\ \A i \in DOMAIN Tail(sock[r]) : i + 1 \in DOMAIN sock[r]
                                           /\ Tail(sock[r])[i] = sock[r][i+1]
    BY <1>1, HeadTailProperties, LenProperties, EmptySeq
  <1>3. Logged(p) /\ p.id \in 1 .. MaxSends /\ p.id <= Len(log)
    BY <1>2, Fields DEF LogInv, Logged
  <1>4. frag[r] \in Seq(1 .. MaxSends) /\ \A i \in DOMAIN frag[r] : frag[r][i] <= Len(log)
    BY Typed DEF LogInv
  <1>5. ids \in Seq(1 .. MaxSends)
    BY <1>3, <1>4
  <1>6. \A i \in DOMAIN ids : (i \in DOMAIN frag[r] /\ ids[i] = frag[r][i]) \/ ids[i] = p.id
    BY <1>3, <1>4, AppendProperties, LenProperties
  <1>7. \A i \in DOMAIN ids : ids[i] <= Len(log)
    BY <1>3, <1>4, <1>6
  <1>8. Assemble(ids) \in -1 .. MaxBcasts
    BY <1>5, <1>7, AssembleType
  <1>9. sock' \in [Rank -> Seq(Packet)]
    BY <1>1, <1>2
  <1>10. ASSUME NEW q \in Rank, NEW i \in DOMAIN sock'[q]
         PROVE  Logged(sock'[q][i])
    <2>1. CASE q = r
      <3>1. sock'[q] = Tail(sock[r])
        BY <1>1, <2>1
      <3> QED
        BY <1>2, <1>10, <3>1 DEF LogInv
    <2>2. CASE q # r
      BY <1>1, <1>10, <2>2 DEF LogInv
    <2> QED
      BY <2>1, <2>2
  <1> HIDE DEF p, ids
  <1>11. <<>> \in Seq(1 .. MaxSends)
    OBVIOUS
  <1> QED
    BY <1>1, <1>2, <1>3, <1>5, <1>7, <1>8, <1>9, <1>10, <1>11 DEF p, ids

\* Steps that touch neither the datagrams nor what is known of them.
LEMMA LogStays ==
  ASSUME LogInv, UNCHANGED <<netVars, loads, algo>>,
         \A r \in Rank : frag'[r] = frag[r] \/ frag'[r] = <<>>
  PROVE  LogInv'
  <1>1. /\ net' = net /\ sock' = sock /\ log' = log /\ loads' = loads
        /\ algo' = algo
    BY DEF netVars
  <1>2. \A p : Logged(p)' <=> Logged(p)
    BY <1>1 DEF Logged, NaiveRing
  <1>3. ASSUME NEW r \in Rank, NEW i \in DOMAIN frag'[r]
        PROVE  frag'[r][i] <= Len(log)
    <2>1. frag'[r] = frag[r]
      BY <1>3
    <2> QED
      BY <1>3, <2>1 DEF LogInv
  <1> QED
    BY <1>1, <1>2, <1>3 DEF LogInv, Logged, NaiveRing

LEMMA RecvfromData ==
  ASSUME CTypeOK, LogInv, NEW r \in Rank, Recvfrom(r), stream' \in StreamType
  PROVE  DataType' /\ TypeOK' /\ LogInv'
  <1> DEFINE p == Head(sock[r])
             ids == Append(frag[r], p.id)
  <1>1. /\ ids \in Seq(1 .. MaxSends) /\ \A i \in DOMAIN ids : ids[i] <= Len(log)
        /\ Assemble(ids) \in -1 .. MaxBcasts
        /\ <<>> \in Seq(1 .. MaxSends)
        /\ sock' \in [Rank -> Seq(Packet)]
        /\ \A q \in Rank : \A i \in DOMAIN sock'[q] : Logged(sock'[q][i])
    BY Received
  <1>2. /\ frag' = [frag EXCEPT ![r] = <<>>] \/ frag' = [frag EXCEPT ![r] = ids]
        /\ buf' = [buf EXCEPT ![r] = Assemble(ids)] \/ buf' = buf
        /\ acks' = [acks EXCEPT ![r] = @ + 1] \/ acks' = acks
        /\ UNCHANGED <<net, log, losses, full, options, seq, loads, timeouts>>
    BY DEF Recvfrom
  <1> HIDE DEF ids
  <1>3. DataType'
    <2>1. DataType
      BY TypeParts
    <2>2. frag' \in [Rank -> Seq(1 .. MaxSends)]
      BY <1>1, <1>2, <2>1 DEF DataType
    <2>3. buf' \in [Rank -> -1 .. MaxBcasts]
      BY <1>1, <1>2, <2>1 DEF DataType
    <2>4. acks' \in [Rank -> Nat]
      BY <1>2, <2>1 DEF DataType
    <2> QED
      BY <1>2, <2>1, <2>2, <2>3, <2>4 DEF DataType
  <1>4. TypeOK'
    BY <1>1, <1>2 DEF CTypeOK, TypeOK
  <1>5. \A q : Logged(q)' <=> Logged(q)
    BY <1>2 DEF Logged, NaiveRing, options
  <1>6. \A q \in Rank : \A i \in DOMAIN frag'[q] : frag'[q][i] <= Len(log)
    <2>1. frag \in [Rank -> Seq(1 .. MaxSends)]
      BY DEF CTypeOK, RankTypeOK
    <2>2. \A q \in Rank : frag'[q] = frag[q] \/ frag'[q] = <<>> \/ frag'[q] = ids
      BY <1>2, <2>1
    <2> QED
      BY <1>1, <2>2 DEF LogInv
  <1>7. LogInv'
    <2>1. /\ Len(loads') = Len(log') /\ net' = net /\ log' = log
          /\ algo' = algo
      BY <1>2 DEF LogInv, options
    <2> QED
      BY <1>1, <1>5, <1>6, <2>1 DEF LogInv, Logged, NaiveRing
  <1> QED
    BY <1>3, <1>4, <1>7

LEMMA SendFragmentData ==
  ASSUME CTypeOK, ProgramInv, LogInv, NEW r \in Rank, SendFragment(r)
  PROVE  DataType' /\ TypeOK' /\ LogInv'
  <1> DEFINE load == [content |-> buf'[r], seq |-> seq[r]]
  <1>1. /\ pc[r] = "send" /\ SendTo(Opcode, r, Target(r))
        /\ buf' = buf \/ (buf' = [buf EXCEPT ![r] = round[r] + 1])
        /\ loads' = Append(loads, load)
        /\ seq' = [seq EXCEPT ![r] = NextSeq(@)]
        /\ UNCHANGED <<options, stream, frag, timeouts, acks>>
    BY DEF SendFragment
  <1>2. round[r] < MaxBcasts /\ round[r] \in 0 .. MaxBcasts
    BY <1>1, Typed DEF ProgramInv, InBcast
  <1>3. DataType
    BY TypeParts
  <1>4. buf' \in [Rank -> -1 .. MaxBcasts] /\ seq[r] \in 0 .. Fragments-1
    <2>1. round[r] + 1 \in -1 .. MaxBcasts
      BY <1>2, MaxBcastsAssumption
    <2> QED
      BY <1>1, <1>3, <2>1 DEF DataType
  <1>5. load \in [content : -1 .. MaxBcasts, seq : 0 .. Fragments-1]
    BY <1>4
  <1>6. NextSeq(seq[r]) \in 0 .. Fragments-1
    BY <1>4, NextSeqType
  <1>7. seq' \in [Rank -> 0 .. Fragments-1]
    BY <1>1, <1>3, <1>6 DEF DataType
  <1>8. loads \in Seq([content : -1 .. MaxBcasts, seq : 0 .. Fragments-1])
    BY <1>3 DEF DataType
  <1> HIDE DEF load
  <1>9. /\ loads' \in Seq([content : -1 .. MaxBcasts, seq : 0 .. Fragments-1])
        /\ Len(loads') = Len(loads) + 1
    BY <1>1, <1>5, <1>8
  <1>10. DataType'
    BY <1>1, <1>3, <1>4, <1>7, <1>9 DEF DataType, options
  <1>11. algo \in Algorithms /\ TypeOK /\ Opcode \in Opcodes /\ Target(r) \in Rank
    BY <1>1, TypeParts, OpcodeType, Answers
  <1>12. /\ TypeOK' /\ sock' = sock /\ Len(log') = Len(log) + 1 /\ Len(log) \in Nat
         /\ \E d \in Packet : net' = net \cup {d} /\ d.id = Len(log) + 1 /\ d.root = r
    BY <1>1, <1>11, SendTyped
  <1>13. r = root \/ NaiveRing
    BY <1>1 DEF ProgramInv, Forwards
  <1>14. PICK d \in Packet : net' = net \cup {d} /\ d.id = Len(log) + 1 /\ d.root = r
    BY <1>12
  <1>15. Len(loads) = Len(log)
    BY DEF LogInv
  <1>16. Len(loads') = Len(log')
    BY <1>9, <1>12, <1>15
  <1>17. algo' = algo
    BY <1>1 DEF options
  <1>18. ASSUME NEW p \in Packet, Logged(p)
         PROVE  Logged(p)'
    <2>1. p.id \in Nat
      BY Fields, MaxSendsAssumption
    <2> QED
      BY <1>12, <1>17, <1>18, <2>1 DEF Logged, NaiveRing
  <1>19. Logged(d)'
    BY <1>12, <1>13, <1>14, <1>17 DEF Logged, NaiveRing
  <1>20. /\ \A p \in net : p \in Packet /\ Logged(p)
         /\ \A q \in Rank : \A i \in DOMAIN sock[q] : sock[q][i] \in Packet /\ Logged(sock[q][i])
         /\ \A q \in Rank : \A i \in DOMAIN frag[q] :
              frag[q][i] \in Nat /\ frag[q][i] <= Len(log)
    <2>1. net \subseteq Packet /\ sock \in [Rank -> Seq(Packet)]
      BY <1>11 DEF TypeOK
    <2>2. frag \in [Rank -> Seq(1 .. MaxSends)]
      BY <1>3 DEF DataType
    <2>3. \A q \in Rank : \A i \in DOMAIN frag[q] : frag[q][i] \in 1 .. MaxSends
      <3>1. \A q \in Rank : frag[q] \in Seq(1 .. MaxSends)
        BY <2>2
      <3> QED
        BY <3>1, ElementOfSeq, LenProperties
    <2>4. \A q \in Rank : \A i \in DOMAIN sock[q] : sock[q][i] \in Packet
      <3>1. \A q \in Rank : sock[q] \in Seq(Packet)
        BY <2>1
      <3> QED
        BY <3>1, ElementOfSeq, LenProperties
    <2> QED
      BY <2>1, <2>3, <2>4, MaxSendsAssumption DEF LogInv
  <1>21. \A p \in net' : Logged(p)'
    BY <1>14, <1>18, <1>19, <1>20
  <1>22. \A q \in Rank : \A i \in DOMAIN sock'[q] : Logged(sock[q][i])'
    BY <1>12, <1>18, <1>20
  <1>23. \A q \in Rank : \A i \in DOMAIN frag'[q] : frag'[q][i] <= Len(log')
    BY <1>1, <1>12, <1>20
  <1>24. LogInv'
    BY <1>12, <1>16, <1>21, <1>22, <1>23 DEF LogInv, Logged, NaiveRing
  <1> QED
    BY <1>10, <1>12, <1>24

\* Every variable stays in its type, and the datagrams stay known.
LEMMA DataStep ==
  ASSUME CTypeOK, ProgramInv, LogInv, FromInv, NEW r \in Rank, RankStep(r) \/ Timeout(r)
  PROVE  CTypeOK' /\ LogInv'
  <1>1. ControlType' /\ stream' \in StreamType
    BY ControlStep, FromStep
  <1>2. algo' = algo /\ plane' = plane
    BY DEF RankStep, EnterBarrier, SendToken, RecvToken, Garble, SendFragment, RecvAnswer,
       Recvfrom, RecvFallback, SendAck, Timeout, options
  <1>3. TypeOK /\ DataType
    BY TypeParts
  <1>4. DataType' /\ TypeOK' /\ LogInv'
    <2>1. CASE Recvfrom(r)
      BY <1>1, <2>1, RecvfromData
    <2>2. CASE SendFragment(r)
      BY <2>2, SendFragmentData
    <2>3. CASE ~Recvfrom(r) /\ ~SendFragment(r)
      <3>1. /\ UNCHANGED <<netVars, seq, loads>>
            /\ \/ frag' = frag \/ frag' = [frag EXCEPT ![r] = <<>>]
            /\ \/ buf' = buf
               \/ Reading(r) /\ Fits(r) /\ buf' = [buf EXCEPT ![r] = Head(Incoming(r)).content]
            /\ \/ timeouts' = timeouts \/ (timeouts < MaxTimeouts /\ timeouts' = timeouts + 1)
            /\ \/ acks' = acks \/ acks' = [acks EXCEPT ![r] = @ + 1]
        BY <2>3 DEF RankStep, EnterBarrier, SendToken, RecvToken, Garble, RecvAnswer,
           RecvFallback, SendAck, Timeout, Reading
      <3>2. buf' \in [Rank -> -1 .. MaxBcasts]
        <4>1. ASSUME Reading(r), Fits(r)
              PROVE  Head(Incoming(r)).content \in -1 .. MaxBcasts
          <5>1. Head(Incoming(r)) \in Message
            BY <4>1, Reads
          <5> QED
            BY <5>1 DEF Message
        <4> QED
          BY <1>3, <3>1, <4>1 DEF DataType
      <3>3. timeouts' \in 0 .. MaxTimeouts /\ acks' \in [Rank -> Nat]
        <4>1. timeouts \in 0 .. MaxTimeouts /\ acks \in [Rank -> Nat]
          BY <1>3 DEF DataType
        <4>2. timeouts' \in 0 .. MaxTimeouts
          BY <3>1, <4>1, MaxTimeoutsAssumption
        <4>3. acks' \in [Rank -> Nat]
          BY <3>1, <4>1
        <4> QED
          BY <4>2, <4>3
      <3>4. frag' \in [Rank -> Seq(1 .. MaxSends)] /\ \A q \in Rank : frag'[q] = frag[q] \/ frag'[q] = <<>>
        <4>1. <<>> \in Seq(1 .. MaxSends)
          OBVIOUS
        <4> QED
          BY <1>3, <3>1, <4>1 DEF DataType
      <3>5. DataType'
        BY <1>1, <1>3, <3>1, <3>2, <3>3, <3>4 DEF DataType
      <3>6. TypeOK'
        BY <1>3, <3>1 DEF TypeOK, netVars
      <3>7. LogInv'
        BY <1>2, <3>1, <3>4, LogStays
      <3> QED
        BY <3>5, <3>6, <3>7
    <2> QED
      BY <2>1, <2>2, <2>3
  <1> QED
    BY <1>1, <1>2, <1>4, TypeParts

-----------------------------------------------------------------------------
(* Where the program of a rank can be.                                     *)

\* A step of a rank leaves the control of the others alone.
LEMMA Elsewhere ==
  ASSUME CTypeOK, NEW r \in Rank, RankStep(r) \/ Timeout(r)
  PROVE  /\ \A q \in Rank : q # r => /\ pc'[q] = pc[q] /\ round'[q] = round[q]
                                   /\ peer'[q] = peer[q] /\ acks'[q] = acks[q]
                                   /\ buf'[q] = buf[q]
         /\ algo' = algo /\ plane' = plane
         /\ timeouts \in Nat /\ timeouts' \in Nat /\ timeouts' >= timeouts
  <1>1. /\ pc \in [Rank -> Labels] /\ round \in [Rank -> 0 .. MaxBcasts]
        /\ peer \in [Rank -> 1 .. N-1] /\ acks \in [Rank -> Nat]
        /\ buf \in [Rank -> -1 .. MaxBcasts] /\ timeouts \in Nat
    BY MaxTimeoutsAssumption DEF CTypeOK, RankTypeOK
  <1>2. \A q \in Rank : q # r => pc'[q] = pc[q]
    BY <1>1 DEF RankStep, EnterBarrier, SendToken, RecvToken, Garble, SendFragment, RecvAnswer,
       Recvfrom, RecvFallback, SendAck, Timeout, AfterSend, Return, GoOn, Labels
  <1>3. \A q \in Rank : q # r => round'[q] = round[q] /\ peer'[q] = peer[q]
    BY <1>1 DEF RankStep, EnterBarrier, SendToken, RecvToken, Garble, SendFragment, RecvAnswer,
       Recvfrom, RecvFallback, SendAck, Timeout, AfterSend, Return, GoOn
  <1>4. \A q \in Rank : q # r => acks'[q] = acks[q] /\ buf'[q] = buf[q]
    BY <1>1 DEF RankStep, EnterBarrier, SendToken, RecvToken, Garble, SendFragment, RecvAnswer,
       Recvfrom, RecvFallback, SendAck, Timeout, AfterSend, Return, GoOn
  <1>5. algo' = algo /\ plane' = plane
    BY DEF RankStep, EnterBarrier, SendToken, RecvToken, Garble, SendFragment, RecvAnswer,
       Recvfrom, RecvFallback, SendAck, Timeout, options
  <1>6. timeouts' = timeouts \/ timeouts' = timeouts + 1
    BY DEF RankStep, EnterBarrier, SendToken, RecvToken, Garble, SendFragment, RecvAnswer,
       Recvfrom, RecvFallback, SendAck, Timeout
  <1> QED
    BY <1>1, <1>2, <1>3, <1>4, <1>5, <1>6

\* What returning and going on are to the rank itself.
LEMMA OwnReturn ==
  ASSUME ControlType, NEW r \in Rank, Return(r)
  PROVE  pc'[r] = "out" /\ round'[r] = round[r] + 1 /\ peer'[r] = 1
  BY DEF ControlType, Return

LEMMA OwnGoOn ==
  ASSUME ControlType, NEW r \in Rank, NEW label, GoOn(r, label)
  PROVE  pc'[r] = label /\ round'[r] = round[r] /\ peer'[r] = peer[r]
  BY DEF ControlType, GoOn

\* The conjuncts of ProgramInv, of one rank.
Program(r) ==
  /\ InBcast(r) => round[r] < MaxBcasts
  /\ pc[r] \in {"send", "answers"} => r = root \/ Forwards(r)
  /\ pc[r] \in {"recv", "fallback", "ack"} => r # root
  /\ Eager => pc[r] \notin {"answers", "fallback", "ack"}
  /\ pc[r] = "fallback" => timeouts > 0
  /\ NaiveRing /\ pc[r] = "answers" => peer[r] = next(r)
  /\ \/ pc[r] \notin {"send", "answers", "garbled"}
     \/ pc[r] = "send" /\ ~NaiveLinear
     => peer[r] = 1

LEMMA ProgramParts ==
  /\ ProgramInv <=> \A r \in Rank : Program(r)
  /\ ProgramInv' <=> \A r \in Rank : Program(r)'
  BY DEF ProgramInv, Program, InBcast, Eager, NaiveRing, NaiveLinear, Forwards

LEMMA OwnProgram ==
  ASSUME CTypeOK, ProgramInv, NEW r \in Rank, RankStep(r) \/ Timeout(r)
  PROVE  Program(r)'
  <1>0. /\ ControlType /\ Program(r) /\ pc[r] \in Labels
        /\ round[r] \in 0 .. MaxBcasts /\ MaxBcasts \in Nat
        /\ peer[r] \in 1 .. N-1 /\ timeouts \in Nat
        /\ algo' = algo /\ timeouts' >= timeouts
    BY TypeParts, ProgramParts, Typed, MaxBcastsAssumption, Elsewhere DEF ControlType
  <1>1. /\ Eager' = Eager /\ NaiveRing' = NaiveRing /\ NaiveLinear' = NaiveLinear
        /\ Forwards(r)' = Forwards(r)
    BY <1>0 DEF Eager, NaiveRing, NaiveLinear, Forwards
  <1>2. pc' \in [Rank -> Labels]
    BY ControlStep DEF ControlType
  <1>3. CASE EnterBarrier(r)
    <2>1. pc[r] = "out" /\ pc'[r] \in {"barrier send", "barrier recv"} /\ peer' = peer
      BY <1>0, <1>3 DEF EnterBarrier, ControlType
    <2>2. peer'[r] = 1
      BY <1>0, <2>1 DEF Program
    <2> QED
      BY <1>1, <2>1, <2>2 DEF Program, InBcast
  <1>4. CASE SendToken(r) \/ RecvToken(r)
    <2>1. /\ pc[r] \in {"barrier send", "barrier recv"} /\ peer' = peer /\ round' = round
          /\ pc'[r] \in {"barrier send", "barrier recv", AfterBarrier(r)}
      BY <1>0, <1>4 DEF SendToken, RecvToken, ControlType, AfterToken
    <2>2. peer'[r] = 1
      BY <1>0, <2>1 DEF Program
    <2>3. /\ AfterBarrier(r) \in {"send", "recv"} => round[r] < MaxBcasts
          /\ AfterBarrier(r) = "send" => r = root
          /\ AfterBarrier(r) = "recv" => r # root
          /\ AfterBarrier(r) \in {"send", "recv", "done"}
      BY <1>0 DEF AfterBarrier
    <2> QED
      BY <1>0, <1>1, <2>1, <2>2, <2>3 DEF Program, InBcast
  <1>5. CASE Garble(r)
    <2>1. pc'[r] = "garbled"
      BY <1>0, <1>5 DEF Garble, ControlType
    <2> QED
      BY <1>1, <2>1 DEF Program, InBcast
  <1>6. CASE SendFragment(r)
    <2>1. pc[r] = "send" /\ (AfterSend(r) \/ GoOn(r, "send")) /\ (r = root \/ Forwards(r))
          /\ round[r] < MaxBcasts
      BY <1>0, <1>6 DEF SendFragment, Program, InBcast
    <2>2. CASE Return(r)
      <3>1. pc'[r] = "out" /\ peer'[r] = 1
        BY <1>0, <2>2, OwnReturn
      <3> QED
        BY <1>1, <3>1 DEF Program, InBcast
    <2>3. CASE AfterSend(r) /\ ~Eager
      <3>1. /\ pc'[r] = "answers" /\ peer'[r] = FirstAnswer(r) /\ round'[r] = round[r]
        BY <1>0, <2>3 DEF AfterSend, ControlType
      <3>2. NaiveRing => FirstAnswer(r) = next(r)
        BY <2>1, Answers
      <3> QED
        BY <1>1, <2>1, <2>3, <3>1, <3>2 DEF Program, InBcast
    <2>4. CASE GoOn(r, "send")
      <3>1. pc'[r] = "send" /\ peer'[r] = peer[r] /\ round'[r] = round[r]
        BY <1>0, <2>4, OwnGoOn
      <3> QED
        BY <1>0, <1>1, <2>1, <3>1 DEF Program, InBcast
    <2> QED
      BY <2>1, <2>2, <2>3, <2>4 DEF AfterSend
  <1>7. CASE RecvAnswer(r)
    <2>1. pc[r] = "answers" /\ (r = root \/ Forwards(r)) /\ ~Eager /\ round[r] < MaxBcasts
      BY <1>0, <1>7 DEF RecvAnswer, Program, InBcast
    <2>2. CASE LastAnswer(r)
      <3>1. pc'[r] = "out" /\ peer'[r] = 1
        BY <1>0, <1>7, <2>2, OwnReturn DEF RecvAnswer
      <3> QED
        BY <1>1, <3>1 DEF Program, InBcast
    <2>3. CASE ~LastAnswer(r)
      <3>1. /\ pc'[r] = (IF NaiveLinear THEN "send" ELSE "answers")
            /\ round'[r] = round[r]
        BY <1>0, <1>7, <2>3 DEF RecvAnswer, ControlType
      <3>2. ~NaiveRing
        BY <2>3 DEF LastAnswer
      <3> QED
        BY <1>1, <2>1, <3>1, <3>2 DEF Program, InBcast
    <2> QED
      BY <2>2, <2>3
  <1>8. CASE Recvfrom(r)
    <2>1. /\ pc[r] = "recv" /\ r # root /\ round[r] < MaxBcasts /\ peer[r] = 1
          /\ Return(r) \/ (~Eager /\ GoOn(r, "ack")) \/ UNCHANGED <<pc, round, peer>>
      BY <1>0, <1>8 DEF Recvfrom, Program, InBcast
    <2>2. CASE Return(r)
      <3>1. pc'[r] = "out" /\ peer'[r] = 1
        BY <1>0, <2>2, OwnReturn
      <3> QED
        BY <1>1, <3>1 DEF Program, InBcast
    <2>3. CASE ~Eager /\ GoOn(r, "ack")
      <3>1. pc'[r] = "ack" /\ peer'[r] = peer[r] /\ round'[r] = round[r]
        BY <1>0, <2>3, OwnGoOn
      <3> QED
        BY <1>1, <2>1, <2>3, <3>1 DEF Program, InBcast
    <2>4. CASE UNCHANGED <<pc, round, peer>>
      BY <1>1, <2>1, <2>4 DEF Program, InBcast
    <2> QED
      BY <2>1, <2>2, <2>3, <2>4
  <1>9. CASE RecvFallback(r)
    <2>1. /\ pc[r] = "fallback" /\ r # root /\ round[r] < MaxBcasts /\ peer[r] = 1 /\ ~Eager
          /\ GoOn(r, "ack")
      BY <1>0, <1>9 DEF RecvFallback, Program, InBcast
    <2>2. pc'[r] = "ack" /\ peer'[r] = peer[r] /\ round'[r] = round[r]
      BY <1>0, <2>1, OwnGoOn
    <2> QED
      BY <1>1, <2>1, <2>2 DEF Program, InBcast
  <1>10. CASE SendAck(r)
    <2>1. /\ pc[r] = "ack" /\ round[r] < MaxBcasts /\ peer[r] = 1 /\ ~Eager
          /\ (Forwards(r) /\ GoOn(r, "send")) \/ Return(r)
      BY <1>0, <1>10 DEF SendAck, Program, InBcast
    <2>2. CASE Forwards(r) /\ GoOn(r, "send")
      <3>1. pc'[r] = "send" /\ peer'[r] = peer[r] /\ round'[r] = round[r]
        BY <1>0, <2>2, OwnGoOn
      <3> QED
        BY <1>1, <2>1, <2>2, <3>1 DEF Program, InBcast
    <2>3. CASE Return(r)
      <3>1. pc'[r] = "out" /\ peer'[r] = 1
        BY <1>0, <2>3, OwnReturn
      <3> QED
        BY <1>1, <3>1 DEF Program, InBcast
    <2> QED
      BY <2>1, <2>2, <2>3
  <1>11. CASE Timeout(r)
    <2>1. /\ pc[r] = "recv" /\ r # root /\ round[r] < MaxBcasts /\ peer[r] = 1
          /\ Return(r) \/ (~Eager /\ GoOn(r, "fallback"))
      BY <1>0, <1>11 DEF Timeout, Program, InBcast
    <2>2. CASE Return(r)
      <3>1. pc'[r] = "out" /\ peer'[r] = 1
        BY <1>0, <2>2, OwnReturn
      <3> QED
        BY <1>1, <3>1 DEF Program, InBcast
    <2>3. CASE ~Eager /\ GoOn(r, "fallback")
      <3>1. pc'[r] = "fallback" /\ peer'[r] = peer[r] /\ round'[r] = round[r]
        BY <1>0, <2>3, OwnGoOn
      <3>2. timeouts' > 0
        BY <1>0, <1>11 DEF Timeout
      <3> QED
        BY <1>1, <2>1, <2>3, <3>1, <3>2 DEF Program, InBcast
    <2> QED
      BY <2>1, <2>2, <2>3
  <1> QED
    BY <1>3, <1>4, <1>5, <1>6, <1>7, <1>8, <1>9, <1>10, <1>11 DEF RankStep

LEMMA ProgramStep ==
  ASSUME CTypeOK, ProgramInv, NEW r \in Rank, RankStep(r) \/ Timeout(r)
  PROVE  ProgramInv'
  <1>1. ASSUME NEW q \in Rank, q # r
        PROVE  Program(q)'
    <2>1. /\ pc'[q] = pc[q] /\ round'[q] = round[q] /\ peer'[q] = peer[q]
          /\ algo' = algo /\ timeouts \in Nat /\ timeouts' \in Nat /\ timeouts' >= timeouts
      BY <1>1, Elsewhere
    <2>2. Program(q)
      BY ProgramParts
    <2> QED
      BY <2>1, <2>2 DEF Program, InBcast, Eager, NaiveRing, NaiveLinear, Forwards
  <1>2. Program(r)'
    BY OwnProgram
  <1> QED
    BY <1>1, <1>2, ProgramParts

-----------------------------------------------------------------------------
(* Requests: a NACK, or the payload that answers it.                       *)

AskedOn(s, r, q) == CountOn(s, r, q, "NACK") + CountOn(s, q, r, "DATA")

LEMMA AskedType ==
  ASSUME NEW s \in StreamType, NEW a \in Rank, NEW b \in Rank
  PROVE  AskedOn(s, a, b) \in Nat
  BY CountOnType DEF AskedOn

LEMMA AskedQueue ==
  ASSUME NEW s \in StreamType, NEW q \in Rank, NEW r \in Rank, NEW m \in Message,
         NEW a \in Rank, NEW b \in Rank
  PROVE  AskedOn(Queue(s, q, r, m), a, b)
           = AskedOn(s, a, b) + (IF a = q /\ b = r /\ m.kind = "NACK" THEN 1 ELSE 0)
                              + (IF b = q /\ a = r /\ m.kind = "DATA" THEN 1 ELSE 0)
  BY CountQueue, CountOnType DEF AskedOn

LEMMA AskedDequeue ==
  ASSUME NEW s \in StreamType, NEW q \in Rank, NEW r \in Rank, s[Link(q, r)] # <<>>,
         NEW a \in Rank, NEW b \in Rank
  PROVE  AskedOn(Dequeue(s, q, r), a, b)
           = AskedOn(s, a, b)
               - (IF a = q /\ b = r /\ Head(s[Link(q, r)]).kind = "NACK" THEN 1 ELSE 0)
               - (IF b = q /\ a = r /\ Head(s[Link(q, r)]).kind = "DATA" THEN 1 ELSE 0)
  BY CountDequeue, CountOnType DEF AskedOn

LEMMA AskedParts ==
  /\ \A r, q : Asked(r, q) = AskedOn(stream, r, q) /\ Asked(r, q)' = AskedOn(stream', r, q)
  /\ AskInv => \A q, r \in Rank :
       /\ AskedOn(stream, r, q) <= 1
       /\ AskedOn(stream, r, q) > 0 =>
            timeouts > 0 /\ pc[r] \in {"fallback", "garbled"} /\ Source(r) = q
  BY DEF Asked, AskedOn, CountOn, AskInv

LEMMA ReadCount ==
  ASSUME CTypeOK, NEW r \in Rank, Reading(r), Fits(r), NEW a \in Rank, NEW b \in Rank, NEW k
  PROVE  CountOn(Taken(r), a, b, k)
           = CountOn(stream, a, b, k)
               - (IF a = Peer(r) /\ b = r /\ Head(Incoming(r)).kind = k THEN 1 ELSE 0)
  <1>1. stream \in StreamType /\ Peer(r) \in Rank /\ stream[Link(Peer(r), r)] # <<>>
    BY Typed, Reads DEF Incoming
  <1> QED
    BY ONLY <1>1, r \in Rank, a \in Rank, b \in Rank, CountDequeue DEF Taken, Incoming

\* What a rank reads, in the terms of the requests.
LEMMA ReadAsked ==
  ASSUME CTypeOK, NEW r \in Rank, Reading(r), Fits(r), NEW a \in Rank, NEW b \in Rank
  PROVE  AskedOn(Taken(r), a, b)
           = AskedOn(stream, a, b)
               - (IF a = Peer(r) /\ b = r /\ Head(Incoming(r)).kind = "NACK" THEN 1 ELSE 0)
               - (IF b = Peer(r) /\ a = r /\ Head(Incoming(r)).kind = "DATA" THEN 1 ELSE 0)
  <1>1. stream \in StreamType /\ Peer(r) \in Rank /\ stream[Link(Peer(r), r)] # <<>>
    BY Typed, Reads DEF Incoming
  <1> QED
    BY ONLY <1>1, r \in Rank, a \in Rank, b \in Rank, AskedDequeue DEF Taken, Incoming

LEMMA HeadFrom ==
  ASSUME CTypeOK, FromInv, NEW r \in Rank, Reading(r), Fits(r)
  PROVE  Head(Incoming(r)).from = Peer(r)
  <1>1. stream \in StreamType /\ Peer(r) \in Rank /\ Incoming(r) # <<>>
    BY Typed, Reads
  <1>2. Incoming(r) \in Seq(Message)
    BY <1>1 DEF StreamType, Link, Incoming
  <1>3. 1 \in DOMAIN Incoming(r) /\ Head(Incoming(r)) = Incoming(r)[1]
    BY <1>1, <1>2, HeadTailProperties, LenProperties, EmptySeq
  <1> QED
    BY <1>1, <1>3 DEF FromInv, Incoming

LEMMA AskStep ==
  ASSUME CTypeOK, ProgramInv, LogInv, FromInv, AskInv, NEW r \in Rank, RankStep(r) \/ Timeout(r)
  PROVE  AskInv'
  <1>0. /\ stream \in StreamType /\ pc \in [Rank -> Labels] /\ pc' \in [Rank -> Labels]
        /\ \A q \in Rank : q # r => pc'[q] = pc[q]
        /\ timeouts \in Nat /\ timeouts' \in Nat /\ timeouts' >= timeouts
        /\ \A q \in Rank : Source(q)' = Source(q)
    <2>1. algo' = algo
      BY Elsewhere
    <2> QED
      BY <2>1, Typed, Elsewhere, ControlStep, TypeParts DEF ControlType, Source, NaiveLinear
  <1>a. ASSUME \A a, b \in Rank : AskedOn(stream', a, b) <= AskedOn(stream, a, b),
               \/ pc[r] \notin {"fallback", "garbled"}
               \/ pc'[r] \in {"fallback", "garbled"}
        PROVE  AskInv'
    <2>1. ASSUME NEW q \in Rank, NEW a \in Rank
          PROVE  /\ AskedOn(stream', a, q) <= 1
                 /\ AskedOn(stream', a, q) > 0 =>
                      timeouts' > 0 /\ pc'[a] \in {"fallback", "garbled"} /\ Source(a) = q
      <3>1. /\ AskedOn(stream, a, q) \in Nat /\ AskedOn(stream', a, q) \in Nat
            /\ AskedOn(stream', a, q) <= AskedOn(stream, a, q)
            /\ AskedOn(stream, a, q) <= 1
            /\ AskedOn(stream, a, q) > 0 =>
                 timeouts > 0 /\ pc[a] \in {"fallback", "garbled"} /\ Source(a) = q
        BY <1>0, <1>a, AskedType, AskedParts, FromStep
      <3> QED
        BY <1>0, <1>a, <3>1
    <2> QED
      BY <1>0, <2>1, AskedParts DEF AskInv
  <1>1. CASE stream' = stream /\ ~RecvFallback(r)
    <2>1. \/ pc[r] \notin {"fallback", "garbled"} \/ pc'[r] \in {"fallback", "garbled"}
      BY <1>0, <1>1 DEF RankStep, EnterBarrier, SendToken, RecvToken, Garble, SendFragment,
         RecvAnswer, Recvfrom, SendAck, Timeout
    <2>2. \A a, b \in Rank : AskedOn(stream, a, b) \in Nat
      BY <1>0, AskedType
    <2> QED
      BY <1>1, <1>a, <2>1, <2>2
  <1>2. ASSUME NEW q \in Rank, NEW kind \in {"ACK", "TOKEN"}, NEW m \in Message, m.kind = kind,
               stream' = Queue(stream, r, q, m), pc[r] \notin {"fallback", "garbled"}
        PROVE  AskInv'
    <2>1. \A a, b \in Rank : AskedOn(stream', a, b) = AskedOn(stream, a, b)
      BY <1>0, <1>2, AskedQueue, AskedType
    <2>2. \A a, b \in Rank : AskedOn(stream, a, b) \in Nat
      BY <1>0, AskedType
    <2> QED
      BY <1>2, <1>a, <2>1, <2>2
  <1>3. CASE RecvToken(r)
    <2>1. Reading(r) /\ Fits(r) /\ pc[r] = "barrier recv" /\ stream' = Taken(r)
      BY <1>3 DEF RecvToken, Reading
    <2>2. Head(Incoming(r)).kind = "TOKEN"
      BY <2>1, Reads
    <2>3. \A a, b \in Rank : AskedOn(stream, a, b) \in Nat
      BY <1>0, AskedType
    <2>4. ASSUME NEW a \in Rank, NEW b \in Rank
          PROVE  AskedOn(stream', a, b) = AskedOn(stream, a, b)
      <3>1. AskedOn(Taken(r), a, b)
              = AskedOn(stream, a, b)
                  - (IF a = Peer(r) /\ b = r /\ Head(Incoming(r)).kind = "NACK" THEN 1 ELSE 0)
                  - (IF b = Peer(r) /\ a = r /\ Head(Incoming(r)).kind = "DATA" THEN 1 ELSE 0)
        BY <2>1, ReadAsked
      <3>2. AskedOn(Taken(r), a, b) = AskedOn(stream, a, b)
        BY <2>2, <2>3, <3>1
      <3> QED
        BY <2>1, <3>2
    <2>5. pc[r] \notin {"fallback", "garbled"}
      BY <2>1
    <2> QED
      BY <1>a, <2>3, <2>4, <2>5
  <1>4. CASE RecvAnswer(r)
    <2>1. /\ Reading(r) /\ Fits(r) /\ pc[r] = "answers"
          /\ stream' = Reply(r, Head(Incoming(r)), Taken(r))
      BY <1>4 DEF RecvAnswer, Reading
    <2>2. /\ Peer(r) \in Rank /\ Taken(r) \in StreamType
          /\ Head(Incoming(r)).kind \in {"ACK", "NACK"}
          /\ Head(Incoming(r)).from = Peer(r)
      BY <2>1, Reads, HeadFrom
    <2>3. \A a, b \in Rank : AskedOn(stream, a, b) \in Nat
      BY <1>0, AskedType
    <2>4. CASE Head(Incoming(r)).kind = "NACK"
      <3>1. Data(r) \in Message /\ Data(r).kind = "DATA"
        BY MessageTypes, Typed
      <3>2. stream' = Queue(Taken(r), r, Peer(r), Data(r))
        BY <2>1, <2>2, <2>4 DEF Reply
      <3>3. ASSUME NEW a \in Rank, NEW b \in Rank
            PROVE  AskedOn(stream', a, b) = AskedOn(stream, a, b)
        <4>1. AskedOn(Taken(r), a, b)
                = AskedOn(stream, a, b) - (IF a = Peer(r) /\ b = r THEN 1 ELSE 0)
          BY <2>1, <2>3, <2>4, ReadAsked
        <4>2. AskedOn(stream', a, b)
                = AskedOn(Taken(r), a, b) + (IF b = r /\ a = Peer(r) THEN 1 ELSE 0)
          <5>1. AskedOn(Queue(Taken(r), r, Peer(r), Data(r)), a, b)
                  = AskedOn(Taken(r), a, b)
                      + (IF a = r /\ b = Peer(r) /\ Data(r).kind = "NACK" THEN 1 ELSE 0)
                      + (IF b = r /\ a = Peer(r) /\ Data(r).kind = "DATA" THEN 1 ELSE 0)
            BY <2>2, <3>1, AskedQueue
          <5>2. AskedOn(Taken(r), a, b) \in Nat
            BY <2>2, AskedType
          <5> QED
            BY <3>1, <3>2, <5>1, <5>2
        <4> QED
          BY <2>3, <4>1, <4>2
      <3> QED
        BY <1>a, <2>1, <2>3, <3>3
    <2>5. CASE Head(Incoming(r)).kind # "NACK"
      <3>1. stream' = Taken(r)
        BY <2>1, <2>5 DEF Reply
      <3>2. \A a, b \in Rank : AskedOn(stream', a, b) = AskedOn(stream, a, b)
        BY <2>1, <2>2, <2>3, <2>5, <3>1, ReadAsked
      <3> QED
        BY <1>a, <2>1, <2>3, <3>2
    <2> QED
      BY <2>4, <2>5
  <1>5. CASE Timeout(r) /\ stream' # stream
    <2>1. /\ pc[r] = "recv" /\ pc'[r] = "fallback" /\ timeouts' > 0
          /\ stream' = Queue(stream, r, Source(r), Header("NACK", r))
      <3>1. ~Eager /\ GoOn(r, "fallback") /\ pc[r] = "recv" /\ timeouts' = timeouts + 1
            /\ stream' = Queue(stream, r, Source(r), Header("NACK", r))
        BY <1>5 DEF Timeout
      <3> QED
        BY <1>0, <3>1 DEF GoOn
    <2>2. /\ Source(r) \in Rank /\ Header("NACK", r) \in Message
          /\ Header("NACK", r).kind = "NACK"
      BY DestinationTypes, MessageTypes
    <2>3. ASSUME NEW q \in Rank, NEW a \in Rank
          PROVE  /\ AskedOn(stream', a, q) <= 1
                 /\ AskedOn(stream', a, q) > 0 =>
                      timeouts' > 0 /\ pc'[a] \in {"fallback", "garbled"} /\ Source(a) = q
      <3>1. AskedOn(stream, a, q) \in Nat
        BY <1>0, AskedType
      <3>2. AskedOn(stream', a, q)
              = AskedOn(stream, a, q) + (IF a = r /\ q = Source(r) THEN 1 ELSE 0)
        BY <1>0, <2>1, <2>2, <3>1, AskedQueue
      <3>3. /\ AskedOn(stream, a, q) <= 1
            /\ AskedOn(stream, a, q) > 0 =>
                 timeouts > 0 /\ pc[a] \in {"fallback", "garbled"} /\ Source(a) = q
        BY AskedParts
      <3> QED
        BY <1>0, <2>1, <3>1, <3>2, <3>3
    <2> QED
      BY <1>0, <2>3, AskedParts DEF AskInv
  <1>6. CASE RecvFallback(r)
    <2>1. Reading(r) /\ Fits(r) /\ pc[r] = "fallback" /\ stream' = Taken(r)
      BY <1>6 DEF RecvFallback, Reading
    <2>2. Peer(r) = Source(r) /\ Head(Incoming(r)).kind = "DATA"
      BY <2>1, Reads
    <2>3. ASSUME NEW q \in Rank, NEW a \in Rank
          PROVE  /\ AskedOn(stream', a, q) <= 1
                 /\ AskedOn(stream', a, q) > 0 =>
                      timeouts' > 0 /\ pc'[a] \in {"fallback", "garbled"} /\ Source(a) = q
      <3>1. AskedOn(stream, a, q) \in Nat
        BY <1>0, AskedType
      <3>2. AskedOn(stream', a, q)
              = AskedOn(stream, a, q) - (IF a = r /\ q = Source(r) THEN 1 ELSE 0)
        BY <2>1, <2>2, <3>1, ReadAsked
      <3>3. /\ AskedOn(stream, a, q) <= 1
            /\ AskedOn(stream, a, q) > 0 =>
                 timeouts > 0 /\ pc[a] \in {"fallback", "garbled"} /\ Source(a) = q
        BY AskedParts
      <3> QED
        BY <1>0, <2>1, <3>1, <3>2, <3>3
    <2> QED
      BY <1>0, <2>3, AskedParts DEF AskInv
  <1>7. CASE SendToken(r)
    <2>1. /\ stream' = Queue(stream, r, next(r), Token(r))
          /\ pc[r] \notin {"fallback", "garbled"}
      BY <1>7 DEF SendToken
    <2>2. next(r) \in Rank /\ Token(r) \in Message /\ Token(r).kind = "TOKEN"
      BY DestinationTypes, MessageTypes
    <2> QED
      BY <1>2, <2>1, <2>2
  <1>8. CASE SendAck(r)
    <2>1. /\ stream' = Queue(stream, r, AckTo(r), Header("ACK", r))
          /\ pc[r] \notin {"fallback", "garbled"}
      BY <1>8 DEF SendAck
    <2>2. /\ AckTo(r) \in Rank /\ Header("ACK", r) \in Message
          /\ Header("ACK", r).kind = "ACK"
      BY DestinationTypes, MessageTypes
    <2> QED
      BY <1>2, <2>1, <2>2
  <1>9. CASE Recvfrom(r) /\ stream' # stream
    <2>1. /\ stream' = Queue(stream, r, Head(sock[r]).root, Header("ACK", r))
          /\ pc[r] \notin {"fallback", "garbled"}
      BY <1>9 DEF Recvfrom
    <2>2. /\ Head(sock[r]).root \in Rank /\ Header("ACK", r) \in Message
          /\ Header("ACK", r).kind = "ACK"
      <3>1. Head(sock[r]) \in Packet
        BY <1>9, Received
      <3> QED
        BY <3>1, Fields, MessageTypes
    <2> QED
      BY <1>2, <2>1, <2>2
  <1>10. CASE EnterBarrier(r) \/ Garble(r) \/ SendFragment(r)
    <2>1. stream' = stream /\ (pc[r] \notin {"fallback", "garbled"} \/ pc'[r] \in {"fallback", "garbled"})
      BY <1>0, <1>10 DEF EnterBarrier, Garble, SendFragment
    <2>2. \A a, b \in Rank : AskedOn(stream, a, b) \in Nat
      BY <1>0, AskedType
    <2> QED
      BY <1>a, <2>1, <2>2
  <1> QED
    BY <1>1, <1>3, <1>4, <1>5, <1>6, <1>7, <1>8, <1>9, <1>10 DEF RankStep

-----------------------------------------------------------------------------
(* The ACKs of a rank.                                                     *)

\* Without a receive that times out nobody asks for anything: every answer is
\* an ACK.
LEMMA NobodyAsks ==
  ASSUME CTypeOK, FromInv, AskInv, timeouts = 0
  PROVE  /\ \A q, r \in Rank : \A i \in DOMAIN stream[Link(q, r)] :
              stream[Link(q, r)][i].kind \in {"ACK", "TOKEN"}
         /\ \A r \in Rank : Reading(r) /\ Fits(r) => Head(Incoming(r)).kind \in {"ACK", "TOKEN"}
  <1>0. stream \in StreamType
    BY Typed
  <1>1. ASSUME NEW q \in Rank, NEW r \in Rank, NEW i \in DOMAIN stream[Link(q, r)]
        PROVE  stream[Link(q, r)][i].kind \in {"ACK", "TOKEN"}
    <2>1. stream[Link(q, r)] \in Seq(Message)
      BY <1>0 DEF StreamType, Link
    <2>2. stream[Link(q, r)][i] \in Message
      BY <1>1, <2>1, ElementOfSeq, LenProperties
    <2>3. stream[Link(q, r)][i].kind \in {"ACK", "NACK", "TOKEN", "DATA"}
      BY <2>2 DEF Message
    <2>4. stream[Link(q, r)][i].kind # "NACK"
      <3>1. Count(stream[Link(q, r)], "NACK") + Count(stream[Link(r, q)], "DATA") = 0
        <4>1. AskedOn(stream, q, r) \in Nat /\ ~(AskedOn(stream, q, r) > 0)
          BY <1>0, AskedType, AskedParts
        <4>2. AskedOn(stream, q, r) = 0
          BY <4>1
        <4> QED
          BY <4>2 DEF AskedOn, CountOn
      <3>2. Count(stream[Link(q, r)], "NACK") \in Nat /\ Count(stream[Link(r, q)], "DATA") \in Nat
        BY <1>0, CountOnType DEF CountOn
      <3>3. Count(stream[Link(q, r)], "NACK") = 0
        BY <3>1, <3>2
      <3>4. stream[Link(q, r)][i].kind = "NACK" => Count(stream[Link(q, r)], "NACK") >= 1
        BY <1>1, <2>1, CountIs
      <3> QED
        BY <3>3, <3>4
    <2>5. stream[Link(q, r)][i].kind # "DATA"
      <3>1. Count(stream[Link(r, q)], "NACK") + Count(stream[Link(q, r)], "DATA") = 0
        <4>1. AskedOn(stream, r, q) \in Nat /\ ~(AskedOn(stream, r, q) > 0)
          BY <1>0, AskedType, AskedParts
        <4>2. AskedOn(stream, r, q) = 0
          BY <4>1
        <4> QED
          BY <4>2 DEF AskedOn, CountOn
      <3>2. Count(stream[Link(r, q)], "NACK") \in Nat /\ Count(stream[Link(q, r)], "DATA") \in Nat
        BY <1>0, CountOnType DEF CountOn
      <3>3. Count(stream[Link(q, r)], "DATA") = 0
        BY <3>1, <3>2
      <3>4. stream[Link(q, r)][i].kind = "DATA" => Count(stream[Link(q, r)], "DATA") >= 1
        BY <1>1, <2>1, CountIs
      <3> QED
        BY <3>3, <3>4
    <2> QED
      BY <2>3, <2>4, <2>5
  <1>2. ASSUME NEW r \in Rank, Reading(r), Fits(r)
        PROVE  Head(Incoming(r)).kind \in {"ACK", "TOKEN"}
    <2>1. Peer(r) \in Rank /\ Incoming(r) # <<>>
      BY <1>2, Reads
    <2>2. Incoming(r) \in Seq(Message)
      BY <1>0, <2>1 DEF StreamType, Link, Incoming
    <2>3. 1 \in DOMAIN Incoming(r) /\ Head(Incoming(r)) = Incoming(r)[1]
      BY <2>1, <2>2, HeadTailProperties, LenProperties, EmptySeq
    <2> QED
      BY <1>1, <2>1, <2>3 DEF Incoming
  <1> QED
    BY <1>1, <1>2

\* How many ACKs rank r should have sent, by what the root has had and the stream.
Owed(r) == CountOn(stream, r, root, "ACK") + round[root] + (IF r < peer[root] THEN 1 ELSE 0)

LEMMA AckParts ==
  /\ AckInv <=> (timeouts = 0 /\ WaitsForAll => \A r \in Receiver : acks[r] = Owed(r))
  /\ AckInv' <=> (timeouts' = 0 /\ WaitsForAll' => \A r \in Receiver : acks'[r] = Owed(r)')
  BY DEF AckInv, Owed, CountOn

LEMMA AckStep ==
  ASSUME CTypeOK, ProgramInv, LogInv, FromInv, AskInv, AckInv,
         NEW r \in Rank, RankStep(r) \/ Timeout(r)
  PROVE  AckInv'
  <1> SUFFICES ASSUME timeouts' = 0, WaitsForAll', NEW q \in Receiver
               PROVE  acks'[q] = Owed(q)'
    BY AckParts
  <1>0. /\ timeouts = 0 /\ WaitsForAll /\ acks[q] = Owed(q)
        /\ ~NaiveRing /\ ~Eager
        /\ q \in Rank /\ q \in 1 .. N-1 /\ root \in Rank /\ q # root
    <2>1. algo' = algo /\ timeouts = 0
      BY Elsewhere
    <2>2. timeouts = 0 /\ WaitsForAll
      BY <2>1 DEF WaitsForAll, Eager, NaiveRing
    <2> QED
      BY <2>2, TheRoot, AckParts DEF WaitsForAll
  <1>1. /\ stream \in StreamType /\ acks \in [Rank -> Nat] /\ ControlType
        /\ CountOn(stream, q, root, "ACK") \in Nat
        /\ round[root] \in Nat /\ peer[root] \in 1 .. N-1 /\ acks[q] \in Nat /\ N \in Nat
    <2>1. stream \in StreamType /\ DataType /\ ControlType
      BY Typed, TypeParts
    <2>2. CountOn(stream, q, root, "ACK") \in Nat
      BY <1>0, <2>1, CountOnType
    <2>3. round[root] \in 0 .. MaxBcasts /\ peer[root] \in 1 .. N-1 /\ acks[q] \in Nat
      BY <1>0, Typed
    <2> QED
      BY <2>1, <2>2, <2>3, NAssumption, MaxBcastsAssumption DEF DataType
  <1>2. ASSUME r # root, CountOn(stream', q, root, "ACK") + acks[q]
                           = CountOn(stream, q, root, "ACK") + acks'[q],
               acks'[q] \in Nat, CountOn(stream', q, root, "ACK") \in Nat
        PROVE  acks'[q] = Owed(q)'
    <2>1. round'[root] = round[root] /\ peer'[root] = peer[root]
      BY <1>0, <1>2, Elsewhere
    <2> QED
      BY <1>0, <1>1, <1>2, <2>1 DEF Owed
  <1>3. ASSUME UNCHANGED <<acks, round, peer>>,
               CountOn(stream', q, root, "ACK") = CountOn(stream, q, root, "ACK")
        PROVE  acks'[q] = Owed(q)'
    BY <1>0, <1>1, <1>3 DEF Owed
  <1>4. CASE EnterBarrier(r) \/ Garble(r)
    <2>1. UNCHANGED <<acks, round, peer, stream>>
      BY <1>4 DEF EnterBarrier, Garble
    <2> QED
      BY <1>3, <2>1
  <1>5. CASE SendToken(r)
    <2>1. UNCHANGED <<acks, round, peer>> /\ stream' = Queue(stream, r, next(r), Token(r))
      BY <1>5 DEF SendToken
    <2>2. next(r) \in Rank /\ Token(r) \in Message /\ Token(r).kind = "TOKEN"
      BY DestinationTypes, MessageTypes
    <2>3. PICK m \in Message, d \in Rank : m.kind = "TOKEN" /\ stream' = Queue(stream, r, d, m)
      BY <2>1, <2>2
    <2>4. CountOn(stream', q, root, "ACK") = CountOn(stream, q, root, "ACK")
      BY <1>0, <1>1, <2>3, CountQueue
    <2> QED
      BY <1>3, <2>1, <2>4
  <1>6. ASSUME Reading(r), Fits(r)
        PROVE  CountOn(Taken(r), q, root, "ACK")
                 = CountOn(stream, q, root, "ACK")
                     - (IF q = Peer(r) /\ root = r /\ Head(Incoming(r)).kind = "ACK" THEN 1 ELSE 0)
    BY <1>0, <1>6, ReadCount
  <1>7. CASE RecvToken(r)
    <2>1. /\ UNCHANGED <<acks, round, peer>> /\ stream' = Taken(r) /\ Reading(r) /\ Fits(r)
          /\ pc[r] = "barrier recv"
      BY <1>7 DEF RecvToken, Reading
    <2>2. Head(Incoming(r)).kind = "TOKEN"
      BY <2>1, Reads
    <2>3. CountOn(Taken(r), q, root, "ACK")
            = CountOn(stream, q, root, "ACK")
                - (IF q = Peer(r) /\ root = r /\ Head(Incoming(r)).kind = "ACK" THEN 1 ELSE 0)
      BY <1>6, <2>1
    <2>4. CountOn(Taken(r), q, root, "ACK") = CountOn(stream, q, root, "ACK")
      BY <1>1, <2>2, <2>3
    <2> QED
      BY <1>3, <2>1, <2>4
  <1>8. CASE SendFragment(r)
    <2>1. pc[r] = "send" /\ stream' = stream /\ acks' = acks
      BY <1>8 DEF SendFragment
    <2>2. r = root /\ FirstAnswer(r) = peer[r]
      <3>1. /\ r = root
            /\ ~NaiveLinear => FirstAnswer(r) = 1
            /\ NaiveLinear => FirstAnswer(r) = peer[r]
        BY <1>0, <2>1, Answers
      <3>2. ~NaiveLinear => peer[r] = 1
        BY <2>1 DEF ProgramInv
      <3> QED
        BY <3>1, <3>2
    <2>3. \/ pc' = [pc EXCEPT ![r] = "answers"] /\ peer' = [peer EXCEPT ![r] = FirstAnswer(r)]
             /\ round' = round
          \/ round' = round /\ peer' = peer
      BY <1>0, <1>8 DEF SendFragment, AfterSend, GoOn
    <2>4. round' = round /\ peer' = peer
      BY <1>1, <2>2, <2>3 DEF ControlType
    <2> QED
      BY <1>3, <2>1, <2>4
  <1>9. CASE RecvAnswer(r)
    <2>1. /\ pc[r] = "answers" /\ Reading(r) /\ Fits(r) /\ acks' = acks
          /\ stream' = Reply(r, Head(Incoming(r)), Taken(r))
      BY <1>9 DEF RecvAnswer, Reading
    <2>2. r = root /\ Peer(r) = peer[r] /\ Head(Incoming(r)).kind = "ACK"
      <3>1. r = root
        BY <1>0, <2>1, Answers
      <3>2. Head(Incoming(r)).kind \in {"ACK", "TOKEN"}
        BY <1>0, <2>1, NobodyAsks
      <3> QED
        BY <2>1, <3>1, <3>2, Reads
    <2>3. stream' = Taken(r)
      BY <2>1, <2>2 DEF Reply
    <2>4. CountOn(stream', q, root, "ACK")
            = CountOn(stream, q, root, "ACK") - (IF q = peer[root] THEN 1 ELSE 0)
      BY <1>1, <1>6, <2>1, <2>2, <2>3
    <2>5. acks[q] = CountOn(stream, q, root, "ACK") + round[root]
                      + (IF q < peer[root] THEN 1 ELSE 0)
      BY <1>0 DEF Owed
    <2>6. CASE LastAnswer(r)
      <3>1. peer[root] = N-1
        BY <1>0, <2>2, <2>6 DEF LastAnswer
      <3>2. round'[root] = round[root] + 1 /\ peer'[root] = 1
        BY <1>1, <1>9, <2>2, <2>6, OwnReturn DEF RecvAnswer
      <3>3. Owed(q)' = CountOn(stream', q, root, "ACK") + round[root] + 1
        BY <1>0, <1>1, <2>4, <3>2 DEF Owed
      <3> QED
        BY <1>0, <1>1, <2>1, <2>4, <2>5, <3>1, <3>3
    <2>7. CASE ~LastAnswer(r)
      <3>1. round'[root] = round[root] /\ peer'[root] = peer[root] + 1
        BY <1>1, <1>9, <2>2, <2>7 DEF RecvAnswer, ControlType
      <3>2. Owed(q)' = CountOn(stream', q, root, "ACK") + round[root]
                         + (IF q < peer[root] + 1 THEN 1 ELSE 0)
        BY <3>1 DEF Owed
      <3> QED
        BY <1>0, <1>1, <2>1, <2>4, <2>5, <3>2
    <2> QED
      BY <2>6, <2>7
  <1>10. ASSUME r # root, stream' = Queue(stream, r, root, Header("ACK", r)),
                acks' = [acks EXCEPT ![r] = @ + 1]
         PROVE  acks'[q] = Owed(q)'
    <2>1. Header("ACK", r) \in Message /\ Header("ACK", r).kind = "ACK"
      BY MessageTypes
    <2>2. CountOn(stream', q, root, "ACK")
            = CountOn(stream, q, root, "ACK") + (IF q = r THEN 1 ELSE 0)
      <3>1. CountOn(Queue(stream, r, root, Header("ACK", r)), q, root, "ACK")
              = CountOn(stream, q, root, "ACK")
                + (IF q = r /\ root = root /\ Header("ACK", r).kind = "ACK" THEN 1 ELSE 0)
        BY <1>0, <1>1, <2>1, CountQueue
      <3> QED
        BY <1>1, <1>10, <2>1, <3>1
    <2>3. acks'[q] = acks[q] + (IF q = r THEN 1 ELSE 0)
      BY <1>0, <1>1, <1>10
    <2>4. /\ CountOn(stream', q, root, "ACK") + acks[q] = CountOn(stream, q, root, "ACK") + acks'[q]
          /\ acks'[q] \in Nat /\ CountOn(stream', q, root, "ACK") \in Nat
      BY <1>1, <2>2, <2>3
    <2> QED
      BY <1>2, <1>10, <2>4
  <1>11. CASE Recvfrom(r)
    <2>1. r # root
      BY <1>11 DEF Recvfrom, ProgramInv
    <2>2. Head(sock[r]).root = root
      BY <1>0, <1>11, Received DEF Logged
    <2>3. \/ stream' = stream /\ acks' = acks
          \/ /\ stream' = Queue(stream, r, root, Header("ACK", r))
             /\ acks' = [acks EXCEPT ![r] = @ + 1]
      BY <1>11, <2>2 DEF Recvfrom
    <2>4. CASE stream' = stream /\ acks' = acks
      BY <1>1, <1>2, <2>1, <2>4
    <2> QED
      BY <1>10, <2>1, <2>3, <2>4
  <1>12. CASE RecvFallback(r)
    <2>1. pc[r] = "fallback"
      BY <1>12 DEF RecvFallback
    <2> QED
      BY <1>0, <2>1 DEF ProgramInv
  <1>13. CASE SendAck(r)
    <2>1. /\ r # root /\ AckTo(r) = root
          /\ stream' = Queue(stream, r, AckTo(r), Header("ACK", r))
          /\ acks' = [acks EXCEPT ![r] = @ + 1]
      BY <1>0, <1>13 DEF SendAck, ProgramInv, AckTo
    <2> QED
      BY <1>10, <2>1
  <1>14. CASE Timeout(r)
    <2>1. timeouts' = timeouts + 1
      BY <1>14 DEF Timeout
    <2> QED
      BY <1>0, <2>1
  <1> QED
    BY <1>4, <1>5, <1>7, <1>8, <1>9, <1>11, <1>12, <1>13, <1>14 DEF RankStep

-----------------------------------------------------------------------------
(* What keeps the messages apart: tokens go to the next rank, ACKs to the rank *)
(* that waits for them, and on the one stream that has both they take turns. *)

Allowed(q, r, message) ==
  \/ message.kind = "TOKEN" /\ r = next(q)
  \/ message.kind = "ACK" /\ ~Eager /\ q # root /\ r = AckTo(q)

AllAllowed(s) ==
  \A q, r \in Rank : \A i \in DOMAIN s[Link(q, r)] : Allowed(q, r, s[Link(q, r)][i])

\* A sequence of messages whose senders and reader take turns.
Turn(n) == IF n % 2 = 1 THEN "TOKEN" ELSE "ACK"
Turns(messages, sent, read) ==
  /\ Len(messages) = sent - read
  /\ \A i \in DOMAIN messages : messages[i].kind = Turn(read + i)

SharedLink == Link(N-1, root)

LEMMA FrameParts ==
  /\ FrameInv <=> /\ StreamsFramed /\ AllAllowed(stream)
                  /\ Shared => Turns(stream[SharedLink], SentUp, ReadUp)
  /\ FrameInv' <=> /\ StreamsFramed' /\ AllAllowed(stream)'
                   /\ Shared' => Turns(stream'[SharedLink], SentUp', ReadUp')
  <1>1. FrameInv <=> /\ StreamsFramed /\ AllAllowed(stream)
                     /\ Shared => Turns(stream[SharedLink], SentUp, ReadUp)
    BY DEF FrameInv, AllAllowed, Allowed, Turns, Turn, SharedLink
  <1>2. FrameInv' <=> /\ StreamsFramed' /\ AllAllowed(stream)'
                      /\ Shared' => Turns(stream'[SharedLink], SentUp', ReadUp')
    BY DEF FrameInv, AllAllowed, Allowed, Turns, Turn, SharedLink
  <1> QED
    BY <1>1, <1>2

LEMMA TurnsAppend ==
  ASSUME NEW messages \in Seq(Message), NEW m \in Message, NEW sent \in Nat, NEW read \in Nat,
         Turns(messages, sent, read), m.kind = Turn(sent + 1)
  PROVE  Turns(Append(messages, m), sent + 1, read)
  <1>1. /\ Len(messages) = sent - read /\ Len(messages) \in Nat
        /\ DOMAIN messages = 1 .. Len(messages)
        /\ DOMAIN Append(messages, m) = 1 .. Len(messages) + 1
        /\ Len(Append(messages, m)) = Len(messages) + 1
        /\ Append(messages, m)[Len(messages) + 1] = m
        /\ \A i \in 1 .. Len(messages) : Append(messages, m)[i] = messages[i]
    BY AppendProperties, LenProperties DEF Turns
  <1>2. ASSUME NEW i \in DOMAIN Append(messages, m)
        PROVE  Append(messages, m)[i].kind = Turn(read + i)
    <2>1. CASE i = Len(messages) + 1
      <3>1. read + i = sent + 1
        BY <1>1, <2>1
      <3> QED
        BY <1>1, <2>1, <3>1
    <2>2. CASE i # Len(messages) + 1
      <3>1. i \in DOMAIN messages
        BY <1>1, <1>2, <2>2
      <3> QED
        BY <1>1, <3>1 DEF Turns
    <2> QED
      BY <2>1, <2>2
  <1>3. Len(Append(messages, m)) = sent + 1 - read
    BY <1>1
  <1> QED
    BY <1>2, <1>3 DEF Turns

LEMMA TurnsTail ==
  ASSUME NEW messages \in Seq(Message), messages # <<>>, NEW sent \in Nat, NEW read \in Nat,
         Turns(messages, sent, read)
  PROVE  /\ Turns(Tail(messages), sent, read + 1)
         /\ Head(messages).kind = Turn(read + 1)
  <1>1. /\ Len(messages) = sent - read /\ Len(messages) \in Nat /\ Len(messages) >= 1
        /\ DOMAIN messages = 1 .. Len(messages)
        /\ Tail(messages) \in Seq(Message)
        /\ DOMAIN Tail(messages) = 1 .. Len(messages) - 1
        /\ Len(Tail(messages)) = Len(messages) - 1
        /\ \A i \in 1 .. Len(messages) - 1 : Tail(messages)[i] = messages[i+1]
        /\ Head(messages) = messages[1]
    BY HeadTailProperties, LenProperties, EmptySeq DEF Turns
  <1>2. ASSUME NEW i \in DOMAIN Tail(messages)
        PROVE  Tail(messages)[i].kind = Turn(read + 1 + i)
    <2>1. i + 1 \in DOMAIN messages /\ Tail(messages)[i] = messages[i+1] /\ i \in Nat
      BY <1>1, <1>2
    <2>2. messages[i+1].kind = Turn(read + (i + 1))
      BY <2>1 DEF Turns
    <2>3. read + (i + 1) = read + 1 + i
      BY <2>1
    <2> QED
      BY <2>1, <2>2, <2>3
  <1>3. Len(Tail(messages)) = sent - (read + 1)
    BY <1>1
  <1>4. Head(messages).kind = Turn(read + 1)
    BY <1>1 DEF Turns
  <1> QED
    BY <1>2, <1>3, <1>4 DEF Turns

\* Tokens and ACKs meet on the shared stream only.
LEMMA Meeting ==
  ASSUME NEW q \in Rank, q # root, ~Eager, next(q) = AckTo(q)
  PROVE  q = N-1 /\ next(q) = root /\ Shared
  <1>1. /\ next(q) = IF q = N-1 THEN 0 ELSE q + 1
        /\ prev(q) = IF q = 0 THEN N-1 ELSE q - 1
        /\ q \in Int /\ 0 <= q /\ q < N /\ N \in Nat /\ N >= 2 /\ root = 0
    BY NextRank, PrevRank, InRank, NAssumption, TheRoot
  <1>2. AckTo(q) = IF NaiveRing THEN prev(q) ELSE root
    BY DEF AckTo
  <1>3. CASE q = N-1
    BY <1>1, <1>3 DEF Shared
  <1>4. CASE q # N-1
    <2>1. next(q) = q + 1 /\ prev(q) = q - 1
      BY <1>1, <1>4
    <2>2. next(q) # root /\ next(q) # prev(q)
      BY <1>1, <2>1
    <2> QED
      BY <1>2, <2>2
  <1> QED
    BY <1>3, <1>4

\* The streams are read as they are written, where no payload is retransmitted and
\* no ACK is sent twice.
LEMMA HeadAllowed ==
  ASSUME CTypeOK, AllAllowed(stream), NEW r \in Rank, Reading(r), Incoming(r) # <<>>
  PROVE  /\ Peer(r) \in Rank /\ Incoming(r) \in Seq(Message) /\ Head(Incoming(r)) \in Message
         /\ Allowed(Peer(r), r, Head(Incoming(r)))
  <1>1. Peer(r) \in Rank /\ stream \in StreamType
    BY Typed, Reads
  <1>2. Incoming(r) \in Seq(Message)
    BY <1>1 DEF StreamType, Link, Incoming
  <1>3. /\ 1 \in DOMAIN Incoming(r) /\ Head(Incoming(r)) = Incoming(r)[1]
        /\ Head(Incoming(r)) \in Message
    BY <1>2, HeadTailProperties, LenProperties, EmptySeq
  <1> QED
    BY <1>1, <1>2, <1>3 DEF AllAllowed, Incoming

LEMMA Counters ==
  ASSUME CTypeOK
  PROVE  /\ SentUp \in Nat /\ ReadUp \in Nat
         /\ round[N-1] \in Nat /\ round[root] \in Nat
         /\ SentUp % 2 = IF pc[N-1] \in {"recv", "fallback", "ack", "done"} THEN 1 ELSE 0
         /\ ReadUp % 2 = IF pc[root] \in {"send", "answers", "done"} THEN 1 ELSE 0
  <1>1. round[N-1] \in Nat /\ round[root] \in Nat
    BY Typed, TheRoot, MaxBcastsAssumption
  <1>2. \A n \in Nat : \A b \in {0, 1} : 2 * n + b \in Nat /\ (2 * n + b) % 2 = b
    OBVIOUS
  <1>3. /\ \E b \in {0, 1} : /\ SentUp = 2 * round[N-1] + b
                              /\ b = IF pc[N-1] \in {"recv", "fallback", "ack", "done"} THEN 1 ELSE 0
        /\ \E b \in {0, 1} : /\ ReadUp = 2 * round[root] + b
                              /\ b = IF pc[root] \in {"send", "answers", "done"} THEN 1 ELSE 0
    BY DEF SentUp, ReadUp
  <1> QED
    BY <1>1, <1>2, <1>3

LEMMA TurnIs ==
  ASSUME NEW n \in Nat
  PROVE  /\ n % 2 = 0 => Turn(n + 1) = "TOKEN"
         /\ n % 2 = 1 => Turn(n + 1) = "ACK"
  BY DEF Turn

LEMMA HeadFits ==
  ASSUME CTypeOK, ProgramInv, Quiet, FrameInv, NEW r \in Rank, Reading(r), Incoming(r) # <<>>
  PROVE  Fits(r) /\ Head(Incoming(r)).kind # "NACK"
  <1>1. AllAllowed(stream) /\ (Shared => Turns(stream[SharedLink], SentUp, ReadUp))
    BY FrameParts
  <1>2. /\ Peer(r) \in Rank /\ Incoming(r) \in Seq(Message) /\ Head(Incoming(r)) \in Message
        /\ Allowed(Peer(r), r, Head(Incoming(r)))
    BY <1>1, HeadAllowed
  <1>3. /\ Shared /\ Peer(r) = N-1 /\ r = root => Head(Incoming(r)).kind = Turn(ReadUp + 1)
    <2>1. ASSUME Shared, Peer(r) = N-1, r = root
          PROVE  Head(Incoming(r)).kind = Turn(ReadUp + 1)
      <3>1. Incoming(r) = stream[SharedLink]
        BY <2>1 DEF Incoming, SharedLink
      <3>2. Turns(Incoming(r), SentUp, ReadUp)
        BY <1>1, <2>1, <3>1
      <3> QED
        BY <1>2, <3>2, TurnsTail, Counters
    <2> QED
      BY <2>1
  <1>4. CASE pc[r] = "barrier recv"
    <2>1. Peer(r) = prev(r) /\ Want(r) = TokenLength
      BY <1>4 DEF Peer, Want
    <2>2. ASSUME Head(Incoming(r)).kind # "TOKEN"
          PROVE  FALSE
      <3>1. ~Eager /\ Peer(r) # root /\ r = AckTo(Peer(r)) /\ Head(Incoming(r)).kind = "ACK"
        BY <1>2, <2>2 DEF Allowed
      <3>2. next(prev(r)) = r
        BY NextRank, PrevRank, InRank, NAssumption
      <3>3. Peer(r) = N-1 /\ r = root /\ Shared
        BY <1>2, <2>1, <3>1, <3>2, Meeting
      <3>4. Turn(ReadUp + 1) = "TOKEN"
        <4>1. ReadUp \in Nat /\ ReadUp % 2 = 0
          BY <1>4, <3>3, Counters
        <4> QED
          BY <4>1, TurnIs
      <3> QED
        BY <1>3, <3>1, <3>3, <3>4
    <2> QED
      BY <1>2, <2>1, <2>2, Lengths DEF Fits
  <1>5. CASE pc[r] = "answers"
    <2>1. Peer(r) = peer[r] /\ Want(r) = MPI_HEADER /\ ~Eager /\ (r = root \/ Forwards(r))
      BY <1>5 DEF Peer, Want, ProgramInv
    <2>2. ASSUME Head(Incoming(r)).kind # "ACK"
          PROVE  FALSE
      <3>1. r = next(peer[r]) /\ Head(Incoming(r)).kind = "TOKEN" /\ peer[r] \in Rank
        BY <1>2, <2>1, <2>2 DEF Allowed
      <3>2. peer[r] # root /\ next(peer[r]) = AckTo(peer[r])
        <4>1. CASE NaiveRing
          <5>1. peer[r] = next(r) /\ next(r) # root
            <6>1. peer[r] = next(r)
              BY <1>5, <4>1 DEF ProgramInv
            <6> QED
              BY <2>1, <6>1, TheRoot, NAssumption DEF Forwards
          <5>2. next(next(r)) = r /\ prev(next(r)) = r
            BY <3>1, <5>1, PrevNext
          <5> QED
            BY <3>1, <4>1, <5>1, <5>2 DEF AckTo
        <4>2. CASE ~NaiveRing
          <5>1. r = root /\ peer[r] \in 1 .. N-1
            BY <2>1, <4>2, Typed DEF Forwards
          <5>2. peer[r] # root
            BY <5>1, TheRoot
          <5> QED
            BY <3>1, <4>2, <5>1, <5>2 DEF AckTo
        <4> QED
          BY <4>1, <4>2
      <3>3. Peer(r) = N-1 /\ r = root /\ Shared
        BY <2>1, <3>1, <3>2, Meeting
      <3>4. Turn(ReadUp + 1) = "ACK"
        <4>1. ReadUp \in Nat /\ ReadUp % 2 = 1
          BY <1>5, <3>3, Counters
        <4> QED
          BY <4>1, TurnIs
      <3> QED
        BY <1>3, <3>1, <3>3, <3>4
    <2> QED
      BY <1>2, <2>1, <2>2, Lengths DEF Fits
  <1>6. CASE pc[r] = "fallback"
    <2>1. timeouts > 0 /\ ~Eager /\ timeouts \in Nat
      BY <1>6, TypeParts, MaxTimeoutsAssumption DEF ProgramInv, DataType
    <2> QED
      BY <2>1 DEF Quiet
  <1> QED
    BY <1>4, <1>5, <1>6 DEF Reading

LEMMA AllowedQueue ==
  ASSUME NEW s \in StreamType, AllAllowed(s), NEW q \in Rank, NEW r \in Rank, NEW m \in Message,
         Allowed(q, r, m)
  PROVE  AllAllowed(Queue(s, q, r, m))
  <1>1. ASSUME NEW a \in Rank, NEW b \in Rank, NEW i \in DOMAIN Queue(s, q, r, m)[Link(a, b)]
        PROVE  Allowed(a, b, Queue(s, q, r, m)[Link(a, b)][i])
    <2>1. CASE a = q /\ b = r
      <3>1. PICK t : t = s[Link(q, r)]
        OBVIOUS
      <3>0. Queue(s, q, r, m)[Link(a, b)]
              = IF a = q /\ b = r THEN Append(s[Link(q, r)], m) ELSE s[Link(a, b)]
        BY QueueAt
      <3>2. t \in Seq(Message) /\ Queue(s, q, r, m)[Link(a, b)] = Append(t, m)
        <4>1. s[Link(q, r)] \in Seq(Message)
          BY DEF StreamType, Link
        <4> QED
          BY <2>1, <3>0, <3>1, <4>1
      <3>3. /\ i \in 1 .. Len(t) + 1 /\ Len(t) \in Nat
            /\ i = Len(t) + 1 => Append(t, m)[i] = m
            /\ i # Len(t) + 1 => i \in DOMAIN t /\ Append(t, m)[i] = t[i]
        BY <1>1, <3>2, AppendProperties, LenProperties
      <3>4. \A j \in DOMAIN t : Allowed(q, r, t[j])
        BY <3>1 DEF AllAllowed
      <3>5. Allowed(q, r, Append(t, m)[i])
        BY <3>3, <3>4
      <3> QED
        BY <2>1, <3>2, <3>5
    <2>2. CASE ~(a = q /\ b = r)
      <3>1. Queue(s, q, r, m)[Link(a, b)] = s[Link(a, b)]
        BY <2>2, QueueAt
      <3> QED
        BY <1>1, <3>1 DEF AllAllowed
    <2> QED
      BY <2>1, <2>2
  <1> QED
    BY <1>1 DEF AllAllowed

LEMMA AllowedDequeue ==
  ASSUME NEW s \in StreamType, AllAllowed(s), NEW q \in Rank, NEW r \in Rank,
         s[Link(q, r)] # <<>>
  PROVE  AllAllowed(Dequeue(s, q, r))
  <1>1. ASSUME NEW a \in Rank, NEW b \in Rank, NEW i \in DOMAIN Dequeue(s, q, r)[Link(a, b)]
        PROVE  Allowed(a, b, Dequeue(s, q, r)[Link(a, b)][i])
    <2>1. CASE a = q /\ b = r
      <3>1. PICK t : t = s[Link(q, r)]
        OBVIOUS
      <3>0. Dequeue(s, q, r)[Link(a, b)]
              = IF a = q /\ b = r THEN Tail(s[Link(q, r)]) ELSE s[Link(a, b)]
        BY DequeueAt
      <3>2. t \in Seq(Message) /\ t # <<>> /\ Dequeue(s, q, r)[Link(a, b)] = Tail(t)
        <4>1. s[Link(q, r)] \in Seq(Message)
          BY DEF StreamType, Link
        <4> QED
          BY <2>1, <3>0, <3>1, <4>1
      <3>3. i + 1 \in DOMAIN t /\ Tail(t)[i] = t[i+1]
        BY <1>1, <3>2, HeadTailProperties, LenProperties
      <3>4. \A j \in DOMAIN t : Allowed(q, r, t[j])
        BY <3>1 DEF AllAllowed
      <3>5. Allowed(q, r, Tail(t)[i])
        BY <3>3, <3>4
      <3> QED
        BY <2>1, <3>2, <3>5
    <2>2. CASE ~(a = q /\ b = r)
      <3>1. Dequeue(s, q, r)[Link(a, b)] = s[Link(a, b)]
        BY <2>2, DequeueAt
      <3> QED
        BY <1>1, <3>1 DEF AllAllowed
    <2> QED
      BY <2>1, <2>2
  <1> QED
    BY <1>1 DEF AllAllowed

\* The shared stream in a stream table that has one message more or less.
LEMMA SharedQueue ==
  ASSUME NEW s \in StreamType, NEW q \in Rank, NEW r \in Rank, NEW m \in Message
  PROVE  Queue(s, q, r, m)[SharedLink]
           = IF q = N-1 /\ r = root THEN Append(s[SharedLink], m) ELSE s[SharedLink]
  <1>1. Queue(s, q, r, m)[Link(N-1, root)]
          = IF N-1 = q /\ root = r THEN Append(s[Link(q, r)], m) ELSE s[Link(N-1, root)]
    BY TheRoot, QueueAt
  <1>2. CASE q = N-1 /\ r = root
    BY <1>1, <1>2 DEF SharedLink
  <1>3. CASE ~(q = N-1 /\ r = root)
    BY <1>1, <1>3 DEF SharedLink
  <1> QED
    BY <1>2, <1>3

LEMMA SharedTaken ==
  ASSUME CTypeOK, NEW r \in Rank, Reading(r), Fits(r)
  PROVE  /\ Taken(r)[SharedLink]
              = IF Peer(r) = N-1 /\ r = root THEN Tail(stream[SharedLink]) ELSE stream[SharedLink]
         /\ stream[SharedLink] \in Seq(Message)
         /\ Peer(r) = N-1 /\ r = root => stream[SharedLink] # <<>>
         /\ AllAllowed(stream) => AllAllowed(Taken(r))
  <1>1. /\ stream \in StreamType /\ Peer(r) \in Rank /\ stream[Link(Peer(r), r)] # <<>>
        /\ N-1 \in Rank /\ root \in Rank
    BY Typed, Reads, TheRoot DEF Incoming
  <1>2. PICK p \in Rank : p = Peer(r)
    BY <1>1
  <1>3. Dequeue(stream, p, r)[Link(N-1, root)]
          = IF N-1 = p /\ root = r THEN Tail(stream[Link(p, r)]) ELSE stream[Link(N-1, root)]
    BY <1>1, <1>2, DequeueAt
  <1>4. stream[SharedLink] \in Seq(Message)
    BY <1>1 DEF StreamType, SharedLink, Link
  <1>5. AllAllowed(stream) => AllAllowed(Dequeue(stream, p, r))
    BY <1>1, <1>2, AllowedDequeue
  <1>6. Taken(r) = Dequeue(stream, p, r)
    BY <1>2 DEF Taken
  <1>7. CASE p = N-1 /\ r = root
    BY <1>1, <1>2, <1>3, <1>4, <1>5, <1>6, <1>7 DEF SharedLink
  <1>8. CASE ~(p = N-1 /\ r = root)
    BY <1>1, <1>2, <1>3, <1>4, <1>5, <1>6, <1>8 DEF SharedLink
  <1> QED
    BY <1>7, <1>8

LEMMA FrameStep ==
  ASSUME CTypeOK, ProgramInv, LogInv, FromInv, Quiet => FrameInv,
         NEW r \in Rank, RankStep(r) \/ Timeout(r), Quiet'
  PROVE  FrameInv'
  <1>0. /\ algo' = algo /\ Eager' = Eager /\ Shared' = Shared
        /\ Quiet /\ FrameInv
        /\ \A q, b \in Rank : \A m : Allowed(q, b, m)' <=> Allowed(q, b, m)
        /\ \A q \in Rank : q # r => pc'[q] = pc[q] /\ round'[q] = round[q]
    <2>1. /\ algo' = algo /\ timeouts \in Nat /\ timeouts' \in Nat /\ timeouts' >= timeouts
          /\ \A q \in Rank : q # r => pc'[q] = pc[q] /\ round'[q] = round[q]
      BY Elsewhere
    <2>2. Eager' = Eager /\ NaiveRing' = NaiveRing
      BY <2>1 DEF Eager, NaiveRing
    <2>3. Quiet
      BY <2>1, <2>2 DEF Quiet, RecvAcks
    <2> QED
      BY <2>1, <2>2, <2>3 DEF Shared, AckTo, Allowed
  <1>1. /\ StreamsFramed /\ AllAllowed(stream)
        /\ Shared => ~Eager /\ Turns(stream[SharedLink], SentUp, ReadUp)
        /\ stream \in StreamType /\ ControlType /\ stream[SharedLink] \in Seq(Message)
        /\ N-1 \in Rank /\ root \in Rank /\ N-1 # root
    <2>1. stream \in StreamType
      BY Typed
    <2> QED
      BY <1>0, <2>1, FrameParts, TypeParts, TheRoot DEF Shared, StreamType, SharedLink, Link
  <1>2. ASSUME NEW s, s = stream', pc'[r] # "garbled", AllAllowed(s),
               Shared => Turns(s[SharedLink], SentUp', ReadUp')
        PROVE  FrameInv'
    <2>1. StreamsFramed'
      BY <1>0, <1>1, <1>2 DEF StreamsFramed
    <2>2. AllAllowed(stream)'
      BY <1>0, <1>2 DEF AllAllowed
    <2> QED
      BY <1>0, <1>2, <2>1, <2>2, FrameParts
  <1>3. ASSUME \/ r # N-1
               \/ /\ round'[r] = round[r]
                  /\ pc'[r] \in {"recv", "fallback", "ack", "done"}
                       <=> pc[r] \in {"recv", "fallback", "ack", "done"}
        PROVE  SentUp' = SentUp
    <2>1. /\ round'[N-1] = round[N-1]
          /\ pc'[N-1] \in {"recv", "fallback", "ack", "done"}
               <=> pc[N-1] \in {"recv", "fallback", "ack", "done"}
      BY <1>0, <1>1, <1>3
    <2> QED
      BY <2>1 DEF SentUp
  <1>4. ASSUME \/ r # root
               \/ /\ round'[r] = round[r]
                  /\ pc'[r] \in {"send", "answers", "done"}
                       <=> pc[r] \in {"send", "answers", "done"}
        PROVE  ReadUp' = ReadUp
    <2>1. /\ round'[root] = round[root]
          /\ pc'[root] \in {"send", "answers", "done"}
               <=> pc[root] \in {"send", "answers", "done"}
      BY <1>0, <1>1, <1>4
    <2> QED
      BY <2>1 DEF ReadUp
  <1>5. CASE EnterBarrier(r)
    <2>1. /\ pc[r] = "out" /\ pc'[r] \in {"barrier send", "barrier recv"}
          /\ round' = round /\ stream' = stream
      BY <1>1, <1>5 DEF EnterBarrier, ControlType
    <2>2. SentUp' = SentUp /\ ReadUp' = ReadUp
      BY <1>3, <1>4, <2>1
    <2> QED
      BY <1>1, <1>2, <2>1, <2>2
  <1>6. CASE SendToken(r)
    <2>1. /\ pc[r] = "barrier send" /\ stream' = Queue(stream, r, next(r), Token(r))
          /\ pc'[r] = AfterToken(r) /\ round' = round
      BY <1>1, <1>6 DEF SendToken, ControlType
    <2>2. next(r) \in Rank /\ Token(r) \in Message /\ Token(r).kind = "TOKEN"
      BY DestinationTypes, MessageTypes
    <2>3. AllAllowed(Queue(stream, r, next(r), Token(r)))
      <3>1. Allowed(r, next(r), Token(r))
        BY <2>2 DEF Allowed
      <3> QED
        BY <1>1, <2>2, <3>1, AllowedQueue
    <2>4. /\ r = root => pc'[r] = "barrier recv"
          /\ r # root => pc'[r] \in {"done", "recv"}
      BY <2>1, TheRoot DEF AfterToken, AfterBarrier
    <2>5. ReadUp' = ReadUp
      BY <1>4, <2>1, <2>4
    <2>6. CASE r = N-1
      <3>1. stream'[SharedLink] = Append(stream[SharedLink], Token(r))
        BY <1>1, <2>1, <2>2, <2>6, SharedQueue, TheRoot
      <3>2. SentUp' = SentUp + 1 /\ SentUp % 2 = 0 /\ SentUp \in Nat /\ ReadUp \in Nat
        <4>1. pc[N-1] = "barrier send" /\ pc'[N-1] \in {"done", "recv"} /\ round' = round
          BY <1>1, <2>1, <2>4, <2>6
        <4>2. SentUp = 2 * round[N-1] + 0 /\ SentUp' = 2 * round[N-1] + 1
          BY <4>1 DEF SentUp
        <4>3. SentUp \in Nat /\ ReadUp \in Nat /\ round[N-1] \in Nat /\ SentUp % 2 = 0
          BY <4>1, Counters
        <4> QED
          BY <4>2, <4>3
      <3>3. Token(r).kind = Turn(SentUp + 1)
        BY <2>2, <3>2, TurnIs
      <3>4. Shared => Turns(stream'[SharedLink], SentUp', ReadUp')
        BY <1>1, <2>2, <2>5, <3>1, <3>2, <3>3, TurnsAppend
      <3> QED
        BY <1>2, <2>1, <2>3, <2>4, <3>4
    <2>7. CASE r # N-1
      <3>1. stream'[SharedLink] = stream[SharedLink]
        BY <1>1, <2>1, <2>2, <2>7, SharedQueue
      <3>2. SentUp' = SentUp
        BY <1>3, <2>7
      <3> QED
        BY <1>1, <1>2, <2>1, <2>3, <2>4, <2>5, <3>1, <3>2
    <2> QED
      BY <2>6, <2>7
  <1>7. CASE RecvToken(r)
    <2>1. /\ pc[r] = "barrier recv" /\ Reading(r) /\ Fits(r) /\ stream' = Taken(r)
          /\ pc'[r] = (IF r = 0 THEN AfterBarrier(r) ELSE "barrier send") /\ round' = round
      BY <1>1, <1>7 DEF RecvToken, ControlType, Reading
    <2>2. Peer(r) = prev(r)
      BY <2>1, Reads
    <2>3. AllAllowed(Taken(r))
      BY <1>1, <2>1, SharedTaken
    <2>4. SentUp' = SentUp
      BY <1>1, <1>3, <2>1, TheRoot
    <2>5. CASE r = root
      <3>1. Peer(r) = N-1 /\ pc'[r] \in {"done", "send"}
        BY <2>1, <2>2, <2>5, TheRoot DEF AfterBarrier
      <3>2. stream'[SharedLink] = Tail(stream[SharedLink]) /\ stream[SharedLink] # <<>>
        BY <2>1, <2>5, <3>1, SharedTaken
      <3>3. ReadUp' = ReadUp + 1 /\ SentUp \in Nat /\ ReadUp \in Nat
        <4>1. /\ pc[root] = "barrier recv" /\ pc'[root] \in {"done", "send"} /\ round' = round
          BY <2>1, <2>5, <3>1
        <4>2. ReadUp = 2 * round[root] + 0 /\ ReadUp' = 2 * round[root] + 1
          BY <4>1 DEF ReadUp
        <4>3. SentUp \in Nat /\ ReadUp \in Nat /\ round[root] \in Nat
          BY Counters
        <4> QED
          BY <4>2, <4>3
      <3>4. Shared => Turns(stream'[SharedLink], SentUp', ReadUp')
        BY <1>1, <2>4, <3>2, <3>3, TurnsTail
      <3> QED
        BY <1>2, <2>1, <2>3, <3>1, <3>4
    <2>6. CASE r # root
      <3>1. pc'[r] = "barrier send"
        BY <2>1, <2>6, TheRoot
      <3>2. stream'[SharedLink] = stream[SharedLink] /\ ReadUp' = ReadUp
        BY <1>4, <2>1, <2>6, SharedTaken
      <3> QED
        BY <1>1, <1>2, <2>1, <2>3, <2>4, <3>1, <3>2
    <2> QED
      BY <2>5, <2>6
  <1>8. CASE Garble(r)
    <2>1. Reading(r) /\ Incoming(r) # <<>> /\ ~Fits(r)
      BY <1>8 DEF Garble
    <2> QED
      BY <1>0, <2>1, HeadFits
  <1>9. ASSUME pc[r] \in {"send", "answers"}
        PROVE  r # N-1
    <2>1. r = root \/ next(r) # root
      BY <1>9 DEF ProgramInv, Forwards
    <2> QED
      BY <1>1, <2>1, TheRoot
  <1>10. CASE SendFragment(r)
    <2>1. pc[r] = "send" /\ stream' = stream /\ (AfterSend(r) \/ GoOn(r, "send"))
      BY <1>10 DEF SendFragment
    <2>2. SentUp' = SentUp
      BY <1>3, <1>9, <2>1
    <2>3. \/ ~Eager /\ pc'[r] \in {"send", "answers"} /\ round'[r] = round[r]
          \/ Eager /\ pc'[r] \in {"send", "out"}
      BY <1>1, <2>1 DEF AfterSend, Return, GoOn, ControlType
    <2>4. ~Eager => ReadUp' = ReadUp
      BY <1>4, <2>1, <2>3
    <2> QED
      BY <1>1, <1>2, <2>1, <2>2, <2>3, <2>4
  <1>11. CASE RecvAnswer(r)
    <2>1. /\ pc[r] = "answers" /\ Reading(r) /\ Fits(r)
          /\ stream' = Reply(r, Head(Incoming(r)), Taken(r))
      BY <1>11 DEF RecvAnswer, Reading
    <2>2. stream' = Taken(r)
      <3>1. Incoming(r) # <<>>
        BY <2>1 DEF Fits
      <3>2. Head(Incoming(r)).kind # "NACK"
        BY <1>0, <2>1, <3>1, HeadFits
      <3> QED
        BY <2>1, <3>2 DEF Reply
    <2>3. AllAllowed(Taken(r)) /\ Peer(r) = peer[r]
      BY <1>1, <2>1, SharedTaken, Reads
    <2>4. SentUp' = SentUp
      BY <1>3, <1>9, <2>1
    <2>5. /\ LastAnswer(r) => pc'[r] = "out" /\ round'[r] = round[r] + 1
          /\ ~LastAnswer(r) => pc'[r] \in {"send", "answers"} /\ round'[r] = round[r]
      BY <1>1, <1>11, OwnReturn DEF RecvAnswer, ControlType
    <2>6. Shared /\ r = root => (LastAnswer(r) <=> peer[r] = N-1)
      <3>1. CASE ~NaiveRing
        BY <3>1 DEF LastAnswer
      <3>2. CASE NaiveRing /\ Shared /\ r = root
        <4>1. prev(N-1) = root
          BY <3>2 DEF Shared, AckTo
        <4>2. N = 2
          BY <1>1, <4>1, PrevRank, TheRoot, NAssumption
        <4>3. peer[r] = N-1
          BY <4>2, Typed
        <4> QED
          BY <3>2, <4>3 DEF LastAnswer
      <3> QED
        BY <3>1, <3>2
    <2>7. CASE Shared /\ r = root /\ peer[r] = N-1
      <3>1. stream'[SharedLink] = Tail(stream[SharedLink]) /\ stream[SharedLink] # <<>>
        BY <2>1, <2>2, <2>3, <2>7, SharedTaken
      <3>2. ReadUp' = ReadUp + 1 /\ SentUp \in Nat /\ ReadUp \in Nat
        <4>1. pc'[root] = "out" /\ round'[root] = round[root] + 1 /\ pc[root] = "answers"
          BY <2>1, <2>5, <2>6, <2>7
        <4>2. ReadUp = 2 * round[root] + 1 /\ ReadUp' = 2 * round'[root] + 0
          BY <4>1 DEF ReadUp
        <4>3. SentUp \in Nat /\ ReadUp \in Nat /\ round[root] \in Nat
          BY Counters
        <4> QED
          BY <4>1, <4>2, <4>3
      <3>3. Turns(stream'[SharedLink], SentUp', ReadUp')
        BY <1>1, <2>4, <2>7, <3>1, <3>2, TurnsTail
      <3> QED
        BY <1>2, <2>2, <2>3, <2>5, <3>3
    <2>8. CASE ~(Shared /\ r = root /\ peer[r] = N-1)
      <3>1. Shared => stream'[SharedLink] = stream[SharedLink]
        BY <2>1, <2>2, <2>3, <2>8, SharedTaken
      <3>2. Shared => ReadUp' = ReadUp
        BY <1>4, <2>1, <2>5, <2>6, <2>8
      <3> QED
        BY <1>1, <1>2, <2>2, <2>3, <2>4, <2>5, <3>1, <3>2
    <2> QED
      BY <2>7, <2>8
  <1>12. CASE Recvfrom(r)
    <2>1. pc[r] = "recv" /\ r # root /\ stream' = stream
      BY <1>0, <1>12 DEF Recvfrom, ProgramInv, Quiet, RecvAcks
    <2>2. /\ pc'[r] \in {"recv", "ack", "out"}
          /\ ~Eager => pc'[r] \in {"recv", "ack"} /\ round'[r] = round[r]
      <3>1. \/ Eager /\ Return(r)
            \/ ~Eager /\ GoOn(r, "ack")
            \/ UNCHANGED <<pc, round>>
        BY <1>12 DEF Recvfrom
      <3> QED
        BY <1>1, <2>1, <3>1, OwnReturn, OwnGoOn
    <2>3. ~Eager => SentUp' = SentUp /\ ReadUp' = ReadUp
      BY <1>3, <1>4, <2>1, <2>2
    <2> QED
      BY <1>1, <1>2, <2>1, <2>2, <2>3
  <1>13. CASE RecvFallback(r)
    <2>1. timeouts > 0 /\ ~Eager /\ timeouts \in Nat
      BY <1>13, TypeParts, MaxTimeoutsAssumption DEF RecvFallback, ProgramInv, DataType
    <2> QED
      BY <1>0, <2>1 DEF Quiet
  <1>14. CASE SendAck(r)
    <2>1. /\ pc[r] = "ack" /\ r # root /\ ~Eager
          /\ stream' = Queue(stream, r, AckTo(r), Header("ACK", r))
          /\ IF Forwards(r) THEN GoOn(r, "send") ELSE Return(r)
      BY <1>14 DEF SendAck, ProgramInv
    <2>2. /\ AckTo(r) \in Rank /\ Header("ACK", r) \in Message
          /\ Header("ACK", r).kind = "ACK"
      BY DestinationTypes, MessageTypes
    <2>3. AllAllowed(Queue(stream, r, AckTo(r), Header("ACK", r)))
      <3>1. Allowed(r, AckTo(r), Header("ACK", r))
        BY <2>1, <2>2 DEF Allowed
      <3> QED
        BY <1>1, <2>2, <3>1, AllowedQueue
    <2>4. ReadUp' = ReadUp
      BY <1>4, <2>1
    <2>5. pc'[r] \in {"send", "out"}
      BY <1>1, <2>1, OwnReturn, OwnGoOn
    <2>6. CASE r = N-1 /\ Shared
      <3>1. stream'[SharedLink] = Append(stream[SharedLink], Header("ACK", r))
        <4>1. AckTo(r) = root
          BY <2>6 DEF Shared
        <4>2. Queue(stream, r, root, Header("ACK", r))[SharedLink]
                = IF r = N-1 /\ root = root THEN Append(stream[SharedLink], Header("ACK", r))
                  ELSE stream[SharedLink]
          BY <1>1, <2>2, SharedQueue
        <4> QED
          BY <2>1, <2>6, <4>1, <4>2
      <3>2. SentUp' = SentUp + 1 /\ SentUp % 2 = 1 /\ SentUp \in Nat /\ ReadUp \in Nat
        <4>1. ~Forwards(r)
          BY <2>6, TheRoot DEF Forwards
        <4>2. pc'[r] = "out" /\ round'[r] = round[r] + 1
          BY <1>1, <2>1, <4>1, OwnReturn
        <4>3. SentUp' = 2 * round'[N-1] + 0 /\ SentUp = 2 * round[N-1] + 1
          BY <2>1, <2>6, <4>2 DEF SentUp
        <4>4. SentUp \in Nat /\ ReadUp \in Nat /\ round[N-1] \in Nat /\ SentUp % 2 = 1
          BY <2>1, <2>6, Counters
        <4> QED
          BY <2>6, <4>2, <4>3, <4>4
      <3>3. Header("ACK", r).kind = Turn(SentUp + 1)
        BY <2>2, <3>2, TurnIs
      <3>4. Turns(stream'[SharedLink], SentUp', ReadUp')
        BY <1>1, <2>2, <2>4, <2>6, <3>1, <3>2, <3>3, TurnsAppend
      <3> QED
        BY <1>2, <2>1, <2>3, <2>5, <3>4
    <2>7. CASE ~(r = N-1 /\ Shared)
      <3>1. Shared => stream'[SharedLink] = stream[SharedLink]
        BY <1>1, <2>1, <2>2, <2>7, SharedQueue
      <3>2. Shared => SentUp' = SentUp
        BY <1>3, <2>7
      <3> QED
        BY <1>1, <1>2, <2>1, <2>3, <2>4, <2>5, <3>1, <3>2
    <2> QED
      BY <2>6, <2>7
  <1>15. CASE Timeout(r)
    <2>1. Eager
      <3>1. timeouts' = timeouts + 1 /\ timeouts \in Nat
        BY <1>15, Elsewhere DEF Timeout
      <3> QED
        BY <1>0, <3>1 DEF Quiet
    <2>2. stream' = stream /\ Return(r)
      BY <1>15, <2>1 DEF Timeout
    <2>3. pc'[r] = "out"
      BY <1>1, <2>2, OwnReturn
    <2> QED
      BY <1>1, <1>2, <2>1, <2>2, <2>3
  <1> QED
    BY <1>5, <1>6, <1>7, <1>8, <1>10, <1>11, <1>12, <1>13, <1>14, <1>15 DEF RankStep

-----------------------------------------------------------------------------
(* The inductive invariant.                                                *)

LEMMA CInitInv ==
  ASSUME CInit
  PROVE  CInv
  <1>1. TypeOK
    <2>1. <<>> \in Seq(Packet)
      OBVIOUS
    <2> QED
      BY <2>1, MaxLossAssumption, MaxSendsAssumption DEF CInit, NetInit, TypeOK
  <1>2. /\ pc = [r \in Rank |-> "out"] /\ round = [r \in Rank |-> 0]
        /\ stream = [link \in Rank \X Rank |-> <<>>] /\ peer = [r \in Rank |-> 1]
        /\ timeouts = 0 /\ acks = [r \in Rank |-> 0] /\ loads = <<>> /\ log = <<>> /\ net = {}
        /\ sock = [r \in Rank |-> <<>>] /\ frag = [r \in Rank |-> <<>>]
        /\ buf = [r \in Rank |-> 0] /\ seq = [r \in Rank |-> 0]
        /\ algo \in Algorithms /\ plane \in Planes
    BY DEF CInit, NetInit, NoContent
  <1>3. CTypeOK
    <2>1. ControlType
      <3>1. 1 \in 1 .. N-1 /\ 0 \in 0 .. MaxBcasts
        BY NAssumption, MaxBcastsAssumption
      <3> QED
        BY <1>2, <3>1 DEF ControlType, Labels
    <2>2. DataType
      <3>1. /\ 0 \in 0 .. Fragments-1 /\ 0 \in -1 .. MaxBcasts /\ 0 \in 0 .. MaxTimeouts
        BY FragmentsAssumption, MaxBcastsAssumption, MaxTimeoutsAssumption
      <3>2. /\ <<>> \in Seq(Message) /\ <<>> \in Seq(1 .. MaxSends)
            /\ <<>> \in Seq([content : -1 .. MaxBcasts, seq : 0 .. Fragments-1])
        OBVIOUS
      <3>3. stream \in StreamType
        BY <1>2, <3>2 DEF StreamType
      <3> QED
        BY <1>2, <3>1, <3>2, <3>3 DEF DataType
    <2> QED
      BY <1>1, <1>2, <2>1, <2>2, TypeParts
  <1>4. \A q, r \in Rank : stream[Link(q, r)] = <<>>
    BY <1>2 DEF Link
  <1>5. ProgramInv
    BY <1>2 DEF ProgramInv, InBcast
  <1>6. LogInv
    BY <1>2 DEF LogInv
  <1>7. FromInv
    BY <1>4 DEF FromInv
  <1>8. AskInv
    BY <1>4, CountEmpty DEF AskInv, Asked
  <1>9. AckInv
    <2>1. ASSUME NEW r \in Receiver
          PROVE  /\ acks[r] = 0 /\ Count(stream[Link(r, root)], "ACK") = 0
                 /\ round[root] = 0 /\ ~(r < peer[root])
      BY <1>2, <1>4, <2>1, TheRoot, CountEmpty, NAssumption
    <2> QED
      BY <2>1 DEF AckInv
  <1>10. FrameInv
    <2>1. StreamsFramed
      BY <1>2 DEF StreamsFramed
    <2>2. AllAllowed(stream)
      BY <1>4 DEF AllAllowed
    <2>3. Turns(stream[SharedLink], SentUp, ReadUp)
      <3>1. stream[SharedLink] = <<>>
        BY <1>4, TheRoot DEF SharedLink
      <3>2. SentUp = 0 /\ ReadUp = 0
        BY <1>2, TheRoot DEF SentUp, ReadUp
      <3> QED
        BY <3>1, <3>2 DEF Turns
    <2> QED
      BY <2>1, <2>2, <2>3, FrameParts
  <1> QED
    BY <1>3, <1>5, <1>6, <1>7, <1>8, <1>9, <1>10 DEF CInv

LEMMA CPlaneStep ==
  ASSUME CInv, DataPlane
  PROVE  CInv'
  <1>1. /\ Forward \/ TcStep
        /\ UNCHANGED rankVars
    BY DEF DataPlane
  <1>2. TypeOK /\ CTypeOK /\ LogInv
    BY TypeParts DEF CInv
  <1>3. /\ TypeOK' /\ log' = log
        /\ \A s \in net' : \E p \in net : s.id = p.id /\ s.root = p.root
        /\ \/ sock' = sock
           \/ \E p \in net : sock' = [sock EXCEPT ![p.port] = Append(@, p)]
    BY <1>1, <1>2, PlaneMoves
  <1>4. /\ algo' = algo /\ plane' = plane /\ pc' = pc /\ round' = round /\ stream' = stream
        /\ buf' = buf /\ seq' = seq /\ loads' = loads /\ frag' = frag /\ peer' = peer
        /\ timeouts' = timeouts /\ acks' = acks
    BY <1>1 DEF rankVars
  <1>5. CTypeOK'
    BY <1>2, <1>3, <1>4 DEF CTypeOK, RankTypeOK
  <1>6. \A p : Logged(p)' <=> Logged(p)
    BY <1>3, <1>4 DEF Logged, NaiveRing
  <1>7. LogInv'
    <2>1. \A s \in net' : Logged(s)
      BY <1>2, <1>3 DEF LogInv, Logged
    <2>2. ASSUME NEW r \in Rank, NEW i \in DOMAIN sock'[r]
          PROVE  Logged(sock'[r][i])
      <3>1. CASE sock' = sock
        BY <1>2, <2>2, <3>1 DEF LogInv
      <3>2. ASSUME NEW p \in net, sock' = [sock EXCEPT ![p.port] = Append(@, p)]
            PROVE  Logged(sock'[r][i])
        <4>1. /\ sock \in [Rank -> Seq(Packet)] /\ p \in Packet /\ p.port \in Rank
              /\ Logged(p)
          <5>1. sock \in [Rank -> Seq(Packet)] /\ p \in Packet /\ Logged(p)
            BY <1>2 DEF TypeOK, LogInv
          <5> QED
            BY <5>1, Fields
        <4>2. PICK d \in Rank : d = p.port
          BY <4>1
        <4>3. sock' = [sock EXCEPT ![d] = Append(@, p)]
          BY <3>2, <4>2
        <4>4. /\ \A q \in Rank : q # d => sock'[q] = sock[q]
              /\ sock'[d][Len(sock[d]) + 1] = p
              /\ \A j \in DOMAIN sock[d] : sock'[d][j] = sock[d][j]
              /\ DOMAIN sock'[d] = DOMAIN sock[d] \cup {Len(sock[d]) + 1}
          BY <4>1, <4>3, Queued
        <4>5. \A q \in Rank : \A j \in DOMAIN sock[q] : Logged(sock[q][j])
          BY <1>2 DEF LogInv
        <4>6. CASE r = d
          <5>1. i \in DOMAIN sock[d] \/ i = Len(sock[d]) + 1
            BY <2>2, <4>4, <4>6
          <5> QED
            BY <4>1, <4>4, <4>5, <4>6, <5>1
        <4>7. CASE r # d
          BY <2>2, <4>4, <4>5, <4>7
        <4> QED
          BY <4>6, <4>7
      <3> QED
        BY <1>3, <3>1, <3>2
    <2> QED
      BY <1>2, <1>3, <1>4, <1>6, <2>1, <2>2 DEF LogInv, Logged, NaiveRing
  <1>8. /\ ProgramInv' /\ FromInv' /\ AskInv' /\ AckInv' /\ (Quiet => FrameInv)'
    <2>1. ProgramInv' <=> ProgramInv
      BY <1>4 DEF ProgramInv, InBcast, Forwards, Eager, NaiveRing, NaiveLinear
    <2>2. FromInv' <=> FromInv
      BY <1>4 DEF FromInv
    <2>3. AskInv' <=> AskInv
      BY <1>4 DEF AskInv, Asked, Source, NaiveLinear
    <2>4. AckInv' <=> AckInv
      BY <1>4 DEF AckInv, WaitsForAll, Eager, NaiveRing
    <2>5. (Quiet => FrameInv)' <=> (Quiet => FrameInv)
      BY <1>4 DEF Quiet, RecvAcks, FrameInv, StreamsFramed, Shared, SentUp, ReadUp, AckTo,
         Eager, NaiveRing
    <2> QED
      BY <2>1, <2>2, <2>3, <2>4, <2>5 DEF CInv
  <1> QED
    BY <1>5, <1>7, <1>8 DEF CInv

LEMMA CRankStep ==
  ASSUME CInv, NEW r \in Rank, RankStep(r) \/ Timeout(r)
  PROVE  CInv'
  <1>1. CTypeOK /\ ProgramInv /\ LogInv /\ FromInv /\ AskInv /\ AckInv /\ (Quiet => FrameInv)
    BY DEF CInv
  <1>2. CTypeOK' /\ LogInv'
    BY <1>1, DataStep
  <1>3. ProgramInv'
    BY <1>1, ProgramStep
  <1>4. FromInv'
    BY <1>1, FromStep
  <1>5. AskInv'
    BY <1>1, AskStep
  <1>6. AckInv'
    BY <1>1, AckStep
  <1>7. Quiet' => FrameInv'
    BY <1>1, FrameStep
  <1> QED
    BY <1>2, <1>3, <1>4, <1>5, <1>6, <1>7 DEF CInv

LEMMA CStepInv ==
  ASSUME CInv, [CNext]_vars
  PROVE  CInv'
  <1>1. CASE CNext
    BY <1>1, CRankStep, CPlaneStep DEF CNext
  <1>2. CASE UNCHANGED vars
    <2>1. /\ net' = net /\ sock' = sock /\ log' = log /\ losses' = losses /\ full' = full
          /\ UNCHANGED rankVars
      BY <1>2 DEF vars, netVars
    <2>2. /\ algo' = algo /\ plane' = plane /\ pc' = pc /\ round' = round /\ stream' = stream
          /\ buf' = buf /\ seq' = seq /\ loads' = loads /\ frag' = frag /\ peer' = peer
          /\ timeouts' = timeouts /\ acks' = acks
      BY <2>1 DEF rankVars
    <2>3. CTypeOK' <=> CTypeOK
      BY <2>1, <2>2 DEF CTypeOK, TypeOK, RankTypeOK
    <2>4. LogInv' <=> LogInv
      BY <2>1, <2>2 DEF LogInv, Logged, NaiveRing
    <2>5. ProgramInv' <=> ProgramInv
      BY <2>2 DEF ProgramInv, InBcast, Forwards, Eager, NaiveRing, NaiveLinear
    <2>6. FromInv' <=> FromInv
      BY <2>2 DEF FromInv
    <2>7. AskInv' <=> AskInv
      BY <2>2 DEF AskInv, Asked, Source, NaiveLinear
    <2>8. AckInv' <=> AckInv
      BY <2>2 DEF AckInv, WaitsForAll, Eager, NaiveRing
    <2>9. (Quiet => FrameInv)' <=> (Quiet => FrameInv)
      BY <2>2 DEF Quiet, RecvAcks, FrameInv, StreamsFramed, Shared, SentUp, ReadUp, AckTo,
         Eager, NaiveRing
    <2> QED
      BY <2>3, <2>4, <2>5, <2>6, <2>7, <2>8, <2>9 DEF CInv
  <1> QED
    BY <1>1, <1>2

\* The invariant of the whole: whatever is lost and whoever times out.
THEOREM CInvariance == CSpec => []CInv
  <1>1. CInit => CInv
    BY CInitInv
  <1>2. CInv /\ [CNext]_vars => CInv'
    BY CStepInv
  <1> QED
    BY <1>1, <1>2, PTL DEF CSpec, CSafety

\* Every variable of the ranks and of the data plane stays in its type.
THEOREM CTypeCorrect == CSpec => []CTypeOK
  <1>1. CInv => CTypeOK
    BY DEF CInv
  <1> QED
    BY <1>1, CInvariance, PTL

\* A retransmitted payload goes only to a rank that has asked this source for it
\* and still waits for it: mpi_send and the answer loops of the XDP broadcasts send
\* one payload for one NACK, and mpi_recv sends one NACK for one payload.
THEOREM RetransmissionsCorrect == CSpec => []OnlyAskedRetransmissions
  <1>1. ASSUME CInv
        PROVE  OnlyAskedRetransmissions
    <2>1. stream \in StreamType /\ AskInv
      BY <1>1, Typed DEF CInv
    <2>2. ASSUME NEW q \in Rank, NEW r \in Rank, NEW i \in DOMAIN stream[Link(q, r)],
                 stream[Link(q, r)][i].kind = "DATA"
          PROVE  pc[r] \in {"fallback", "garbled"} /\ Source(r) = q
      <3>1. stream[Link(q, r)] \in Seq(Message) /\ stream[Link(r, q)] \in Seq(Message)
        BY <2>1 DEF StreamType, Link
      <3>2. /\ Count(stream[Link(q, r)], "DATA") >= 1
            /\ Count(stream[Link(q, r)], "DATA") \in Nat
            /\ Count(stream[Link(r, q)], "NACK") \in Nat
        BY <2>2, <3>1, CountIs
      <3>3. Asked(r, q) > 0
        BY <3>2 DEF Asked
      <3> QED
        BY <2>1, <3>3 DEF AskInv
    <2> QED
      BY <2>2 DEF OnlyAskedRetransmissions
  <1> QED
    BY <1>1, CInvariance, PTL

\* Tokens and answers share the streams without being taken for one another, as
\* long as no payload is retransmitted and mpi_recv sends no second ACK.
THEOREM FramesApart == CSpec => [](Quiet => StreamsFramed)
  <1>1. CInv => (Quiet => StreamsFramed)
    BY DEF CInv, FrameInv
  <1> QED
    BY <1>1, CInvariance, PTL

\* With one datagram to a payload and no receive that times out they never are.
THEOREM FramesCorrect ==
  ASSUME Fragments = 1, MaxTimeouts = 0
  PROVE  CSpec => []StreamsFramed
  <1>1. ASSUME CInv
        PROVE  StreamsFramed
    <2>1. timeouts = 0
      BY <1>1, TypeParts DEF CInv, DataType
    <2>2. Quiet
      BY <2>1 DEF Quiet, RecvAcks
    <2> QED
      BY <1>1, <2>2 DEF CInv, FrameInv
  <1> QED
    BY <1>1, CInvariance, PTL

\* The same in the eager broadcast, which has no answers, for any number of fragments
\* and whatever times out.
THEOREM EagerFramesCorrect ==
  ASSUME Algorithms = {"mpi_bcast_ring_xdp_eager"}
  PROVE  CSpec => []StreamsFramed
  <1>1. ASSUME CInv
        PROVE  StreamsFramed
    <2>1. Eager
      BY <1>1, TypeParts DEF CInv, Eager
    <2> QED
      BY <1>1, <2>1 DEF CInv, FrameInv, Quiet
  <1> QED
    BY <1>1, CInvariance, PTL

\* Back from its k-th broadcast, a root that waits has had k ACKs of every rank,
\* until the first receive times out: a NACK is then read in the place of an ACK.
THEOREM AcksCounted == CSpec => [](timeouts = 0 => RootWaitsForAllAcks)
  <1>1. ASSUME CInv, timeouts = 0
        PROVE  RootWaitsForAllAcks
    <2>1. ASSUME WaitsForAll, NEW r \in Receiver
          PROVE  acks[r] >= round[root]
      <3>1. acks[r] = Owed(r)
        BY <1>1, <2>1, AckParts DEF CInv
      <3>2. CountOn(stream, r, root, "ACK") \in Nat /\ round[root] \in Nat
        BY <1>1, <2>1, TheRoot, Typed, CountOnType, MaxBcastsAssumption DEF CInv
      <3> QED
        BY <3>1, <3>2 DEF Owed
    <2> QED
      BY <2>1 DEF RootWaitsForAllAcks
  <1> QED
    BY <1>1, CInvariance, PTL

\* Where no receive times out at all, the root has waited for all ACKs of every
\* broadcast that waits for them, whatever is lost and however the payload is cut.
THEOREM AcksCorrect ==
  ASSUME MaxTimeouts = 0
  PROVE  CSpec => []RootWaitsForAllAcks
  <1>1. CInv => timeouts = 0
    BY TypeParts DEF CInv, DataType
  <1> QED
    BY <1>1, AcksCounted, CInvariance, PTL

-----------------------------------------------------------------------------
(* The barriers among the broadcasts: the ranks run those of RingBarrier.   *)

LEMMA SameBarrierRing ==
  /\ Barrier!Rank = Rank
  /\ \A r : Barrier!next(r) = next(r) /\ Barrier!prev(r) = prev(r)
  BY DEF Barrier!Rank, Rank, Barrier!next, next, Barrier!prev, prev

\* Functions of the ranks that differ in one place.
LEMMA InOnePlace ==
  ASSUME NEW S, NEW f, NEW g, f = [q \in S |-> f[q]], g = [q \in S |-> g[q]],
         NEW r \in S, NEW v, g[r] = v, \A q \in S : q # r => g[q] = f[q]
  PROVE  g = [f EXCEPT ![r] = v]
  OBVIOUS

LEMMA BarrierValues ==
  /\ barrierPc = [q \in Rank |-> barrierPc[q]] /\ barrierPc' = [q \in Rank |-> barrierPc'[q]]
  /\ barrierEntered = [q \in Rank |-> barrierEntered[q]]
  /\ barrierEntered' = [q \in Rank |-> barrierEntered'[q]]
  /\ barrierChan = [q \in Rank |-> barrierChan[q]]
  /\ barrierChan' = [q \in Rank |-> barrierChan'[q]]
  /\ \A q \in Rank :
       /\ pc[q] = "barrier send" => barrierPc[q] = "send"
       /\ pc[q] = "barrier recv" => barrierPc[q] = "recv"
       /\ pc[q] \notin {"barrier send", "barrier recv"} => barrierPc[q] = "out"
       /\ pc'[q] = "barrier send" => barrierPc'[q] = "send"
       /\ pc'[q] = "barrier recv" => barrierPc'[q] = "recv"
       /\ pc'[q] \notin {"barrier send", "barrier recv"} => barrierPc'[q] = "out"
       /\ barrierEntered[q] = round[q] + (IF pc[q] = "out" THEN 0 ELSE 1)
       /\ barrierEntered'[q] = round'[q] + (IF pc'[q] = "out" THEN 0 ELSE 1)
       /\ barrierChan[q] = CountOn(stream, q, next(q), "TOKEN")
       /\ barrierChan'[q] = CountOn(stream', q, next(q), "TOKEN")
  BY DEF barrierPc, barrierEntered, barrierChan, CountOn

LEMMA ChanNat ==
  /\ CTypeOK => \A q \in Rank : barrierChan[q] \in Nat
  /\ CTypeOK' => \A q \in Rank : barrierChan'[q] \in Nat
  <1>1. ASSUME NEW s \in StreamType, NEW q \in Rank
        PROVE  CountOn(s, q, next(q), "TOKEN") \in Nat
    BY NextRank, CountOnType
  <1>2. (CTypeOK => stream \in StreamType) /\ (CTypeOK' => stream' \in StreamType)
    BY TypeParts DEF DataType
  <1> QED
    BY <1>1, <1>2, BarrierValues

\* What the other ranks have of the barrier does not change in a step of rank r
\* that leaves the tokens alone, but for its own.
LEMMA OthersStay ==
  ASSUME CTypeOK, NEW r \in Rank, RankStep(r) \/ Timeout(r)
  PROVE  \A q \in Rank : q # r => /\ barrierPc'[q] = barrierPc[q]
                                  /\ barrierEntered'[q] = barrierEntered[q]
  <1>1. ASSUME NEW q \in Rank, q # r
        PROVE  barrierPc'[q] = barrierPc[q] /\ barrierEntered'[q] = barrierEntered[q]
    <2>1. pc'[q] = pc[q] /\ round'[q] = round[q]
      BY <1>1, Elsewhere
    <2> QED
      BY <2>1 DEF barrierPc, barrierEntered
  <1> QED
    BY <1>1

LEMMA SameBarrier ==
  ASSUME CTypeOK, NEW r \in Rank, RankStep(r) \/ Timeout(r),
         barrierPc'[r] = barrierPc[r], barrierEntered'[r] = barrierEntered[r],
         \A q \in Rank : barrierChan'[q] = barrierChan[q]
  PROVE  UNCHANGED Barrier!vars
  <1>1. barrierPc' = [q \in Rank |-> barrierPc[q]]
        /\ barrierEntered' = [q \in Rank |-> barrierEntered[q]]
        /\ barrierChan' = [q \in Rank |-> barrierChan[q]]
    <2>1. \A q \in Rank : barrierPc'[q] = barrierPc[q] /\ barrierEntered'[q] = barrierEntered[q]
      BY OthersStay
    <2> QED
      BY <2>1, BarrierValues
  <1> QED
    BY <1>1, BarrierValues DEF Barrier!vars

\* The broadcasts, seen from the barrier.
LEMMA TokensStay ==
  ASSUME CInv, NEW r \in Rank, RankStep(r) \/ Timeout(r), ~SendToken(r), ~RecvToken(r)
  PROVE  \A q \in Rank : barrierChan'[q] = barrierChan[q]
  <1>0. CTypeOK /\ ProgramInv /\ LogInv /\ FromInv /\ stream \in StreamType
    BY Typed DEF CInv
  <1>1. ASSUME NEW m \in Message, NEW d \in Rank, NEW s \in StreamType, m.kind # "TOKEN",
               stream' = Queue(s, r, d, m),
               \A q \in Rank : CountOn(s, q, next(q), "TOKEN") = CountOn(stream, q, next(q), "TOKEN")
        PROVE  \A q \in Rank : barrierChan'[q] = barrierChan[q]
    <2>1. ASSUME NEW q \in Rank
          PROVE  barrierChan'[q] = barrierChan[q]
      <3>1. PICK n \in Rank : n = next(q)
        BY NextRank
      <3>2. CountOn(stream', q, n, "TOKEN") = CountOn(s, q, n, "TOKEN")
        BY <1>1, CountQueue, CountOnType
      <3>3. /\ barrierChan[q] = CountOn(stream, q, n, "TOKEN")
            /\ barrierChan'[q] = CountOn(stream', q, n, "TOKEN")
        BY <3>1, BarrierValues
      <3>4. CountOn(s, q, n, "TOKEN") = CountOn(stream, q, n, "TOKEN")
        BY <1>1, <3>1
      <3> QED
        BY <3>2, <3>3, <3>4
    <2> QED
      BY <2>1
  <1>2. ASSUME stream' = stream
        PROVE  \A q \in Rank : barrierChan'[q] = barrierChan[q]
    BY <1>2 DEF barrierChan
  <1>3. ASSUME Reading(r), Fits(r), pc[r] # "barrier recv", NEW q \in Rank
        PROVE  CountOn(Taken(r), q, next(q), "TOKEN") = CountOn(stream, q, next(q), "TOKEN")
    <2>1. PICK n \in Rank : n = next(q)
      BY NextRank
    <2>2. Head(Incoming(r)).kind # "TOKEN"
      BY <1>0, <1>3, Reads
    <2>3. CountOn(Taken(r), q, n, "TOKEN")
            = CountOn(stream, q, n, "TOKEN")
                - (IF q = Peer(r) /\ n = r /\ Head(Incoming(r)).kind = "TOKEN" THEN 1 ELSE 0)
      <3>1. CTypeOK /\ Reading(r) /\ Fits(r)
        BY <1>0, <1>3
      <3> QED
        BY <3>1, ReadCount
    <2>4. CountOn(stream, q, n, "TOKEN") \in Nat
      BY <1>0, CountOnType
    <2> QED
      <3>1. CountOn(Taken(r), q, n, "TOKEN") = CountOn(stream, q, n, "TOKEN")
        BY <2>2, <2>3, <2>4
      <3> QED
        BY <2>1, <3>1
  <1>4. ASSUME stream' = Taken(r),
                \A q \in Rank : CountOn(Taken(r), q, next(q), "TOKEN") = CountOn(stream, q, next(q), "TOKEN")
         PROVE  \A q \in Rank : barrierChan'[q] = barrierChan[q]
    <2>1. ASSUME NEW q \in Rank
          PROVE  barrierChan'[q] = barrierChan[q]
      <3>1. /\ barrierChan[q] = CountOn(stream, q, next(q), "TOKEN")
            /\ barrierChan'[q] = CountOn(stream', q, next(q), "TOKEN")
        BY BarrierValues
      <3>2. CountOn(stream', q, next(q), "TOKEN") = CountOn(Taken(r), q, next(q), "TOKEN")
        BY <1>4
      <3>3. CountOn(Taken(r), q, next(q), "TOKEN") = CountOn(stream, q, next(q), "TOKEN")
        BY <1>4
      <3> QED
        BY <3>1, <3>2, <3>3
    <2> QED
      BY <2>1
  <1>5. CASE EnterBarrier(r) \/ Garble(r) \/ SendFragment(r)
    <2>1. stream' = stream
      BY <1>5 DEF EnterBarrier, Garble, SendFragment
    <2> QED
      BY <1>2, <2>1
  <1>6. CASE RecvAnswer(r)
    <2>1. /\ Reading(r) /\ Fits(r) /\ pc[r] = "answers"
          /\ stream' = Reply(r, Head(Incoming(r)), Taken(r))
      BY <1>6 DEF RecvAnswer, Reading
    <2>2. /\ Taken(r) \in StreamType /\ Head(Incoming(r)) \in Message
          /\ Peer(r) \in Rank /\ Head(Incoming(r)).from = Peer(r)
      BY <1>0, <2>1, Reads, HeadFrom
    <2>3. \A q \in Rank :
            CountOn(Taken(r), q, next(q), "TOKEN") = CountOn(stream, q, next(q), "TOKEN")
      BY <1>3, <2>1
    <2>4. CASE stream' = Taken(r)
      BY <2>3, <2>4, <1>4
    <2>5. CASE stream' = Queue(Taken(r), r, Peer(r), Data(r))
      <3>1. Data(r) \in Message /\ Data(r).kind # "TOKEN"
        BY <1>0, Typed, MessageTypes
      <3> QED
        BY <1>1, <2>2, <2>3, <2>5, <3>1
    <2> QED
      BY <2>1, <2>2, <2>4, <2>5 DEF Reply
  <1>7. CASE Recvfrom(r)
    <2>1. Head(sock[r]).root \in Rank
      <3>1. Head(sock[r]) \in Packet
        BY <1>0, <1>7, Received
      <3> QED
        BY <3>1, Fields
    <2>2. Header("ACK", r) \in Message /\ Header("ACK", r).kind # "TOKEN"
      BY MessageTypes
    <2>3. stream' = stream \/ stream' = Queue(stream, r, Head(sock[r]).root, Header("ACK", r))
      BY <1>7 DEF Recvfrom
    <2> QED
      BY <1>0, <1>1, <1>2, <2>1, <2>2, <2>3
  <1>8. CASE RecvFallback(r)
    <2>1. Reading(r) /\ Fits(r) /\ pc[r] = "fallback" /\ stream' = Taken(r)
      BY <1>8 DEF RecvFallback, Reading
    <2>2. \A q \in Rank :
            CountOn(Taken(r), q, next(q), "TOKEN") = CountOn(stream, q, next(q), "TOKEN")
      BY <1>3, <2>1
    <2> QED
      BY <1>4, <2>1, <2>2
  <1>9. CASE SendAck(r)
    <2>1. stream' = Queue(stream, r, AckTo(r), Header("ACK", r))
      BY <1>9 DEF SendAck
    <2>2. AckTo(r) \in Rank /\ Header("ACK", r) \in Message /\ Header("ACK", r).kind # "TOKEN"
      BY DestinationTypes, MessageTypes
    <2> QED
      BY <1>0, <1>1, <2>1, <2>2
  <1>10. CASE Timeout(r)
    <2>1. stream' = stream \/ stream' = Queue(stream, r, Source(r), Header("NACK", r))
      BY <1>10 DEF Timeout
    <2>2. Source(r) \in Rank /\ Header("NACK", r) \in Message /\ Header("NACK", r).kind # "TOKEN"
      BY DestinationTypes, MessageTypes
    <2> QED
      BY <1>0, <1>1, <1>2, <2>1, <2>2
  <1> QED
    BY <1>5, <1>6, <1>7, <1>8, <1>9, <1>10 DEF RankStep

LEMMA BroadcastStutters ==
  ASSUME CInv, NEW r \in Rank, ~Garble(r),
         \/ SendFragment(r) \/ RecvAnswer(r) \/ Recvfrom(r) \/ Timeout(r) \/ RecvFallback(r)
         \/ SendAck(r)
  PROVE  UNCHANGED Barrier!vars
  <1>0. /\ CTypeOK /\ ControlType /\ (RankStep(r) \/ Timeout(r)) /\ round[r] \in Nat
    BY TypeParts, Typed, MaxBcastsAssumption DEF CInv, RankStep
  <1>1. /\ pc[r] \in {"send", "answers", "recv", "fallback", "ack"}
        /\ \/ pc'[r] = "out" /\ round'[r] = round[r] + 1
           \/ /\ pc'[r] \in {"send", "answers", "recv", "fallback", "ack"}
              /\ round'[r] = round[r]
    <2>1. CASE SendFragment(r)
      <3>1. pc[r] = "send" /\ (AfterSend(r) \/ GoOn(r, "send"))
        BY <2>1 DEF SendFragment
      <3> QED
        BY <1>0, <3>1 DEF AfterSend, Return, GoOn, ControlType
    <2>2. CASE RecvAnswer(r)
      <3>1. /\ pc[r] = "answers"
            /\ \/ Return(r)
               \/ /\ pc' = [pc EXCEPT ![r] = IF NaiveLinear THEN "send" ELSE "answers"]
                  /\ round' = round
        BY <2>2 DEF RecvAnswer
      <3> QED
        BY <1>0, <3>1 DEF Return, ControlType
    <2>3. CASE Recvfrom(r)
      <3>1. pc[r] = "recv" /\ (Return(r) \/ GoOn(r, "ack") \/ UNCHANGED <<pc, round>>)
        BY <2>3 DEF Recvfrom
      <3> QED
        BY <1>0, <3>1 DEF Return, GoOn, ControlType
    <2>4. CASE Timeout(r)
      <3>1. pc[r] = "recv" /\ (Return(r) \/ GoOn(r, "fallback"))
        BY <2>4 DEF Timeout
      <3> QED
        BY <1>0, <3>1 DEF Return, GoOn, ControlType
    <2>5. CASE RecvFallback(r)
      <3>1. pc[r] = "fallback" /\ GoOn(r, "ack")
        BY <2>5 DEF RecvFallback
      <3> QED
        BY <1>0, <3>1 DEF GoOn, ControlType
    <2>6. CASE SendAck(r)
      <3>1. pc[r] = "ack" /\ (Return(r) \/ GoOn(r, "send"))
        BY <2>6 DEF SendAck
      <3> QED
        BY <1>0, <3>1 DEF Return, GoOn, ControlType
    <2> QED
      BY <2>1, <2>2, <2>3, <2>4, <2>5, <2>6
  <1>2. barrierPc[r] = "out" /\ barrierPc'[r] = "out"
    BY <1>1, BarrierValues
  <1>3. barrierEntered'[r] = barrierEntered[r]
    <2>1. barrierEntered[r] = round[r] + 1
      BY <1>1 DEF barrierEntered
    <2>2. CASE pc'[r] = "out" /\ round'[r] = round[r] + 1
      <3>1. barrierEntered'[r] = round'[r] + 0
        BY <2>2 DEF barrierEntered
      <3> QED
        BY <1>0, <2>1, <2>2, <3>1
    <2>3. CASE pc'[r] # "out" /\ round'[r] = round[r]
      <3>1. barrierEntered'[r] = round'[r] + 1
        BY <2>3 DEF barrierEntered
      <3> QED
        BY <2>1, <2>3, <3>1
    <2> QED
      BY <1>1, <2>2, <2>3
  <1>4. ~SendToken(r) /\ ~RecvToken(r)
    BY <1>1 DEF SendToken, RecvToken
  <1>5. \A q \in Rank : barrierChan'[q] = barrierChan[q]
    BY <1>0, <1>4, TokensStay
  <1> QED
    BY <1>0, <1>2, <1>3, <1>5, SameBarrier

\* The three steps of the barrier.
LEMMA EnterBarrierRefines ==
  ASSUME CInv, NEW r \in Rank, EnterBarrier(r)
  PROVE  Barrier!Enter(r)
  <1>0. /\ CTypeOK /\ ControlType /\ RankStep(r)
        /\ round[r] \in Nat /\ round[r] <= MaxBcasts /\ MaxBcasts \in Nat
    BY TypeParts, MaxBcastsAssumption DEF CInv, RankStep, ControlType
  <1>1. /\ pc[r] = "out" /\ round'[r] = round[r] /\ stream' = stream
        /\ pc'[r] = IF r = 0 THEN "barrier send" ELSE "barrier recv"
    BY <1>0 DEF EnterBarrier, ControlType
  <1>2. /\ barrierPc[r] = "out" /\ barrierPc'[r] = IF r = 0 THEN "send" ELSE "recv"
        /\ barrierEntered[r] = round[r] + 0 /\ barrierEntered'[r] = round'[r] + 1
    BY <1>1 DEF barrierPc, barrierEntered
  <1>3. barrierPc' = [barrierPc EXCEPT ![r] = IF r = 0 THEN "send" ELSE "recv"]
    <2>1. barrierPc' = [barrierPc EXCEPT ![r] = barrierPc'[r]]
      BY <1>0, InOnePlace, BarrierValues, OthersStay
    <2> QED
      BY <1>2, <2>1
  <1>4. barrierEntered[r] = round[r] /\ barrierEntered'[r] = barrierEntered[r] + 1
    <2>1. round[r] \in Nat /\ round'[r] = round[r]
      BY <1>0, <1>1
    <2>2. barrierEntered[r] = round[r] + 0 /\ barrierEntered'[r] = round'[r] + 1
      BY <1>2
    <2> QED
      BY <2>1, <2>2
  <1>5. barrierEntered' = [barrierEntered EXCEPT ![r] = @ + 1]
    <2>1. barrierEntered' = [barrierEntered EXCEPT ![r] = barrierEntered'[r]]
      BY <1>0, InOnePlace, BarrierValues, OthersStay
    <2> QED
      BY <1>4, <2>1
  <1>6. barrierChan' = barrierChan
    BY <1>1 DEF barrierChan
  <1>7. barrierEntered[r] < MaxBcasts + 1
    BY <1>0, <1>4
  <1> QED
    BY <1>2, <1>3, <1>5, <1>6, <1>7 DEF Barrier!Enter

\* A step of the barrier that moves a token leaves the round alone.
LEMMA TokenSteps ==
  ASSUME CInv, NEW r \in Rank, SendToken(r) \/ RecvToken(r)
  PROVE  /\ barrierEntered' = barrierEntered
         /\ barrierPc' = [barrierPc EXCEPT ![r] = barrierPc'[r]]
         /\ SendToken(r) => /\ barrierPc[r] = "send"
                            /\ barrierPc'[r] = IF r = 0 THEN "recv" ELSE "out"
         /\ RecvToken(r) => /\ barrierPc[r] = "recv"
                            /\ barrierPc'[r] = IF r = 0 THEN "out" ELSE "send"
  <1>0. CTypeOK /\ ControlType /\ RankStep(r)
    BY TypeParts DEF CInv, RankStep
  <1>1. AfterBarrier(r) \in {"done", "send", "recv"}
    BY DEF AfterBarrier
  <1>2. /\ pc[r] \in {"barrier send", "barrier recv"} /\ pc'[r] # "out" /\ round'[r] = round[r]
        /\ SendToken(r) => /\ pc[r] = "barrier send"
                           /\ pc'[r] = IF r = 0 THEN "barrier recv" ELSE AfterBarrier(r)
        /\ RecvToken(r) => /\ pc[r] = "barrier recv"
                           /\ pc'[r] = IF r = 0 THEN AfterBarrier(r) ELSE "barrier send"
    BY <1>0, <1>1 DEF SendToken, RecvToken, AfterToken, ControlType
  <1>3. barrierEntered'[r] = barrierEntered[r]
    BY <1>2 DEF barrierEntered
  <1>4. \A q \in Rank : barrierEntered'[q] = barrierEntered[q]
    BY <1>0, <1>3, OthersStay
  <1>5. barrierEntered' = barrierEntered
    BY <1>4, BarrierValues
  <1>6. barrierPc' = [barrierPc EXCEPT ![r] = barrierPc'[r]]
    BY <1>0, InOnePlace, BarrierValues, OthersStay
  <1>7. SendToken(r) => /\ barrierPc[r] = "send"
                        /\ barrierPc'[r] = IF r = 0 THEN "recv" ELSE "out"
    BY <1>1, <1>2 DEF barrierPc
  <1>8. RecvToken(r) => /\ barrierPc[r] = "recv"
                        /\ barrierPc'[r] = IF r = 0 THEN "out" ELSE "send"
    BY <1>1, <1>2 DEF barrierPc
  <1> QED
    BY <1>5, <1>6, <1>7, <1>8

LEMMA SendTokenRefines ==
  ASSUME CInv, NEW r \in Rank, SendToken(r)
  PROVE  Barrier!Send(r)
  <1>0. CTypeOK /\ stream \in StreamType /\ RankStep(r)
    BY Typed DEF CInv, RankStep
  <1>1. PICK d \in Rank : d = next(r)
    BY NextRank
  <1>2. stream' = Queue(stream, r, d, Token(r))
    BY <1>1 DEF SendToken
  <1>3. Token(r) \in Message /\ Token(r).kind = "TOKEN"
    BY MessageTypes
  <1>4. ASSUME NEW q \in Rank
        PROVE  barrierChan'[q] = barrierChan[q] + (IF q = r THEN 1 ELSE 0)
    <2>1. PICK n \in Rank : n = next(q)
      BY NextRank
    <2>2. CountOn(stream', q, n, "TOKEN")
            = CountOn(stream, q, n, "TOKEN") + (IF q = r /\ n = d THEN 1 ELSE 0)
      BY <1>0, <1>2, <1>3, CountQueue
    <2>3. /\ barrierChan[q] = CountOn(stream, q, n, "TOKEN")
          /\ barrierChan'[q] = CountOn(stream', q, n, "TOKEN")
      BY <2>1, BarrierValues
    <2>4. q = r => n = d
      BY <1>1, <2>1
    <2> QED
      BY <2>2, <2>3, <2>4
  <1>5. \A q \in Rank : barrierChan[q] \in Nat
    BY <1>0, ChanNat
  <1>6. barrierChan' = [barrierChan EXCEPT ![r] = @ + 1]
    <2>1. barrierChan'[r] = barrierChan[r] + 1
      BY <1>4
    <2>2. \A q \in Rank : q # r => barrierChan'[q] = barrierChan[q]
      BY <1>4, <1>5
    <2>3. barrierChan' = [barrierChan EXCEPT ![r] = barrierChan'[r]]
      BY <2>2, InOnePlace, BarrierValues
    <2> QED
      BY <2>1, <2>3
  <1> QED
    BY <1>6, TokenSteps DEF Barrier!Send

LEMMA RecvTokenRefines ==
  ASSUME CInv, NEW r \in Rank, RecvToken(r)
  PROVE  Barrier!Recv(r)
  <1>0. CTypeOK /\ stream \in StreamType /\ RankStep(r)
    BY Typed DEF CInv, RankStep
  <1>1. PICK p \in Rank : p = prev(r)
    BY PrevRank
  <1>2. next(p) = r
    BY <1>1, NextRank, PrevRank, InRank, NAssumption
  <1>3. /\ Reading(r) /\ Fits(r) /\ stream' = Taken(r) /\ Peer(r) = p
        /\ Head(Incoming(r)).kind = "TOKEN"
    <2>1. Reading(r) /\ Fits(r) /\ stream' = Taken(r) /\ pc[r] = "barrier recv"
      BY DEF RecvToken, Reading
    <2> QED
      BY <1>0, <1>1, <2>1, Reads
  <1>4. ASSUME NEW q \in Rank
        PROVE  barrierChan'[q] = barrierChan[q] - (IF q = p THEN 1 ELSE 0)
    <2>1. PICK n \in Rank : n = next(q)
      BY NextRank
    <2>2. CountOn(Taken(r), q, n, "TOKEN")
            = CountOn(stream, q, n, "TOKEN")
                - (IF q = Peer(r) /\ n = r /\ Head(Incoming(r)).kind = "TOKEN" THEN 1 ELSE 0)
      <3>1. CTypeOK /\ Reading(r) /\ Fits(r)
        BY <1>0, <1>3
      <3> QED
        BY <3>1, ReadCount
    <2>3. /\ barrierChan[q] = CountOn(stream, q, n, "TOKEN")
          /\ barrierChan'[q] = CountOn(stream', q, n, "TOKEN")
      BY <2>1, BarrierValues
    <2>4. q = p => n = r
      BY <1>2, <2>1
    <2>5. CountOn(stream', q, n, "TOKEN") = CountOn(Taken(r), q, n, "TOKEN")
      BY <1>3
    <2> QED
      BY <1>3, <2>2, <2>3, <2>4, <2>5
  <1>5. \A q \in Rank : barrierChan[q] \in Nat /\ barrierChan'[q] \in Nat
    <2>1. CTypeOK'
      <3>1. CInv'
        BY <1>0, CStepInv DEF CNext
      <3> QED
        BY <3>1 DEF CInv
    <2> QED
      BY <1>0, <2>1, ChanNat
  <1>6. barrierChan'[p] = barrierChan[p] - 1 /\ barrierChan[p] > 0
    <2>1. barrierChan'[p] = barrierChan[p] - 1
      BY <1>4
    <2> QED
      BY <1>5, <2>1
  <1>7. barrierChan' = [barrierChan EXCEPT ![p] = @ - 1]
    <2>1. \A q \in Rank : q # p => barrierChan'[q] = barrierChan[q]
      BY <1>4, <1>5
    <2>2. barrierChan' = [barrierChan EXCEPT ![p] = barrierChan'[p]]
      BY <2>1, InOnePlace, BarrierValues
    <2> QED
      BY <1>6, <2>2
  <1>8. Barrier!prev(r) = p
    BY <1>1, SameBarrierRing
  <1> QED
    BY <1>6, <1>7, <1>8, TokenSteps DEF Barrier!Recv

LEMMA BarrierInit ==
  ASSUME CInit
  PROVE  Barrier!Init
  <1>1. /\ pc = [r \in Rank |-> "out"] /\ round = [r \in Rank |-> 0]
        /\ stream = [link \in Rank \X Rank |-> <<>>]
    BY DEF CInit
  <1>2. barrierPc = [r \in Rank |-> "out"] /\ barrierEntered = [r \in Rank |-> 0]
    BY <1>1 DEF barrierPc, barrierEntered
  <1>3. ASSUME NEW q \in Rank
        PROVE  Count(stream[Link(q, next(q))], "TOKEN") = 0
    BY <1>1, NextRank, CountEmpty DEF Link
  <1>4. barrierChan = [r \in Rank |-> 0]
    BY <1>3 DEF barrierChan
  <1> QED
    BY <1>2, <1>4, SameBarrierRing DEF Barrier!Init

LEMMA BarrierSteps ==
  ASSUME CInv, StreamsFramed', [CNext]_vars
  PROVE  [Barrier!Next]_(Barrier!vars)
  <1>1. CASE UNCHANGED vars
    BY <1>1 DEF vars, rankVars, Barrier!vars, barrierPc, barrierEntered, barrierChan
  <1>2. CASE DataPlane
    BY <1>2 DEF DataPlane, rankVars, Barrier!vars, barrierPc, barrierEntered, barrierChan
  <1>3. ASSUME NEW r \in Rank, RankStep(r) \/ Timeout(r)
        PROVE  [Barrier!Next]_(Barrier!vars)
    <2>1. ~Garble(r)
      <3>1. pc \in [Rank -> Labels]
        BY TypeParts DEF CInv, ControlType
      <3> QED
        BY <3>1 DEF Garble, StreamsFramed
    <2>2. CASE EnterBarrier(r) \/ SendToken(r) \/ RecvToken(r)
      <3>1. Barrier!Enter(r) \/ Barrier!Send(r) \/ Barrier!Recv(r)
        BY <2>2, EnterBarrierRefines, SendTokenRefines, RecvTokenRefines
      <3> QED
        BY <3>1, SameBarrierRing DEF Barrier!Next
    <2>3. CASE \/ SendFragment(r) \/ RecvAnswer(r) \/ Recvfrom(r) \/ Timeout(r)
               \/ RecvFallback(r) \/ SendAck(r)
      BY <2>1, <2>3, BroadcastStutters
    <2> QED
      BY <1>3, <2>1, <2>2, <2>3 DEF RankStep
  <1> QED
    BY <1>1, <1>2, <1>3 DEF CNext

\* As long as no read takes bytes of the wrong message, the ranks run the
\* barriers of RingBarrier between their broadcasts, whatever the broadcasts
\* leave on the same streams.
THEOREM BarriersRun == CSpec /\ []StreamsFramed => RunsTheBarriers
  <1>1. CInit => Barrier!Init
    BY BarrierInit
  <1>2. CInv /\ StreamsFramed' /\ [CNext]_vars => [Barrier!Next]_(Barrier!vars)
    BY BarrierSteps
  <1> QED
    BY <1>1, <1>2, CInvariance, PTL DEF CSpec, CSafety, RunsTheBarriers, Barrier!Safety

\* One payload in one datagram, and no receive that times out.
THEOREM BarriersCorrect ==
  ASSUME Fragments = 1, MaxTimeouts = 0
  PROVE  CSpec => RunsTheBarriers
  BY FramesCorrect, BarriersRun, PTL

\* The eager broadcast, with any number of datagrams, losses and timeouts.
THEOREM EagerBarriersCorrect ==
  ASSUME Algorithms = {"mpi_bcast_ring_xdp_eager"}
  PROVE  CSpec => RunsTheBarriers
  BY EagerFramesCorrect, BarriersRun, PTL
=============================================================================
