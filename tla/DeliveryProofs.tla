--------------------------- MODULE DeliveryProofs ---------------------------
(***************************************************************************)
(* Theorems about what the broadcasts deliver.                             *)
(*                                                                         *)
(* First, broadcast after broadcast over the XDP data plane, when the      *)
(* payload is one datagram and no receive times out: nothing of one        *)
(* broadcast is left when the next one starts, so every rank has its own   *)
(* content, every answer is read, and the promise of Broadcast is kept by  *)
(* each of the five.  Datagrams may be lost anywhere: the rank that misses *)
(* one waits for it, and holds up the barrier.                             *)
(*                                                                         *)
(* Then one broadcast with everything that can happen to it: fragments,    *)
(* losses, receives that time out, payloads over TCP.  A rank that returns *)
(* has the content, and a rank that the root returns without has it on its *)
(* stream from the root.                                                   *)
(*                                                                         *)
(* Last, that broadcast around the naive ring, where answers and payloads  *)
(* share their streams with the barrier and are still told apart.          *)
(***************************************************************************)
EXTENDS CollectivesProofs

-----------------------------------------------------------------------------
(* The barriers, as the ranks of Collectives run them.  These are the       *)
(* lemmas of RingBarrierProofs once more, for the mapped variables: tlapm   *)
(* does not let a proof cite the theorem of an instance.                    *)

LEMMA NextBarrierRank ==
  ASSUME NEW r \in Barrier!Rank
  PROVE  Barrier!next(r) = IF r = N-1 THEN 0 ELSE r + 1
  BY NAssumption DEF Barrier!next, Barrier!Rank

LEMMA PrevBarrierRank ==
  ASSUME NEW r \in Barrier!Rank
  PROVE  Barrier!prev(r) = IF r = 0 THEN N-1 ELSE r - 1
  BY NAssumption DEF Barrier!prev, Barrier!Rank

\* How the history counters of one rank are related: a call of the barrier is
\* one receive and one send, in the order of that rank.
LEMMA BarrierCounters ==
  ASSUME Barrier!TypeOK, Barrier!InCallEntered, NEW r \in Barrier!Rank
  PROVE  /\ Barrier!sent[r] \in Nat /\ Barrier!recvd[r] \in Nat /\ barrierEntered[r] \in Nat
         /\ Barrier!sent[r] <= barrierEntered[r] /\ barrierEntered[r] <= Barrier!recvd[r] + 1
         /\ r # 0 => Barrier!sent[r] <= Barrier!recvd[r] /\ Barrier!left[r] = Barrier!sent[r]
         /\ r = 0 => /\ Barrier!recvd[r] <= Barrier!sent[r] /\ Barrier!sent[r] <= Barrier!recvd[r] + 1
                     /\ Barrier!left[r] = Barrier!recvd[r]
  BY MaxBcastsAssumption DEF Barrier!TypeOK, Barrier!InCallEntered, Barrier!sent, Barrier!recvd, Barrier!left

-----------------------------------------------------------------------------

LEMMA BarrierInitInv == Barrier!Init => Barrier!IInv
  <1> SUFFICES ASSUME Barrier!Init PROVE Barrier!IInv
    OBVIOUS
  <1>1. Barrier!TypeOK /\ Barrier!InCallEntered
    BY MaxBcastsAssumption DEF Barrier!Init, Barrier!TypeOK, Barrier!InCallEntered
  <1>2. \A r \in Barrier!Rank : Barrier!sent[r] = 0 /\ Barrier!recvd[r] = 0
    BY DEF Barrier!Init, Barrier!sent, Barrier!recvd
  <1>3. \A r \in Barrier!Rank : Barrier!next(r) \in Barrier!Rank
    BY NextBarrierRank, NAssumption DEF Barrier!Rank
  <1>4. 0 \in Barrier!Rank
    BY NAssumption DEF Barrier!Rank
  <1>5. Barrier!StreamsCount
    BY <1>2, <1>3 DEF Barrier!StreamsCount, Barrier!Init
  <1>6. Barrier!DownTheRing
    BY <1>2, <1>4 DEF Barrier!DownTheRing
  <1> QED
    BY <1>1, <1>5, <1>6 DEF Barrier!IInv

LEMMA BarrierEnterPreserves ==
  ASSUME Barrier!IInv, NEW r \in Barrier!Rank, Barrier!Enter(r)
  PROVE  Barrier!IInv'
  <1> USE DEF Barrier!IInv
  <1>1. Barrier!TypeOK' /\ Barrier!InCallEntered'
    BY MaxBcastsAssumption DEF Barrier!TypeOK, Barrier!InCallEntered, Barrier!Enter
  <1>2. \A q \in Barrier!Rank : Barrier!sent'[q] = Barrier!sent[q] /\ Barrier!recvd'[q] = Barrier!recvd[q]
    BY MaxBcastsAssumption DEF Barrier!TypeOK, Barrier!Enter, Barrier!sent, Barrier!recvd
  <1>3. \A q \in Barrier!Rank : Barrier!next(q) \in Barrier!Rank
    BY NextBarrierRank, NAssumption DEF Barrier!Rank
  <1>4. Barrier!StreamsCount'
    BY <1>2, <1>3 DEF Barrier!StreamsCount, Barrier!Enter
  <1>5. Barrier!DownTheRing'
    BY <1>2, NAssumption DEF Barrier!DownTheRing, Barrier!Rank
  <1> QED
    BY <1>1, <1>4, <1>5

LEMMA BarrierSendPreserves ==
  ASSUME Barrier!IInv, NEW r \in Barrier!Rank, Barrier!Send(r)
  PROVE  Barrier!IInv'
  <1> USE DEF Barrier!IInv
  <1>1. Barrier!TypeOK' /\ Barrier!InCallEntered'
    BY DEF Barrier!TypeOK, Barrier!InCallEntered, Barrier!Send
  <1>2. \A q \in Barrier!Rank : /\ Barrier!sent'[q] = IF q = r THEN Barrier!sent[q] + 1 ELSE Barrier!sent[q]
                        /\ Barrier!recvd'[q] = Barrier!recvd[q]
    BY MaxBcastsAssumption DEF Barrier!TypeOK, Barrier!Send, Barrier!sent, Barrier!recvd
  <1>3. \A q \in Barrier!Rank : Barrier!sent[q] \in Nat /\ Barrier!recvd[q] \in Nat
    BY BarrierCounters
  <1>4. \A q \in Barrier!Rank : Barrier!next(q) \in Barrier!Rank
    BY NextBarrierRank, NAssumption DEF Barrier!Rank
  <1>5. Barrier!StreamsCount'
    BY <1>2, <1>3, <1>4 DEF Barrier!StreamsCount, Barrier!Send, Barrier!TypeOK
  <1>6. Barrier!DownTheRing'
    BY <1>2, <1>3, NAssumption DEF Barrier!DownTheRing, Barrier!Rank
  <1> QED
    BY <1>1, <1>5, <1>6

LEMMA BarrierRecvPreserves ==
  ASSUME Barrier!IInv, NEW r \in Barrier!Rank, Barrier!Recv(r)
  PROVE  Barrier!IInv'
  <1> USE DEF Barrier!IInv
  <1>0. /\ \A q \in Barrier!Rank : Barrier!next(q) \in Barrier!Rank /\ (Barrier!next(q) = r <=> q = Barrier!prev(r))
        /\ Barrier!prev(r) \in Barrier!Rank
    BY NextBarrierRank, PrevBarrierRank, NAssumption DEF Barrier!Rank
  <1>1. Barrier!TypeOK' /\ Barrier!InCallEntered'
    BY <1>0 DEF Barrier!TypeOK, Barrier!InCallEntered, Barrier!Recv
  <1>2. \A q \in Barrier!Rank : /\ Barrier!recvd'[q] = IF q = r THEN Barrier!recvd[q] + 1 ELSE Barrier!recvd[q]
                        /\ Barrier!sent'[q] = Barrier!sent[q]
    BY MaxBcastsAssumption DEF Barrier!TypeOK, Barrier!Recv, Barrier!sent, Barrier!recvd
  <1>3. \A q \in Barrier!Rank : Barrier!sent[q] \in Nat /\ Barrier!recvd[q] \in Nat
    BY BarrierCounters
  <1>4. Barrier!StreamsCount'
    BY <1>0, <1>2, <1>3 DEF Barrier!StreamsCount, Barrier!Recv, Barrier!TypeOK
  <1>5. Barrier!sent[Barrier!prev(r)] >= Barrier!recvd[r] + 1
    BY <1>0, <1>3 DEF Barrier!StreamsCount, Barrier!Recv, Barrier!TypeOK
  <1>6. \A q \in Barrier!Rank : q # 0 => Barrier!recvd[q] >= Barrier!sent[q]
    BY BarrierCounters
  <1>7. ASSUME NEW q \in Barrier!Rank, q < r \/ r = 0
        PROVE  Barrier!sent[q] >= Barrier!recvd[r] + 1
    <2>1. q = Barrier!prev(r) \/ (Barrier!prev(r) # 0 /\ q < Barrier!prev(r))
      BY <1>7, PrevBarrierRank, NAssumption DEF Barrier!Rank
    <2>2. CASE q = Barrier!prev(r)
      BY <2>2, <1>5
    <2>3. CASE Barrier!prev(r) # 0 /\ q < Barrier!prev(r)
      BY <2>3, <1>0, <1>3, <1>5, <1>6 DEF Barrier!DownTheRing
    <2> QED
      BY <2>1, <2>2, <2>3
  <1>8. Barrier!DownTheRing'
    BY <1>2, <1>3, <1>7, NAssumption DEF Barrier!DownTheRing, Barrier!Rank
  <1> QED
    BY <1>1, <1>4, <1>8

\* What the counters say of every rank, whatever the rank: they lie between
\* what rank 0 has received and what it has sent.
LEMMA BetweenRootCounters ==
  ASSUME Barrier!IInv, NEW r \in Barrier!Rank
  PROVE  /\ Barrier!recvd[0] \in Nat /\ Barrier!sent[0] \in Nat /\ Barrier!sent[0] <= Barrier!recvd[0] + 1
         /\ Barrier!sent[r] \in Nat /\ Barrier!recvd[r] \in Nat
         /\ Barrier!recvd[0] <= Barrier!sent[r] /\ Barrier!recvd[0] <= Barrier!recvd[r]
         /\ Barrier!sent[r] <= Barrier!sent[0] /\ Barrier!recvd[r] <= Barrier!sent[0]
  <1>1. 0 \in Barrier!Rank
    BY NAssumption DEF Barrier!Rank
  <1>2. CASE r = 0
    BY <1>1, <1>2, BarrierCounters DEF Barrier!IInv
  <1>3. CASE r # 0
    <2>1. 0 < r
      BY <1>3, NAssumption DEF Barrier!Rank
    <2>2. Barrier!recvd[r] <= Barrier!sent[0] /\ Barrier!recvd[0] <= Barrier!sent[r]
      BY <1>1, <2>1, BarrierCounters DEF Barrier!IInv, Barrier!DownTheRing
    <2> QED
      BY <1>1, <1>3, <2>2, BarrierCounters DEF Barrier!IInv
  <1> QED
    BY <1>2, <1>3

-----------------------------------------------------------------------------

LEMMA BarrierStepInv ==
  ASSUME CInv, Barrier!IInv, StreamsFramed', [CNext]_vars
  PROVE  Barrier!IInv'
  <1>1. Barrier!Next \/ UNCHANGED Barrier!vars
    BY BarrierSteps
  <1>2. CASE Barrier!Next
    BY <1>2, BarrierEnterPreserves, BarrierSendPreserves, BarrierRecvPreserves DEF Barrier!Next
  <1>3. CASE UNCHANGED Barrier!vars
    BY <1>3 DEF Barrier!vars, Barrier!IInv, Barrier!TypeOK, Barrier!InCallEntered,
                Barrier!StreamsCount, Barrier!DownTheRing, Barrier!sent, Barrier!recvd
  <1> QED
    BY <1>1, <1>2, <1>3

\* The root leaves every barrier last, told in the rounds of the ranks.
Left(r) == round[r] + IF InBarrier(r) THEN 0 ELSE 1

RootLeftLast == \A r \in Rank : Left(root) <= Left(r)

LEMMA RootLeaves == CTypeOK /\ Barrier!IInv => RootLeftLast
  <1> SUFFICES ASSUME CTypeOK, Barrier!IInv
               PROVE  \A r \in Rank : Left(root) <= Left(r)
    BY DEF RootLeftLast
  <1>1. ASSUME NEW r \in Rank
        PROVE  Barrier!left[r] = Left(r)
    <2>1. round[r] \in Nat /\ r \in Barrier!Rank
      BY TypeParts, MaxBcastsAssumption, SameBarrierRing DEF ControlType
    <2>2. barrierEntered[r] = round[r] + (IF pc[r] = "out" THEN 0 ELSE 1)
      BY BarrierValues
    <2>3. barrierPc[r] = "out" <=> pc[r] \notin {"barrier send", "barrier recv"}
      BY DEF barrierPc
    <2>4. Barrier!left[r] = IF barrierPc[r] = "out" THEN barrierEntered[r] ELSE barrierEntered[r] - 1
      BY <2>1 DEF Barrier!left
    <2>5. CASE pc[r] = "out"
      BY <2>1, <2>2, <2>3, <2>4, <2>5 DEF Left, InBarrier
    <2>6. CASE pc[r] \in {"barrier send", "barrier recv"}
      <3>1. barrierPc[r] # "out" /\ pc[r] # "out" /\ InBarrier(r)
        BY <2>3, <2>6 DEF InBarrier
      <3>2. barrierEntered[r] = round[r] + 1 /\ Left(r) = round[r] + 0
        BY <2>2, <3>1 DEF Left
      <3>3. Barrier!left[r] = barrierEntered[r] - 1
        BY <2>4, <3>1
      <3> QED
        BY <2>1, <3>2, <3>3
    <2>7. CASE ~InBarrier(r)
      BY <2>1, <2>2, <2>3, <2>4, <2>7 DEF Left, InBarrier
    <2> QED
      BY <2>5, <2>6, <2>7 DEF InBarrier
  <1>2. ASSUME NEW r \in Barrier!Rank
        PROVE  Barrier!left[0] <= Barrier!left[r]
    <2>1. 0 \in Barrier!Rank
      BY NAssumption DEF Barrier!Rank
    <2> QED
      BY <2>1, BarrierCounters, BetweenRootCounters DEF Barrier!IInv
  <1>3. root \in Rank /\ root = 0
    BY TheRoot DEF root
  <1> QED
    BY <1>1, <1>2, <1>3, SameBarrierRing

\* What a run has chosen, and once lost, it keeps.
LEMMA Chosen ==
  ASSUME CInv, [CNext]_vars
  PROVE  /\ algo' = algo /\ plane' = plane
         /\ timeouts \in Nat /\ timeouts' \in Nat /\ timeouts' >= timeouts
         /\ Quiet' => Quiet
         /\ Plain' => Plain
  <1>0. CTypeOK /\ timeouts \in Nat
    BY TypeParts, MaxTimeoutsAssumption DEF CInv, DataType
  <1>1. /\ algo' = algo /\ plane' = plane /\ timeouts' \in Nat /\ timeouts' >= timeouts
    <2>1. CASE UNCHANGED vars \/ DataPlane
      BY <1>0, <2>1 DEF vars, DataPlane, rankVars
    <2>2. ASSUME NEW r \in Rank, RankStep(r) \/ Timeout(r)
          PROVE  algo' = algo /\ plane' = plane /\ timeouts' \in Nat /\ timeouts' >= timeouts
      BY <1>0, <2>2, Elsewhere
    <2> QED
      BY <2>1, <2>2 DEF CNext
  <1>2. timeouts' = 0 => timeouts = 0
    BY <1>0, <1>1
  <1> QED
    BY <1>0, <1>1, <1>2 DEF Quiet, Plain, Eager, RecvAcks

-----------------------------------------------------------------------------
(* What is due over the XDP data plane.                                     *)

\* A packet makes way for what it becomes, and may be queued.
LEMMA DueReplace ==
  ASSUME TypeOK, DueInv, NEW p \in net, NEW S, net' = (net \ {p}) \cup S,
         \A s \in S : /\ WellFormed(s) /\ s.op = p.op /\ s.dst # root /\ s.id = p.id
                      /\ Claim(s) \subseteq Claim(p),
         \A s, t \in S : s # t => Claim(s) \cap Claim(t) = {},
         \/ sock' = sock
         \/ /\ sock' = [sock EXCEPT ![p.port] = Append(@, p)]
            /\ p.port \in Claim(p)
            /\ \A s \in S : p.port \notin Claim(s),
         log' = log, UNCHANGED rankVars
  PROVE  DueInv'
  <1>1. /\ p \in Packet /\ WellFormed(p) /\ p.port \in Rank /\ p.op = Opcode
        /\ sock \in [Rank -> Seq(Packet)]
    BY Fields DEF TypeOK, DueInv
  <1>2. /\ \A q : WellFormed(q)' <=> WellFormed(q)
        /\ \A r, q : Due(r, q)' <=> Due(r, q)
        /\ Opcode' = Opcode
    BY DEF rankVars, WellFormed, Due, SentTo, Got, Sender, NaiveRing, NaiveLinear, Opcode
  <1>3. \A q \in net' : WellFormed(q)' /\ q.op = Opcode' /\ q.dst # root
    BY <1>1, <1>2 DEF DueInv
  <1>4. \A a, b \in net' : a # b => Claim(a) \cap Claim(b) = {}
    <2> SUFFICES ASSUME NEW a \in net', NEW b \in net', a # b
                 PROVE  Claim(a) \cap Claim(b) = {}
      OBVIOUS
    <2>1. CASE a \in S /\ b \in S
      BY <2>1
    <2>2. CASE a \in S /\ b \in net \ {p}
      BY <2>2 DEF DueInv
    <2>3. CASE a \in net \ {p} /\ b \in S
      BY <2>3 DEF DueInv
    <2>4. CASE a \in net \ {p} /\ b \in net \ {p}
      BY <2>4 DEF DueInv
    <2> QED
      BY <2>1, <2>2, <2>3, <2>4
  <1>5. ASSUME NEW q \in net', NEW r \in Claim(q)
        PROVE  r # root /\ sock'[r] = <<>> /\ Due(r, q)'
    <2>1. PICK o \in net : o.id = q.id /\ r \in Claim(o) /\ (o = p \/ o = q)
      <3>1. CASE q \in S
        BY <3>1
      <3>2. CASE q \in net \ {p}
        BY <3>2
      <3> QED
        BY <3>1, <3>2
    <2>2. o \in Packet /\ WellFormed(o)
      BY DEF TypeOK, DueInv
    <2>3. r \in Rank
      BY <2>1, <2>2, ClaimInRank
    <2>4. r # root /\ sock[r] = <<>> /\ Due(r, o)
      BY <2>1 DEF DueInv
    <2>5. Due(r, q)'
      BY <1>2, <2>1, <2>4 DEF Due
    <2>6. sock'[r] = <<>>
      <3>1. CASE sock' = sock
        BY <2>4, <3>1
      <3>2. CASE /\ sock' = [sock EXCEPT ![p.port] = Append(@, p)]
                 /\ p.port \in Claim(p)
                 /\ \A s \in S : p.port \notin Claim(s)
        <4>1. r # p.port
          <5> SUFFICES ASSUME r = p.port
                       PROVE  FALSE
            OBVIOUS
          <5>1. q \in net /\ q # p
            BY <3>2
          <5> QED
            BY <3>2, <5>1 DEF DueInv
        <4> QED
          BY <1>1, <2>3, <2>4, <3>2, <4>1, Queued
      <3> QED
        BY <3>1, <3>2
    <2> QED
      BY <2>4, <2>5, <2>6
  <1>6. loads' = loads /\ \A r : SentTo(r)' = SentTo(r) /\ Got(r)' = Got(r)
    BY DEF rankVars, SentTo, Got, Sender, NaiveRing, NaiveLinear
  <1>7. ASSUME NEW r \in Receiver, sock'[r] # <<>>
        PROVE  Len(sock'[r]) = 1 /\ Due(r, Head(sock[r]))'
    <2>1. CASE sock'[r] = sock[r]
      <3>1. Len(sock[r]) = 1 /\ Due(r, Head(sock[r]))
        BY <1>7, <2>1 DEF DueInv
      <3>2. loads[Head(sock[r]).id].content = SentTo(r) /\ Got(r) = SentTo(r) - 1
        BY <3>1 DEF Due
      <3> QED
        BY <2>1, <3>1, <3>2, <1>6 DEF Due
    <2>2. CASE sock'[r] # sock[r]
      <3>1. /\ sock' = [sock EXCEPT ![p.port] = Append(@, p)]
            /\ p.port \in Claim(p)
        BY <2>2
      <3>2. r = p.port
        BY <1>1, <2>2, <3>1, TheRoot
      <3>3. sock[r] = <<>> /\ Due(r, p)
        BY <3>1, <3>2 DEF DueInv
      <3>4. sock'[r] = Append(<<>>, p)
        BY <1>1, <3>1, <3>2, <3>3
      <3>5. Len(sock'[r]) = 1 /\ Head(sock'[r]) = p
        BY <3>4
      <3> QED
        BY <1>6, <3>3, <3>5 DEF Due
    <2> QED
      BY <2>1, <2>2
  <1> QED
    BY <1>3, <1>4, <1>5, <1>7 DEF DueInv

\* A step of the data plane: one packet makes way for what it becomes, which
\* shares its claim among itself, and may be queued.
LEMMA ForwardMoves ==
  ASSUME TypeOK, \A q \in net : WellFormed(q), Forward
  PROVE  /\ log' = log
         /\ \E p \in net : \E S \in SUBSET Packet :
              /\ net' = (net \ {p}) \cup S
              /\ \A s \in S : /\ WellFormed(s) /\ s.op = p.op /\ s.root = p.root /\ s.id = p.id
                              /\ Claim(s) \subseteq Claim(p)
                              /\ s.dst = p.dst \/ (s.dst \in Claim(p) /\ p.op # "MPI_SEND")
              /\ \A s, t \in S : s # t => Claim(s) \cap Claim(t) = {}
              /\ \/ sock' = sock
                 \/ /\ sock' = [sock EXCEPT ![p.port] = Append(@, p)]
                    /\ p.port \in Claim(p)
                    /\ \A s \in S : p.port \notin Claim(s)
  <1>2. PICK p \in net : Mirror(p) \/ HandleOriginal(p) \/ HandleClone(p) \/ Lose(p)
    BY DEF Forward
  <1>3. p \in Packet /\ WellFormed(p)
    BY DEF TypeOK
  <1> DEFINE Becomes(S) ==
               /\ net' = (net \ {p}) \cup S
               /\ \A s \in S : /\ WellFormed(s) /\ s.op = p.op /\ s.root = p.root /\ s.id = p.id
                               /\ Claim(s) \subseteq Claim(p)
                               /\ s.dst = p.dst \/ (s.dst \in Claim(p) /\ p.op # "MPI_SEND")
               /\ \A s, t \in S : s # t => Claim(s) \cap Claim(t) = {}
               /\ \/ sock' = sock
                  \/ /\ sock' = [sock EXCEPT ![p.port] = Append(@, p)]
                     /\ p.port \in Claim(p)
                     /\ \A s \in S : p.port \notin Claim(s)
  <1>4. CASE Mirror(p)
    <2> DEFINE S == IF p.saddr = "MAESTRALE_IP" THEN {Mirrored(p)} ELSE {}
    <2>1. p.at = "cable" /\ net' = (net \ {p}) \cup S /\ sock' = sock /\ log' = log
      BY <1>4 DEF Mirror
    <2>2. ASSUME NEW s \in S
          PROVE  /\ s = Mirrored(p) /\ WellFormed(s) /\ s.op = p.op /\ s.root = p.root
                 /\ s.dst = p.dst /\ s.id = p.id /\ Claim(s) \subseteq Claim(p) /\ s \in Packet
      <3>1. s = Mirrored(p)
        OBVIOUS
      <3> QED
        BY <1>3, <2>1, <3>1, MirroredWellFormed, MirroredFields, ClaimOfMirrored
    <2>3. \A s, t \in S : s = t
      BY <2>2
    <2>4. S \in SUBSET Packet
      BY <2>2
    <2> HIDE DEF S
    <2>5. Becomes(S)
      BY <2>1, <2>2, <2>3
    <2> QED
      BY <2>1, <2>4, <2>5
  <1>5. CASE Lose(p)
    <2> DEFINE S == {}
    <2>1. net' = (net \ {p}) \cup S /\ sock' = sock /\ log' = log
      BY <1>5 DEF Lose
    <2>2. S \in SUBSET Packet /\ \A s : s \notin S
      OBVIOUS
    <2> HIDE DEF S
    <2>3. Becomes(S)
      BY <2>1, <2>2
    <2> QED
      BY <2>1, <2>2, <2>3
  <1>6. CASE HandleOriginal(p)
    <2> DEFINE S == Copies(p, handle_original(p))
    <2>1. p.at = "nic" /\ net' = (net \ {p}) \cup S /\ log' = log
      BY <1>6 DEF HandleOriginal
    <2>2. sock' = sock \/ sock' = [sock EXCEPT ![p.port] = Append(@, p)]
      BY <1>6 DEF HandleOriginal, ToSocket
    <2>3. p.port = p.dst /\ p.port \in Claim(p)
      BY <1>3, <2>1, ClaimsItsRank DEF WellFormed
    <2>4. ASSUME NEW s \in S
          PROVE  /\ WellFormed(s) /\ s.op = p.op /\ s.root = p.root /\ s.dst = p.dst
                 /\ s.id = p.id /\ s \in Packet
                 /\ Claim(s) \subseteq Claim(p) /\ p.port \notin Claim(s)
      BY <1>3, <2>1, <2>3, CopyWellFormed, ClaimOfCopy
    <2>5. \A s, t \in S : s # t => Claim(s) \cap Claim(t) = {}
      BY <1>3, <2>1, CopiesApart
    <2>6. S \in SUBSET Packet
      BY <2>4
    <2> HIDE DEF S
    <2>7. Becomes(S)
      BY <2>1, <2>2, <2>3, <2>4, <2>5
    <2> QED
      BY <2>1, <2>6, <2>7
  <1>7. CASE HandleClone(p)
    <2> DEFINE S == handle_clone(p)
    <2>1. p.at = "copy" /\ net' = (net \ {p}) \cup S /\ sock' = sock /\ log' = log
      BY <1>7 DEF HandleClone
    <2>2. ASSUME NEW s \in S
          PROVE  /\ WellFormed(s) /\ s.op = p.op /\ s.root = p.root /\ s.id = p.id
                 /\ s \in Packet /\ Claim(s) \subseteq Claim(p) /\ s = Rewritten(p, Hop(p))
                 /\ s.dst \in Claim(p) /\ p.op # "MPI_SEND"
      <3>1. /\ WellFormed(s) /\ s.op = p.op /\ s.root = p.root /\ s.dst = Hop(p) /\ s.id = p.id
            /\ s.at = "cable" /\ p.op # "MPI_SEND"
        BY <1>3, <2>1, HopWellFormed
      <3>2. s \in Packet /\ Claim(s) \subseteq Claim(p) /\ s = Rewritten(p, Hop(p))
        BY <1>3, <2>1, ClaimOfHop
      <3>3. s.dst \in Claim(p)
        BY <3>1, <3>2, ClaimsItsRank
      <3> QED
        BY <3>1, <3>2, <3>3
    <2>3. \A s, t \in S : s = t
      BY <2>2
    <2>4. S \in SUBSET Packet
      BY <2>2
    <2> HIDE DEF S
    <2>5. Becomes(S)
      BY <2>1, <2>2, <2>3
    <2> QED
      BY <2>1, <2>4, <2>5
  <1> QED
    BY <1>2, <1>4, <1>5, <1>6, <1>7

LEMMA DuePlaneStep ==
  ASSUME CInv, Plain, DueInv, DataPlane
  PROVE  DueInv'
  <1>1. TypeOK /\ Forward /\ UNCHANGED rankVars /\ \A q \in net : WellFormed(q)
    BY TypeParts DEF CInv, DataPlane, Plain, DueInv
  <1>2. log' = log
    BY <1>1, ForwardMoves
  <1>3. PICK p \in net, S \in SUBSET Packet :
          /\ net' = (net \ {p}) \cup S
          /\ \A s \in S : /\ WellFormed(s) /\ s.op = p.op /\ s.root = p.root /\ s.id = p.id
                          /\ Claim(s) \subseteq Claim(p)
                          /\ s.dst = p.dst \/ (s.dst \in Claim(p) /\ p.op # "MPI_SEND")
          /\ \A s, t \in S : s # t => Claim(s) \cap Claim(t) = {}
          /\ \/ sock' = sock
             \/ /\ sock' = [sock EXCEPT ![p.port] = Append(@, p)]
                /\ p.port \in Claim(p)
                /\ \A s \in S : p.port \notin Claim(s)
    BY <1>1, ForwardMoves
  <1>4. p.dst # root /\ \A r \in Claim(p) : r # root
    BY DEF DueInv
  <1>5. \A s \in S : /\ WellFormed(s) /\ s.op = p.op /\ s.dst # root /\ s.id = p.id
                     /\ Claim(s) \subseteq Claim(p)
    BY <1>3, <1>4
  <1> QED
    BY <1>1, <1>2, <1>3, <1>5, DueReplace

-----------------------------------------------------------------------------
(* What is received and what is sent.                                       *)

LEMMA Regime ==
  ASSUME CInv, Plain
  PROVE  /\ CTypeOK /\ ControlType /\ DataType /\ TypeOK /\ ProgramInv /\ LogInv /\ FrameInv
         /\ Quiet /\ ~RecvAcks /\ Fragments = 1 /\ timeouts = 0
         /\ \A r \in Rank :
              /\ pc[r] \in {"out", "barrier send", "barrier recv", "send", "answers", "recv",
                            "ack", "done"}
              /\ round[r] \in Nat /\ peer[r] \in 1 .. N-1 /\ seq[r] = 0
              /\ buf[r] \in Int /\ acks[r] \in Nat
  <1>1. /\ CTypeOK /\ ControlType /\ DataType /\ TypeOK /\ ProgramInv /\ LogInv
        /\ Fragments = 1 /\ timeouts = 0
    BY TypeParts DEF CInv, Plain
  <1>2. ~RecvAcks
    BY <1>1 DEF RecvAcks
  <1>3. Quiet /\ FrameInv
    BY <1>1, <1>2 DEF CInv, Quiet
  <1>4. ASSUME NEW r \in Rank
        PROVE  /\ pc[r] \in {"out", "barrier send", "barrier recv", "send", "answers", "recv",
                             "ack", "done"}
               /\ round[r] \in Nat /\ peer[r] \in 1 .. N-1 /\ seq[r] = 0
               /\ buf[r] \in Int /\ acks[r] \in Nat
    <2>1. pc[r] \in Labels /\ pc[r] # "garbled"
      BY <1>1, <1>3 DEF ControlType, FrameInv, StreamsFramed
    <2>2. pc[r] # "fallback"
      BY <1>1 DEF ProgramInv
    <2>3. round[r] \in Nat /\ peer[r] \in 1 .. N-1
      BY <1>1, MaxBcastsAssumption DEF ControlType
    <2>4. seq[r] \in 0 .. 0 /\ buf[r] \in Int /\ acks[r] \in Nat
      BY <1>1, MaxBcastsAssumption DEF DataType
    <2>5. seq[r] = 0
      BY <2>4
    <2>6. pc[r] \in {"out", "barrier send", "barrier recv", "send", "answers", "recv",
                     "ack", "done"}
      BY <2>1, <2>2 DEF Labels
    <2> QED
      BY <2>3, <2>4, <2>5, <2>6
  <1> QED
    BY <1>1, <1>2, <1>3, <1>4

LEMMA Senders ==
  ASSUME NEW r \in Receiver
  PROVE  /\ r \in Rank /\ r # root /\ r \in 1 .. N-1 /\ Sender(r) \in Rank
         /\ Sender(r) # root => NaiveRing
         /\ NaiveRing => next(Sender(r)) = r
         /\ NaiveLinear => Sender(r) = root
  <1>1. r \in Rank /\ r # root /\ r \in 1 .. N-1
    BY TheRoot
  <1>2. prev(r) \in Rank /\ next(prev(r)) = r
    BY <1>1, NextRank, PrevRank, InRank, NAssumption
  <1> QED
    BY <1>1, <1>2, TheRoot, AlgorithmsApart DEF Sender

LEMMA CountTypes ==
  ASSUME CInv, NEW r \in Rank
  PROVE  Got(r) \in Nat /\ SentTo(r) \in Nat /\ round[r] <= Got(r) /\ Got(r) <= round[r] + 1
  <1>1. Sender(r) \in Rank
    BY PrevRank, TheRoot DEF Sender
  <1>2. round[r] \in Nat /\ round[Sender(r)] \in Nat
    BY <1>1, TypeParts, MaxBcastsAssumption DEF CInv, ControlType
  <1> QED
    BY <1>2 DEF Got, SentTo

\* What has been sent to a receiver, for each of the ways to send it.
LEMMA SentToIs ==
  ASSUME NEW r \in Receiver
  PROVE  /\ NaiveLinear =>
              SentTo(r) = round[root] + (IF \/ pc[root] = "answers" /\ r <= peer[root]
                                            \/ r < peer[root] THEN 1 ELSE 0)
         /\ ~NaiveLinear =>
              SentTo(r) = round[Sender(r)] + (IF pc[Sender(r)] = "answers" THEN 1 ELSE 0)
  BY Senders DEF SentTo

\* The steps that neither send nor receive a datagram.
LEMMA AsideStep ==
  ASSUME CInv, Plain, NEW q \in Rank,
         EnterBarrier(q) \/ SendToken(q) \/ RecvToken(q) \/ RecvAnswer(q) \/ SendAck(q)
  PROVE  \/ /\ round'[q] = round[q] /\ peer'[q] = peer[q]
            /\ pc[q] \notin {"ack", "answers"} /\ pc'[q] \notin {"ack", "answers"}
            /\ q # root => pc[q] # "send" /\ pc'[q] # "send"
         \/ /\ pc[q] = "answers" /\ LastAnswer(q) /\ (q = root \/ NaiveRing)
            /\ pc'[q] = "out" /\ round'[q] = round[q] + 1 /\ peer'[q] = 1
         \/ /\ pc[q] = "answers" /\ ~LastAnswer(q) /\ q = root
            /\ pc'[q] = (IF NaiveLinear THEN "send" ELSE "answers")
            /\ round'[q] = round[q] /\ peer'[q] = peer[q] + 1
         \/ /\ pc[q] = "ack" /\ q # root /\ Forwards(q)
            /\ pc'[q] = "send" /\ round'[q] = round[q] /\ peer'[q] = peer[q]
         \/ /\ pc[q] = "ack" /\ q # root /\ ~Forwards(q)
            /\ pc'[q] = "out" /\ round'[q] = round[q] + 1 /\ peer'[q] = 1
  <1>0. ControlType /\ ProgramInv
    BY Regime
  <1>1. CASE EnterBarrier(q) \/ SendToken(q) \/ RecvToken(q)
    <2>1. AfterBarrier(q) \in {"done", "send", "recv"} /\ (AfterBarrier(q) = "send" => q = root)
      BY DEF AfterBarrier
    <2>2. /\ pc[q] \in {"out", "barrier send", "barrier recv"}
          /\ pc'[q] \in {"barrier send", "barrier recv", AfterBarrier(q)}
          /\ round' = round /\ peer' = peer
      BY <1>0, <1>1 DEF EnterBarrier, SendToken, RecvToken, AfterToken, ControlType
    <2> QED
      BY <2>1, <2>2
  <1>2. CASE RecvAnswer(q)
    <2>1. pc[q] = "answers" /\ (q = root \/ NaiveRing)
      BY <1>0, <1>2 DEF RecvAnswer, ProgramInv, Forwards
    <2>2. CASE LastAnswer(q)
      <3>1. Return(q)
        BY <1>2, <2>2 DEF RecvAnswer
      <3> QED
        BY <1>0, <2>1, <2>2, <3>1, OwnReturn
    <2>3. CASE ~LastAnswer(q)
      <3>1. /\ peer' = [peer EXCEPT ![q] = @ + 1] /\ round' = round
            /\ pc' = [pc EXCEPT ![q] = IF NaiveLinear THEN "send" ELSE "answers"]
        BY <1>2, <2>3 DEF RecvAnswer
      <3>2. q = root
        BY <2>1, <2>3 DEF LastAnswer
      <3> QED
        BY <1>0, <2>1, <2>3, <3>1, <3>2 DEF ControlType
    <2> QED
      BY <2>2, <2>3
  <1>3. CASE SendAck(q)
    <2>1. pc[q] = "ack" /\ q # root
      BY <1>0, <1>3 DEF SendAck, ProgramInv
    <2>2. CASE Forwards(q)
      <3>1. GoOn(q, "send")
        BY <1>3, <2>2 DEF SendAck
      <3> QED
        BY <1>0, <2>1, <2>2, <3>1, OwnGoOn
    <2>3. CASE ~Forwards(q)
      <3>1. Return(q)
        BY <1>3, <2>3 DEF SendAck
      <3> QED
        BY <1>0, <2>1, <2>3, <3>1, OwnReturn
    <2> QED
      BY <2>2, <2>3
  <1> QED
    BY <1>1, <1>2, <1>3

\* They change no count, and nothing that the counts are about.
LEMMA AsideCounts ==
  ASSUME CInv, Plain, NEW q \in Rank,
         EnterBarrier(q) \/ SendToken(q) \/ RecvToken(q) \/ RecvAnswer(q) \/ SendAck(q)
  PROVE  /\ \A r \in Receiver : Got(r)' = Got(r) /\ SentTo(r)' = SentTo(r)
         /\ net' = net /\ sock' = sock /\ log' = log /\ buf' = buf /\ loads' = loads
         /\ frag' = frag /\ algo' = algo
  <1>0. CTypeOK /\ RankStep(q) /\ algo' = algo
    <2>1. CTypeOK /\ RankStep(q)
      BY Regime DEF RankStep
    <2> QED
      BY <2>1, Elsewhere
  <1>1. /\ net' = net /\ sock' = sock /\ log' = log /\ buf' = buf /\ loads' = loads
        /\ frag' = frag
    BY DEF EnterBarrier, SendToken, RecvToken, RecvAnswer, SendAck, netVars
  <1>2. \A r \in Rank : r # q => pc'[r] = pc[r] /\ round'[r] = round[r] /\ peer'[r] = peer[r]
    BY <1>0, Elsewhere
  <1>3. ASSUME NEW r \in Receiver
        PROVE  Got(r)' = Got(r)
    <2>1. r \in Rank /\ r # root /\ round[r] \in Nat
      BY Senders, Regime
    <2>2. CASE r # q
      BY <1>2, <2>1, <2>2 DEF Got
    <2>3. CASE r = q
      <3>1. \/ /\ round'[q] = round[q]
               /\ pc[q] \notin {"ack", "send", "answers"} /\ pc'[q] \notin {"ack", "send", "answers"}
            \/ /\ pc[q] \in {"ack", "send", "answers"} /\ pc'[q] = "out"
               /\ round'[q] = round[q] + 1
            \/ /\ pc[q] \in {"ack", "send", "answers"} /\ pc'[q] \in {"ack", "send", "answers"}
               /\ round'[q] = round[q]
        BY <2>1, <2>3, AsideStep
      <3> QED
        BY <2>1, <2>3, <3>1 DEF Got
    <2> QED
      BY <2>2, <2>3
  <1>4. ASSUME NEW r \in Receiver
        PROVE  SentTo(r)' = SentTo(r)
    <2>1. PICK s \in Rank : s = Sender(r)
      BY Senders
    <2>2. /\ r \in 1 .. N-1 /\ r # root /\ (s # root => NaiveRing) /\ (NaiveRing => next(s) = r)
          /\ (NaiveLinear => s = root) /\ round[s] \in Nat /\ peer[root] \in 1 .. N-1
          /\ ~(NaiveRing /\ NaiveLinear)
      BY <2>1, Senders, Regime, TheRoot, AlgorithmsApart
    <2>3. SentTo(r) = round[s] + (IF \/ pc[s] = "answers" /\ (NaiveLinear => r <= peer[root])
                                     \/ NaiveLinear /\ r < peer[root] THEN 1 ELSE 0)
      BY <2>1 DEF SentTo
    <2>4. SentTo(r)' = round'[s] + (IF \/ pc'[s] = "answers" /\ (NaiveLinear => r <= peer'[root])
                                       \/ NaiveLinear /\ r < peer'[root] THEN 1 ELSE 0)
      BY <1>0, <2>1 DEF SentTo, Sender, NaiveRing, NaiveLinear
    <2>5. CASE s # q
      <3>1. pc'[s] = pc[s] /\ round'[s] = round[s] /\ (NaiveLinear => peer'[root] = peer[root])
        BY <1>2, <2>2, <2>5
      <3> QED
        BY <2>3, <2>4, <3>1
    <2>6. CASE s = q
      <3>1. CASE /\ round'[q] = round[q] /\ peer'[q] = peer[q]
                 /\ pc[q] \notin {"ack", "answers"} /\ pc'[q] \notin {"ack", "answers"}
        BY <2>2, <2>3, <2>4, <2>6, <3>1
      <3>2. CASE /\ pc[q] = "answers" /\ LastAnswer(q)
                 /\ pc'[q] = "out" /\ round'[q] = round[q] + 1 /\ peer'[q] = 1
        <4>1. NaiveLinear => r <= peer[root]
          BY <2>2, <2>6, <3>2 DEF LastAnswer
        <4>2. SentTo(r) = round[q] + 1
          BY <2>3, <2>6, <3>2, <4>1
        <4>3. NaiveLinear => peer'[root] = 1
          BY <2>2, <2>6, <3>2
        <4>4. SentTo(r)' = round'[q] + 0
          BY <2>2, <2>4, <2>6, <3>2, <4>3
        <4> QED
          BY <2>2, <2>6, <3>2, <4>2, <4>4
      <3>3. CASE /\ pc[q] = "answers" /\ ~LastAnswer(q) /\ q = root
                 /\ pc'[q] = (IF NaiveLinear THEN "send" ELSE "answers")
                 /\ round'[q] = round[q] /\ peer'[q] = peer[q] + 1
        BY <2>2, <2>3, <2>4, <2>6, <3>3
      <3>4. CASE /\ pc[q] = "ack" /\ q # root /\ Forwards(q)
                 /\ pc'[q] = "send" /\ round'[q] = round[q] /\ peer'[q] = peer[q]
        BY <2>2, <2>3, <2>4, <2>6, <3>4
      <3>5. CASE pc[q] = "ack" /\ q # root /\ ~Forwards(q)
        <4>1. NaiveRing /\ next(q) = r
          BY <2>2, <2>6, <3>5
        <4> QED
          BY <2>2, <3>5, <4>1 DEF Forwards
      <3> QED
        BY <3>1, <3>2, <3>3, <3>4, <3>5, AsideStep
    <2> QED
      BY <2>5, <2>6
  <1> QED
    BY <1>0, <1>1, <1>3, <1>4

\* What is due stays due, if nothing is sent or received.
LEMMA DueStays ==
  ASSUME CInv, DueInv,
         net' = net, sock' = sock, log' = log, loads' = loads, algo' = algo,
         \A r \in Receiver : Got(r)' = Got(r) /\ SentTo(r)' = SentTo(r)
  PROVE  DueInv'
  <1>1. TypeOK
    BY TypeParts DEF CInv
  <1>2. /\ \A q : WellFormed(q)' <=> WellFormed(q)
        /\ \A r \in Receiver : \A q : Due(r, q)' <=> Due(r, q)
        /\ Opcode' = Opcode
    BY DEF WellFormed, Due, Opcode
  <1>3. \A p \in net : WellFormed(p)' /\ p.op = Opcode' /\ p.dst # root
    BY <1>2 DEF DueInv
  <1>4. \A a, b \in net : a # b => Claim(a) \cap Claim(b) = {}
    BY DEF DueInv
  <1>5. ASSUME NEW p \in net, NEW r \in Claim(p)
        PROVE  r # root /\ sock[r] = <<>> /\ Due(r, p)'
    <2>1. r # root /\ sock[r] = <<>> /\ Due(r, p)
      BY DEF DueInv
    <2>2. p \in Packet /\ WellFormed(p)
      BY <1>1 DEF TypeOK, DueInv
    <2>3. r \in Receiver
      BY <2>1, <2>2, ClaimInRank, TheRoot
    <2> QED
      BY <1>2, <2>1, <2>3
  <1>6. ASSUME NEW r \in Receiver, sock[r] # <<>>
        PROVE  Len(sock[r]) = 1 /\ Due(r, Head(sock[r]))'
    <2>1. Len(sock[r]) = 1 /\ Due(r, Head(sock[r]))
      BY <1>6 DEF DueInv
    <2>2. loads[Head(sock[r]).id].content = SentTo(r) /\ Got(r) = SentTo(r) - 1
      BY <2>1 DEF Due
    <2> QED
      BY <2>1, <2>2 DEF Due
  <1> QED
    BY <1>3, <1>4, <1>5, <1>6 DEF DueInv

LEMMA GotAside ==
  ASSUME CInv, Plain, GotInv, NEW q \in Rank,
         EnterBarrier(q) \/ SendToken(q) \/ RecvToken(q) \/ RecvAnswer(q) \/ SendAck(q)
  PROVE  GotInv'
  <1>0. CTypeOK /\ RankStep(q)
    BY Regime DEF RankStep
  <1>1. /\ \A r \in Receiver : Got(r)' = Got(r) /\ SentTo(r)' = SentTo(r)
        /\ buf' = buf /\ frag' = frag /\ Eager' = Eager
    BY AsideCounts DEF Eager
  <1>2. \A r \in Rank : r # q => /\ pc'[r] = pc[r] /\ round'[r] = round[r]
                                 /\ peer'[r] = peer[r] /\ acks'[r] = acks[r]
    BY <1>0, Elsewhere
  <1>3. acks'[q] = acks[q] + (IF pc[q] = "ack" THEN 1 ELSE 0)
    <2>1. acks \in [Rank -> Nat]
      BY Regime DEF DataType
    <2>2. CASE SendAck(q)
      BY <2>1, <2>2 DEF SendAck
    <2>3. CASE EnterBarrier(q) \/ SendToken(q) \/ RecvToken(q) \/ RecvAnswer(q)
      <3>1. acks' = acks /\ pc[q] # "ack"
        BY <2>3 DEF EnterBarrier, SendToken, RecvToken, RecvAnswer
      <3> QED
        BY <2>1, <3>1
    <2> QED
      BY <2>2, <2>3
  <1>4. buf'[root] = round'[root] + (IF pc'[root] = "answers" \/ peer'[root] > 1 THEN 1 ELSE 0)
    <2>1. /\ buf[root] = round[root] + (IF pc[root] = "answers" \/ peer[root] > 1 THEN 1 ELSE 0)
          /\ round[root] \in Nat /\ peer[root] \in 1 .. N-1 /\ root \in Rank
      BY Regime, TheRoot DEF GotInv
    <2>2. CASE q # root
      BY <1>1, <1>2, <2>1, <2>2
    <2>3. CASE q = root
      BY <1>1, <2>1, <2>3, AsideStep
    <2> QED
      BY <2>2, <2>3
  <1>5. ASSUME NEW r \in Receiver, ~Eager
        PROVE  acks'[r] = round'[r] + (IF pc'[r] \in {"send", "answers"} THEN 1 ELSE 0)
    <2>1. acks[r] = round[r] + (IF pc[r] \in {"send", "answers"} THEN 1 ELSE 0)
      BY <1>5 DEF GotInv
    <2>2. r \in Rank /\ r # root /\ round[r] \in Nat /\ acks[r] \in Nat
      BY Senders, Regime
    <2>3. CASE r # q
      BY <1>2, <2>1, <2>2, <2>3
    <2>4. CASE r = q
      BY <1>3, <2>1, <2>2, <2>4, AsideStep
    <2> QED
      BY <2>3, <2>4
  <1> QED
    BY <1>1, <1>4, <1>5 DEF GotInv

LEMMA AsideKeeps ==
  ASSUME CInv, Plain, DueInv, GotInv, NEW q \in Rank,
         EnterBarrier(q) \/ SendToken(q) \/ RecvToken(q) \/ RecvAnswer(q) \/ SendAck(q)
  PROVE  DueInv' /\ GotInv'
  BY DueStays, AsideCounts, GotAside

-----------------------------------------------------------------------------
(* A datagram is sent.                                                      *)

\* What __mpi_send of the one datagram changes.
LEMMA Sending ==
  ASSUME CInv, Plain, NEW q \in Rank, SendFragment(q)
  PROVE  /\ pc[q] = "send" /\ (q # root => NaiveRing /\ next(q) # root)
         /\ SendTo(Opcode, q, Target(q))
         /\ buf' = (IF q = root THEN [buf EXCEPT ![q] = round[q] + 1] ELSE buf)
         /\ loads' = Append(loads, [content |-> buf'[q], seq |-> 0])
         /\ Eager => pc'[q] = "out" /\ round'[q] = round[q] + 1 /\ peer'[q] = 1
         /\ ~Eager => /\ pc'[q] = "answers" /\ round'[q] = round[q]
                      /\ peer'[q] = (IF NaiveRing \/ NaiveLinear THEN Target(q) ELSE 1)
         /\ \A r \in Rank : r # q => pc'[r] = pc[r] /\ round'[r] = round[r] /\ peer'[r] = peer[r]
         /\ algo' = algo /\ acks' = acks /\ frag' = frag
  <1>0. /\ CTypeOK /\ ControlType /\ ProgramInv /\ RankStep(q) /\ seq[q] = 0 /\ Fragments = 1
    BY Regime DEF RankStep
  <1>1. pc[q] = "send" /\ (q # root => NaiveRing /\ next(q) # root)
    <2>1. pc[q] = "send"
      BY DEF SendFragment
    <2>2. q = root \/ Forwards(q)
      BY <1>0, <2>1, ProgramParts DEF Program
    <2> QED
      BY <2>1, <2>2 DEF Forwards
  <1>2. AfterSend(q)
    BY <1>0 DEF SendFragment
  <1>3. Eager => pc'[q] = "out" /\ round'[q] = round[q] + 1 /\ peer'[q] = 1
    BY <1>0, <1>2, OwnReturn DEF AfterSend
  <1>4. ~Eager => /\ pc'[q] = "answers" /\ round'[q] = round[q]
                  /\ peer'[q] = (IF NaiveRing \/ NaiveLinear THEN Target(q) ELSE 1)
    BY <1>0, <1>2 DEF AfterSend, FirstAnswer, ControlType
  <1>5. \A r \in Rank : r # q => pc'[r] = pc[r] /\ round'[r] = round[r] /\ peer'[r] = peer[r]
    BY <1>0, Elsewhere
  <1>6. algo' = algo /\ acks' = acks /\ frag' = frag
    BY DEF SendFragment, options
  <1>7. /\ SendTo(Opcode, q, Target(q))
        /\ buf' = (IF q = root THEN [buf EXCEPT ![q] = round[q] + 1] ELSE buf)
        /\ loads' = Append(loads, [content |-> buf'[q], seq |-> 0])
    BY <1>0 DEF SendFragment
  <1> QED
    BY <1>1, <1>3, <1>4, <1>5, <1>6, <1>7

\* The root has started no broadcast after one whose barrier it is in.
LEMMA RootBuffer ==
  ASSUME CInv, Plain, GotInv
  PROVE  /\ buf[root] \in Int /\ Left(root) \in Nat /\ buf[root] <= Left(root)
         /\ InBarrier(root) => peer[root] = 1 /\ buf[root] = round[root]
         /\ pc[root] = "done" => peer[root] = 1
         /\ pc[root] # "answers" /\ peer[root] = 1 => buf[root] = round[root]
         /\ pc[root] = "answers" \/ peer[root] > 1 => buf[root] = round[root] + 1
  <1>1. /\ buf[root] = round[root] + (IF pc[root] = "answers" \/ peer[root] > 1 THEN 1 ELSE 0)
        /\ round[root] \in Nat /\ peer[root] \in 1 .. N-1 /\ root \in Rank
    BY Regime, TheRoot DEF GotInv
  <1>2. Program(root) /\ pc[root] # "garbled"
    BY <1>1, Regime, ProgramParts
  <1>3. InBarrier(root) => peer[root] = 1 /\ pc[root] # "answers"
    BY <1>2 DEF Program, InBarrier
  <1>4. pc[root] = "done" => peer[root] = 1
    BY <1>2 DEF Program
  <1> QED
    BY <1>1, <1>3, <1>4 DEF Left

\* To whom: the receivers that the datagram is for have received all that was
\* sent to them before, because they have left the last barrier of the root.
SentBy(q, r) == Sender(r) = q /\ (NaiveLinear => r = peer[root])

LEMMA AllReceived ==
  ASSUME CInv, Plain, Barrier!IInv, GotInv, NEW q \in Rank, pc[q] = "send",
         q # root => NaiveRing,
         NEW r \in Receiver, SentBy(q, r)
  PROVE  /\ SentTo(r) = round[q] /\ Got(r) = round[q]
         /\ q # root => buf[q] = round[q] + 1 /\ round[q] + 1 <= buf[root]
  <1>0. /\ r \in Rank /\ r # root /\ Sender(r) = q /\ (NaiveLinear => r = peer[root] /\ q = root)
        /\ round[r] \in Nat /\ round[q] \in Nat /\ round[root] \in Nat /\ buf[root] \in Int
        /\ peer[root] \in 1 .. N-1 /\ CTypeOK /\ root \in Rank /\ r \in 1 .. N-1
    BY Senders, Regime, TheRoot DEF SentBy
  <1>1. SentTo(r) = round[q]
    <2>1. SentTo(r) = round[q] + (IF \/ pc[q] = "answers" /\ (NaiveLinear => r <= peer[root])
                                     \/ NaiveLinear /\ r < peer[root] THEN 1 ELSE 0)
      BY <1>0 DEF SentTo
    <2> QED
      BY <1>0, <2>1
  <1>2. Got(r) <= SentTo(r) /\ round[r] <= Got(r) /\ Got(r) \in Nat
    BY <1>0, CountTypes DEF GotInv
  <1>3. /\ Left(root) <= Left(r) /\ Left(r) <= round[r] + 1
        /\ Left(r) \in Nat /\ Left(root) \in Nat
    <2>1. Left(root) <= Left(r)
      BY <1>0, RootLeaves DEF RootLeftLast
    <2>2. Left(r) <= round[r] + 1 /\ Left(r) \in Nat /\ Left(root) \in Nat
      BY <1>0 DEF Left
    <2> QED
      BY <2>1, <2>2
  <1>4. CASE q = root
    <2>1. Left(root) = round[q] + 1
      BY <1>4 DEF Left, InBarrier
    <2>2. Got(r) = round[q]
      BY <1>0, <1>1, <1>2, <1>3, <2>1
    <2> QED
      BY <1>1, <1>4, <2>2
  <1>5. CASE q # root
    <2>1. q \in Receiver
      BY <1>5, TheRoot
    <2>2. buf[q] = Got(q) /\ Got(q) <= SentTo(q) /\ SentTo(q) <= buf[root] /\ SentTo(q) \in Nat
      BY <1>0, <2>1, CountTypes DEF GotInv
    <2>3. Got(q) = round[q] + 1
      BY <1>5 DEF Got
    <2>4. buf[root] <= Left(root)
      BY RootBuffer
    <2>5. round[q] + 1 <= buf[root] /\ round[q] <= round[r]
      BY <1>0, <1>3, <2>2, <2>3, <2>4
    <2>6. Got(r) = round[q]
      BY <1>0, <1>1, <1>2, <2>5
    <2> QED
      BY <1>1, <2>2, <2>3, <2>5, <2>6
  <1> QED
    BY <1>4, <1>5

LEMMA SendCounts ==
  ASSUME CInv, Plain, NEW q \in Rank, SendFragment(q), NEW r \in Receiver
  PROVE  /\ Got(r)' = Got(r)
         /\ SentBy(q, r) => SentTo(r)' = round[q] + 1
         /\ ~SentBy(q, r) => SentTo(r)' = SentTo(r)
  <1>0. /\ r \in Rank /\ r # root /\ Sender(r) \in Rank /\ round[r] \in Nat /\ round[q] \in Nat
        /\ peer[root] \in 1 .. N-1 /\ root \in Rank /\ r \in 1 .. N-1
        /\ (Sender(r) # root => NaiveRing) /\ (NaiveLinear => Sender(r) = root)
    BY Senders, Regime, TheRoot
  <1>1. /\ pc[q] = "send" /\ (q # root => NaiveRing /\ ~Eager /\ ~NaiveLinear)
        /\ Eager => pc'[q] = "out" /\ round'[q] = round[q] + 1
        /\ ~Eager => pc'[q] = "answers" /\ round'[q] = round[q]
        /\ ~(Eager /\ NaiveLinear)
    BY Sending, AlgorithmsApart
  <1>2. \A s \in Rank : s # q => pc'[s] = pc[s] /\ round'[s] = round[s] /\ peer'[s] = peer[s]
    BY Sending
  <1>3. NaiveLinear => q = root /\ peer'[root] = peer[root]
    <2> SUFFICES ASSUME NaiveLinear
                 PROVE  q = root /\ peer'[root] = peer[root]
      OBVIOUS
    <2>1. q = root /\ ~Eager
      BY <1>1
    <2>2. peer'[q] = Target(q)
      BY <2>1, Sending
    <2> QED
      BY <2>1, <2>2 DEF Target
  <1>4. Got(r)' = Got(r)
    <2>1. CASE r # q
      BY <1>0, <1>2, <2>1 DEF Got
    <2>2. CASE r = q
      <3>1. pc[r] = "send" /\ pc'[r] = "answers" /\ round'[r] = round[r]
        BY <1>0, <1>1, <2>2
      <3> QED
        BY <1>0, <3>1 DEF Got
    <2> QED
      BY <2>1, <2>2
  <1>5. PICK s \in Rank : s = Sender(r)
    BY <1>0
  <1>6. SentTo(r) = round[s] + (IF \/ pc[s] = "answers" /\ (NaiveLinear => r <= peer[root])
                                   \/ NaiveLinear /\ r < peer[root] THEN 1 ELSE 0)
    BY <1>5 DEF SentTo
  <1>7. SentTo(r)' = round'[s] + (IF \/ pc'[s] = "answers" /\ (NaiveLinear => r <= peer'[root])
                                     \/ NaiveLinear /\ r < peer'[root] THEN 1 ELSE 0)
    BY <1>5, Sending DEF SentTo, Sender, NaiveRing, NaiveLinear
  <1>8. SentBy(q, r) => SentTo(r)' = round[q] + 1
    <2> SUFFICES ASSUME SentBy(q, r)
                 PROVE  SentTo(r)' = round[q] + 1
      OBVIOUS
    <2>1. s = q /\ (NaiveLinear => r = peer'[root])
      BY <1>3, <1>5 DEF SentBy
    <2>2. CASE Eager
      BY <1>0, <1>1, <1>7, <2>1, <2>2
    <2>3. CASE ~Eager
      <3>1. pc'[s] = "answers" /\ (NaiveLinear => r <= peer'[root]) /\ round'[s] = round[q]
        BY <1>0, <1>1, <2>1, <2>3
      <3> QED
        BY <1>7, <3>1
    <2> QED
      BY <2>2, <2>3
  <1>9. ~SentBy(q, r) => SentTo(r)' = SentTo(r)
    <2> SUFFICES ASSUME ~SentBy(q, r)
                 PROVE  SentTo(r)' = SentTo(r)
      OBVIOUS
    <2>1. CASE NaiveLinear
      <3>1. s = root /\ q = root /\ peer'[root] = peer[root] /\ r # peer[root] /\ ~Eager
        BY <1>0, <1>1, <1>3, <1>5, <2>1 DEF SentBy
      <3>2. SentTo(r) = round[q] + (IF r < peer[root] THEN 1 ELSE 0)
        BY <1>0, <1>1, <1>6, <2>1, <3>1
      <3>3. SentTo(r)' = round[q] + (IF r <= peer[root] THEN 1 ELSE 0)
        BY <1>0, <1>1, <1>7, <2>1, <3>1
      <3> QED
        BY <1>0, <3>1, <3>2, <3>3
    <2>2. CASE ~NaiveLinear
      <3>1. s # q
        BY <1>5, <2>2 DEF SentBy
      <3> QED
        BY <1>2, <1>6, <1>7, <2>2, <3>1
    <2> QED
      BY <2>1, <2>2
  <1> QED
    BY <1>4, <1>8, <1>9

\* The datagram claims only receivers that it is for.
LEMMA SentClaim ==
  ASSUME CInv, NEW q \in Rank, SendFragment(q), NEW d, d = Datagram(Opcode, q, Target(q))
  PROVE  /\ d.op = Opcode /\ d.root = q /\ d.src = q /\ d.dst = Target(q) /\ d.port = d.dst
         /\ d.id = Len(log) + 1 /\ d.copy = 0 /\ d.at = "cable"
         /\ d.dst \in Rank /\ d.dst # q /\ d.dst # root
         /\ d.op # "MPI_SEND" => d.dst = next(q)
         /\ \A r \in Claim(d) : r \in Receiver /\ SentBy(q, r)
  <1>0. /\ q # root => NaiveRing /\ next(q) # root
        /\ peer[root] \in 1 .. N-1 /\ peer[root] \in Receiver
    <2>1. CTypeOK /\ ProgramInv /\ pc[q] = "send"
      BY DEF CInv, SendFragment
    <2>2. peer[root] \in 1 .. N-1
      BY <2>1, Typed, TheRoot
    <2>3. q = root \/ Forwards(q)
      BY <2>1, ProgramParts DEF Program
    <2> QED
      BY <2>2, <2>3, TheRoot DEF Forwards
  <1>1. /\ d.op = Opcode /\ d.root = q /\ d.src = q /\ d.dst = Target(q) /\ d.port = d.dst
        /\ d.id = Len(log) + 1 /\ d.copy = 0 /\ d.at = "cable"
    BY DEF Datagram
  <1>2. CASE NaiveLinear
    <2>1. q = root /\ Target(q) = peer[root] /\ Opcode = "MPI_SEND"
      BY <1>0, <1>2, AlgorithmsApart DEF Target, Opcode, NaiveLinear
    <2>2. Sender(peer[root]) = q /\ peer[root] \in Rank /\ peer[root] # root
      BY <1>0, <1>2, <2>1, Senders, TheRoot
    <2>3. \A r \in Claim(d) : r = peer[root]
      BY <1>1, <2>1 DEF Claim
    <2> QED
      BY <1>0, <1>1, <2>1, <2>2, <2>3 DEF SentBy
  <1>3. CASE NaiveRing
    <2>1. ~NaiveLinear /\ Opcode = "MPI_SEND" /\ Target(q) = next(q)
      BY <1>3, AlgorithmsApart DEF Target, FirstHop, Opcode, NaiveRing, NaiveLinear
    <2>2. PICK n \in Rank : n = next(q)
      BY NextRank
    <2>3. n # root /\ n # q
      BY <1>0, <2>2, TheRoot, NextRank
    <2>4. n \in Receiver /\ Sender(n) = q
      BY <1>3, <2>2, <2>3, TheRoot, PrevNext DEF Sender
    <2>5. \A r \in Claim(d) : r = n
      BY <1>1, <2>1, <2>2 DEF Claim
    <2> QED
      BY <1>1, <2>1, <2>2, <2>3, <2>4, <2>5 DEF SentBy
  <1>4. CASE ~NaiveRing /\ ~NaiveLinear
    <2>1. q = root /\ Target(q) = next(root) /\ next(root) \in Rank /\ next(root) # root
      BY <1>0, <1>4, NextRank, TheRoot DEF Target, FirstHop
    <2>2. \A r \in Receiver : SentBy(q, r)
      BY <1>4, <2>1 DEF SentBy, Sender
    <2>3. d.op \in {"MPI_BCAST_RING", "MPI_BCAST_LINEAR", "MPI_SEND"}
      BY <1>1 DEF Opcode
    <2>4. \A r \in Claim(d) : r \in Rank /\ r # root
      <3>1. CASE d.op = "MPI_SEND"
        BY <1>1, <2>1, <3>1 DEF Claim
      <3>2. CASE d.op = "MPI_BCAST_LINEAR"
        BY <1>1, <2>1, <3>2 DEF Claim
      <3>3. CASE d.op = "MPI_BCAST_RING"
        <4>1. Distance(root, root) = 0 /\ Distance(root, next(root)) \in 0 .. N-1
          <5>1. Distance(root, root) = root - root
            BY TheRoot, Distances
          <5> QED
            BY <2>1, <5>1, TheRoot, Distances DEF Rank
        <4>2. Claim(d) = {r \in Rank : \/ Distance(root, next(root)) < Distance(root, r)
                                       \/ r = next(root)}
          BY <1>1, <2>1, <3>3 DEF Claim
        <4> QED
          BY <2>1, <4>1, <4>2
      <3> QED
        BY <2>3, <3>1, <3>2, <3>3
    <2> QED
      BY <1>1, <2>1, <2>2, <2>4, TheRoot
  <1> QED
    BY <1>2, <1>3, <1>4

LEMMA SendDue ==
  ASSUME CInv, Plain, Barrier!IInv, DueInv, GotInv, NEW q \in Rank, SendFragment(q)
  PROVE  DueInv'
  <1>0. /\ TypeOK /\ LogInv /\ DataType /\ buf \in [Rank -> Int] /\ round[q] \in Nat
        /\ pc[q] = "send" /\ (q # root => NaiveRing)
        /\ buf' = (IF q = root THEN [buf EXCEPT ![q] = round[q] + 1] ELSE buf)
        /\ Opcode' = Opcode
    <2>1. /\ TypeOK /\ LogInv /\ DataType /\ round[q] \in Nat
      BY Regime
    <2>2. buf \in [Rank -> Int]
      BY <2>1, MaxBcastsAssumption DEF DataType
    <2> QED
      BY <2>1, <2>2, Sending DEF Opcode
  <1>1. PICK d : d = Datagram(Opcode, q, Target(q))
    OBVIOUS
  <1>2. net' = net \cup {d} /\ log' = Append(log, d) /\ sock' = sock /\ Len(log) \in Nat
    <2>1. SendTo(Opcode, q, Target(q))
      BY Sending
    <2>2. log \in Seq(Packet)
      BY <1>0 DEF TypeOK
    <2>3. Len(log) \in Nat
      BY <2>2
    <2> QED
      BY <1>1, <2>1, <2>3 DEF SendTo
  <1>3. /\ d.op = Opcode /\ d.root = q /\ d.src = q /\ d.port = d.dst
        /\ d.id = Len(log) + 1 /\ d.copy = 0 /\ d.at = "cable"
        /\ d.dst \in Rank /\ d.dst # q /\ d.dst # root
        /\ d.op # "MPI_SEND" => d.dst = next(q)
    BY <1>1, SentClaim
  <1>4. \A r \in Claim(d) : r \in Receiver /\ SentBy(q, r)
    BY <1>1, SentClaim
  <1>5. \A r \in Receiver : SentBy(q, r) => SentTo(r) = round[q] /\ Got(r) = round[q]
    BY <1>0, AllReceived
  <1>6. Len(log') = Len(log) + 1
    BY <1>0, <1>2 DEF TypeOK
  <1>7. /\ Len(loads) = Len(log) /\ Len(loads') = Len(log) + 1
        /\ loads'[Len(log) + 1].content = buf'[q]
        /\ \A i \in 1 .. Len(log) : loads'[i] = loads[i]
    <2>1. loads' = Append(loads, [content |-> buf'[q], seq |-> 0])
      BY Sending
    <2>2. Len(loads) = Len(log)
      BY <1>0 DEF LogInv
    <2> DEFINE Load == [content : -1 .. MaxBcasts, seq : 0 .. Fragments-1]
    <2>3. loads \in Seq(Load)
      BY <1>0 DEF DataType
    <2>4. PICK e \in Load : e = [content |-> buf'[q], seq |-> 0]
      <3>1. CTypeOK'
        BY Regime, CStepInv DEF CInv, CNext, RankStep
      <3>2. buf' \in [Rank -> -1 .. MaxBcasts]
        BY <3>1, TypeParts DEF DataType
      <3>3. 0 \in 0 .. Fragments-1
        BY FragmentsAssumption
      <3> QED
        BY <3>2, <3>3
    <2> HIDE DEF Load
    <2>5. /\ Len(loads') = Len(log) + 1 /\ loads'[Len(log) + 1] = e
          /\ \A i \in 1 .. Len(log) : loads'[i] = loads[i]
      BY <1>2, <2>1, <2>2, <2>3, <2>4, AppendProperties
    <2> QED
      BY <2>2, <2>4, <2>5
  \* The old datagrams keep their claims, which are apart from the new ones.
  <1>8. ASSUME NEW p \in net
        PROVE  /\ p \in Packet /\ WellFormed(p) /\ WellFormed(p)' /\ p.op = Opcode' /\ p.dst # root
               /\ p.id \in 1 .. Len(log)
    <2>1. p \in Packet /\ WellFormed(p) /\ p.op = Opcode' /\ p.dst # root
      BY <1>0 DEF TypeOK, DueInv
    <2>2. p.id \in 1 .. Len(log)
      BY <1>2, <2>1, Fields DEF WellFormed
    <2>3. WellFormed(p)'
      BY <1>2, <1>6, <2>1, <2>2 DEF WellFormed
    <2> QED
      BY <2>1, <2>2, <2>3
  <1>9. ASSUME NEW p \in net, NEW r \in Claim(p)
        PROVE  r \in Receiver /\ sock[r] = <<>> /\ Due(r, p) /\ ~SentBy(q, r)
    <2>1. r # root /\ sock[r] = <<>> /\ Due(r, p)
      BY DEF DueInv
    <2>2. r \in Receiver
      BY <1>8, <2>1, ClaimInRank, TheRoot
    <2>3. ~SentBy(q, r)
      <3>1. Got(r) = SentTo(r) - 1
        BY <2>1 DEF Due
      <3> QED
        BY <1>0, <1>5, <2>2, <3>1
    <2> QED
      BY <2>1, <2>2, <2>3
  <1>10. ASSUME NEW r \in Receiver, NEW p, p.id \in 1 .. Len(log), Due(r, p), ~SentBy(q, r)
         PROVE  Due(r, p)'
    <2>1. Got(r)' = Got(r) /\ SentTo(r)' = SentTo(r)
      BY <1>10, SendCounts
    <2>2. loads'[p.id] = loads[p.id]
      BY <1>7, <1>10
    <2>3. loads[p.id].content = SentTo(r) /\ Got(r) = SentTo(r) - 1
      BY <1>10 DEF Due
    <2> QED
      BY <2>1, <2>2, <2>3 DEF Due
  <1>11. ASSUME NEW r \in Claim(d)
         PROVE  r # root /\ sock[r] = <<>> /\ Due(r, d)'
    <2>1. r \in Receiver /\ SentBy(q, r) /\ r # root
      BY <1>4, TheRoot
    <2>2. Got(r)' = round[q] /\ SentTo(r)' = round[q] + 1
      BY <1>5, <2>1, SendCounts
    <2>3. buf'[q] = round[q] + 1
      <3>1. CASE q = root
        BY <1>0, <3>1
      <3>2. CASE q # root
        BY <1>0, <2>1, <3>2, AllReceived
      <3> QED
        BY <3>1, <3>2
    <2>4. Due(r, d)'
      BY <1>0, <1>3, <1>7, <2>2, <2>3 DEF Due
    <2>5. sock[r] = <<>>
      <3> SUFFICES ASSUME sock[r] # <<>>
                   PROVE  FALSE
        OBVIOUS
      <3>1. Due(r, Head(sock[r]))
        BY <2>1 DEF DueInv
      <3>2. Got(r) = SentTo(r) - 1
        BY <3>1 DEF Due
      <3> QED
        BY <1>0, <1>5, <2>1, <3>2
    <2> QED
      BY <2>1, <2>4, <2>5
  <1>12. \A p \in net' : WellFormed(p)' /\ p.op = Opcode' /\ p.dst # root
    <2>1. WellFormed(d)'
      <3>1. d.src = prev(next(q)) /\ d.dst # d.root /\ d.id <= Len(log')
        BY <1>2, <1>3, <1>6, PrevNext
      <3> QED
        BY <1>3, <3>1 DEF WellFormed
    <2> QED
      BY <1>0, <1>2, <1>3, <1>8, <2>1
  <1>13. \A a, b \in net' : a # b => Claim(a) \cap Claim(b) = {}
    <2>1. \A p \in net : Claim(p) \cap Claim(d) = {}
      BY <1>4, <1>9
    <2>2. \A a, b \in net : a # b => Claim(a) \cap Claim(b) = {}
      BY DEF DueInv
    <2> QED
      BY <1>2, <2>1, <2>2
  <1>14. ASSUME NEW p \in net', NEW r \in Claim(p)
         PROVE  r # root /\ sock'[r] = <<>> /\ Due(r, p)'
    <2>1. CASE p = d
      BY <1>2, <1>11, <2>1
    <2>2. CASE p \in net
      <3>1. /\ r \in Receiver /\ sock[r] = <<>> /\ Due(r, p) /\ ~SentBy(q, r)
            /\ p.id \in 1 .. Len(log)
        BY <1>8, <1>9, <2>2
      <3>2. Due(r, p)'
        BY <1>10, <3>1
      <3> QED
        BY <1>2, <3>1, <3>2, TheRoot
    <2> QED
      BY <1>2, <2>1, <2>2
  <1>15. ASSUME NEW r \in Receiver, sock'[r] # <<>>
         PROVE  Len(sock'[r]) = 1 /\ Due(r, Head(sock[r]))'
    <2>1. Len(sock[r]) = 1 /\ Due(r, Head(sock[r])) /\ sock[r] # <<>>
      BY <1>2, <1>15 DEF DueInv
    <2>2. PICK p : p = Head(sock[r])
      OBVIOUS
    <2>3. p = sock[r][1] /\ r \in Rank
      BY <2>1, <2>2, TheRoot
    <2>4. p \in Packet /\ p.id \in 1 .. Len(log)
      <3>1. sock[r] \in Seq(Packet) /\ 1 \in DOMAIN sock[r]
        BY <1>0, <2>1, <2>3 DEF TypeOK
      <3>2. p \in Packet /\ p.id <= Len(log)
        BY <1>0, <2>3, <3>1 DEF LogInv, Logged
      <3> QED
        BY <1>2, <3>2, Fields
    <2>5. ~SentBy(q, r)
      <3>1. Got(r) = SentTo(r) - 1
        BY <2>1 DEF Due
      <3> QED
        BY <1>0, <1>5, <3>1
    <2>6. loads'[p.id] = loads[p.id] /\ Got(r)' = Got(r) /\ SentTo(r)' = SentTo(r)
      BY <1>7, <2>4, <2>5, SendCounts
    <2>7. loads[Head(sock[r]).id].content = SentTo(r) /\ Got(r) = SentTo(r) - 1
      BY <2>1 DEF Due
    <2> QED
      BY <1>2, <2>1, <2>2, <2>6, <2>7 DEF Due
  <1> QED
    BY <1>12, <1>13, <1>14, <1>15 DEF DueInv

LEMMA SendGot ==
  ASSUME CInv, Plain, Barrier!IInv, GotInv, NEW q \in Rank, SendFragment(q)
  PROVE  GotInv'
  <1>0. /\ buf \in [Rank -> Int] /\ root \in Rank /\ pc[q] = "send" /\ (q # root => NaiveRing)
        /\ \A r \in Rank : round[r] \in Nat /\ peer[r] \in 1 .. N-1 /\ buf[r] \in Int
        /\ buf' = (IF q = root THEN [buf EXCEPT ![q] = round[q] + 1] ELSE buf)
        /\ algo' = algo /\ acks' = acks /\ frag' = frag
    <2>1. buf \in [Rank -> Int]
      BY Regime, MaxBcastsAssumption DEF DataType
    <2> QED
      BY <2>1, Regime, TheRoot, Sending
  <1>1. /\ Eager => pc'[q] = "out" /\ round'[q] = round[q] + 1 /\ peer'[q] = 1
        /\ ~Eager => pc'[q] = "answers" /\ round'[q] = round[q]
        /\ \A r \in Rank : r # q => pc'[r] = pc[r] /\ round'[r] = round[r] /\ peer'[r] = peer[r]
        /\ q # root => ~Eager
    BY Sending, AlgorithmsApart
  <1>2. buf[root] = round[root] + (IF pc[root] = "answers" \/ peer[root] > 1 THEN 1 ELSE 0)
    BY DEF GotInv
  <1>3. buf'[root] = round'[root] + (IF pc'[root] = "answers" \/ peer'[root] > 1 THEN 1 ELSE 0)
    <2>1. CASE q # root
      BY <1>0, <1>1, <1>2, <2>1
    <2>2. CASE q = root /\ Eager
      BY <1>0, <1>1, <2>2
    <2>3. CASE q = root /\ ~Eager
      BY <1>0, <1>1, <2>3
    <2> QED
      BY <2>1, <2>2, <2>3
  <1>4. buf'[root] \in Int /\ buf[root] <= buf'[root]
    BY <1>0, <1>2
  <1>5. ASSUME NEW r \in Receiver
        PROVE  /\ buf'[r] = Got(r)' /\ Got(r)' <= SentTo(r)' /\ SentTo(r)' <= buf'[root]
               /\ ~Eager => acks'[r] = round'[r] + (IF pc'[r] \in {"send", "answers"} THEN 1 ELSE 0)
    <2>1. /\ buf[r] = Got(r) /\ Got(r) <= SentTo(r) /\ SentTo(r) <= buf[root]
          /\ ~Eager => acks[r] = round[r] + (IF pc[r] \in {"send", "answers"} THEN 1 ELSE 0)
      BY DEF GotInv
    <2>2. r \in Rank /\ r # root /\ Got(r) \in Nat /\ SentTo(r) \in Nat
      BY Senders, CountTypes
    <2>3. buf'[r] = buf[r]
      BY <1>0, <2>2
    <2>4. Got(r)' = Got(r)
      BY SendCounts
    <2>5. CASE SentBy(q, r)
      <3>1. /\ Got(r) = round[q] /\ SentTo(r)' = round[q] + 1
            /\ q # root => round[q] + 1 <= buf[root]
        BY <1>0, <2>5, AllReceived, SendCounts
      <3>2. round[q] + 1 <= buf'[root]
        <4>1. CASE q = root
          BY <1>0, <4>1
        <4>2. CASE q # root
          BY <1>0, <1>4, <3>1, <4>2
        <4> QED
          BY <4>1, <4>2
      <3>3. Got(r)' <= SentTo(r)' /\ SentTo(r)' <= buf'[root]
        BY <1>0, <2>4, <3>1, <3>2
      <3>4. ~Eager => acks'[r] = round'[r] + (IF pc'[r] \in {"send", "answers"} THEN 1 ELSE 0)
        BY <1>0, <1>1, <2>1, <2>2
      <3> QED
        BY <2>1, <2>3, <2>4, <3>3, <3>4
    <2>6. CASE ~SentBy(q, r)
      <3>1. SentTo(r)' = SentTo(r)
        BY <2>6, SendCounts
      <3>2. Got(r)' <= SentTo(r)' /\ SentTo(r)' <= buf'[root]
        BY <1>0, <1>4, <2>1, <2>2, <2>4, <3>1
      <3>3. ~Eager => acks'[r] = round'[r] + (IF pc'[r] \in {"send", "answers"} THEN 1 ELSE 0)
        BY <1>0, <1>1, <2>1, <2>2
      <3> QED
        BY <2>1, <2>3, <2>4, <3>2, <3>3
    <2> QED
      BY <2>5, <2>6
  <1>6. Eager' = Eager
    BY <1>0 DEF Eager
  <1>7. \A r \in Rank : frag'[r] = <<>>
    BY <1>0 DEF GotInv
  <1> QED
    BY <1>3, <1>5, <1>6, <1>7 DEF GotInv

-----------------------------------------------------------------------------
(* A datagram is received.                                                  *)

LEMMA Receiving ==
  ASSUME CInv, Plain, DueInv, GotInv, NEW q \in Rank, Recvfrom(q)
  PROVE  /\ q \in Receiver /\ pc[q] = "recv" /\ sock[q] # <<>>
         /\ Got(q) = SentTo(q) - 1 /\ round[q] = Got(q)
         /\ sock' = [sock EXCEPT ![q] = <<>>] /\ buf' = [buf EXCEPT ![q] = SentTo(q)]
         /\ frag' = [frag EXCEPT ![q] = <<>>]
         /\ Eager => pc'[q] = "out" /\ round'[q] = round[q] + 1 /\ peer'[q] = 1
         /\ ~Eager => pc'[q] = "ack" /\ round'[q] = round[q] /\ peer'[q] = peer[q]
         /\ \A r \in Rank : r # q => pc'[r] = pc[r] /\ round'[r] = round[r] /\ peer'[r] = peer[r]
         /\ algo' = algo /\ net' = net /\ log' = log /\ loads' = loads /\ acks' = acks
  <1>0. /\ CTypeOK /\ ControlType /\ DataType /\ TypeOK /\ ProgramInv /\ LogInv /\ RankStep(q)
        /\ Fragments = 1 /\ ~RecvAcks /\ pc[q] = "recv" /\ sock[q] # <<>>
    BY Regime DEF RankStep, Recvfrom
  <1>1. q \in Receiver
    BY <1>0, ProgramParts, TheRoot DEF Program
  <1>2. PICK p : p = Head(sock[q])
    OBVIOUS
  <1>3. Len(sock[q]) = 1 /\ Due(q, p) /\ frag[q] = <<>>
    BY <1>0, <1>1, <1>2 DEF DueInv, GotInv
  <1>4. loads[p.id].content = SentTo(q) /\ Got(q) = SentTo(q) - 1
    BY <1>3 DEF Due
  <1>5. p = sock[q][1] /\ p \in Packet /\ Tail(sock[q]) = <<>>
    <2>1. sock[q] \in Seq(Packet)
      BY <1>0 DEF TypeOK
    <2>2. Len(Tail(sock[q])) = 0 /\ Tail(sock[q]) \in Seq(Packet)
      BY <1>0, <1>3, <2>1, HeadTailProperties
    <2>3. Tail(sock[q]) = <<>>
      BY <2>2, EmptySeq
    <2>4. p = sock[q][1] /\ p \in Packet
      BY <1>2, <1>3, <2>1
    <2> QED
      BY <2>3, <2>4
  <1>6. p.id \in 1 .. Len(loads)
    <2>1. p.id <= Len(log)
      BY <1>0, <1>3, <1>5 DEF LogInv, Logged, TypeOK
    <2> QED
      BY <1>0, <1>5, <2>1, Fields DEF LogInv
  <1>7. loads[p.id].seq = 0
    <2> DEFINE Load == [content : -1 .. MaxBcasts, seq : 0 .. Fragments-1]
    <2>0. loads \in Seq(Load)
      BY <1>0 DEF DataType
    <2> HIDE DEF Load
    <2>1. loads[p.id] \in Load
      BY <1>6, <2>0
    <2> USE DEF Load
    <2>2. loads[p.id].seq \in 0 .. 0
      BY <1>0, <2>1
    <2> QED
      BY <2>2
  <1>8. PICK ids : ids = Append(frag[q], p.id)
    OBVIOUS
  <1>9. ids = <<p.id>> /\ Complete(ids)
    <2>1. ids = <<p.id>>
      BY <1>3, <1>8
    <2> QED
      BY <1>0, <2>1 DEF Complete
  <1>10. Assemble(ids) = SentTo(q)
    <2>1. DOMAIN ids = {1} /\ ids[1] = p.id
      BY <1>9
    <2>2. {loads[ids[i]].content : i \in DOMAIN ids} = {SentTo(q)}
      BY <1>4, <2>1
    <2>3. {loads[ids[i]].seq : i \in DOMAIN ids} = {0}
      BY <1>7, <2>1
    <2>4. {0} = 0 .. Fragments-1
      BY <1>0
    <2>5. Cardinality({SentTo(q)}) = 1
      BY FS_Singleton
    <2>6. (CHOOSE k \in {SentTo(q)} : TRUE) = SentTo(q)
      OBVIOUS
    <2> QED
      BY <2>2, <2>3, <2>4, <2>5, <2>6 DEF Assemble
  <1>11. /\ frag' = [frag EXCEPT ![q] = <<>>] /\ buf' = [buf EXCEPT ![q] = Assemble(ids)]
         /\ IF Eager THEN Return(q) ELSE GoOn(q, "ack")
         /\ sock' = [sock EXCEPT ![q] = Tail(@)]
         /\ algo' = algo /\ net' = net /\ log' = log /\ loads' = loads /\ acks' = acks
    BY <1>0, <1>2, <1>8, <1>9 DEF Recvfrom, options
  <1>12. sock' = [sock EXCEPT ![q] = <<>>]
    BY <1>5, <1>11
  <1>13. /\ Eager => pc'[q] = "out" /\ round'[q] = round[q] + 1 /\ peer'[q] = 1
         /\ ~Eager => pc'[q] = "ack" /\ round'[q] = round[q] /\ peer'[q] = peer[q]
    <2>1. CASE Eager
      BY <1>0, <1>11, <2>1, OwnReturn
    <2>2. CASE ~Eager
      BY <1>0, <1>11, <2>2, OwnGoOn
    <2> QED
      BY <2>1, <2>2
  <1>14. \A r \in Rank : r # q => pc'[r] = pc[r] /\ round'[r] = round[r] /\ peer'[r] = peer[r]
    BY <1>0, Elsewhere
  <1>15. round[q] = Got(q)
    <2>1. round[q] \in Nat
      BY Regime
    <2> QED
      BY <1>0, <2>1 DEF Got
  <1> QED
    BY <1>0, <1>1, <1>4, <1>10, <1>11, <1>12, <1>13, <1>14, <1>15

LEMMA RecvCounts ==
  ASSUME CInv, Plain, DueInv, GotInv, NEW q \in Rank, Recvfrom(q), NEW r \in Receiver
  PROVE  SentTo(r)' = SentTo(r) /\ Got(r)' = IF r = q THEN SentTo(q) ELSE Got(r)
  <1>0. /\ q \in Receiver /\ pc[q] = "recv" /\ Got(q) = SentTo(q) - 1 /\ round[q] = Got(q)
        /\ Eager => pc'[q] = "out" /\ round'[q] = round[q] + 1 /\ peer'[q] = 1
        /\ ~Eager => pc'[q] = "ack" /\ round'[q] = round[q] /\ peer'[q] = peer[q]
        /\ \A s \in Rank : s # q => pc'[s] = pc[s] /\ round'[s] = round[s] /\ peer'[s] = peer[s]
        /\ algo' = algo
    BY Receiving
  <1>1. /\ q \in Rank /\ q # root /\ r \in Rank /\ r # root /\ round[q] \in Nat /\ SentTo(q) \in Nat
        /\ root \in Rank /\ peer'[root] = peer[root]
    BY <1>0, Senders, Regime, CountTypes, TheRoot
  <1>2. Got(r)' = IF r = q THEN SentTo(q) ELSE Got(r)
    <2>1. CASE r # q
      BY <1>0, <1>1, <2>1 DEF Got
    <2>2. CASE r = q /\ Eager
      <3>1. Got(r)' = round[q] + 1
        BY <1>0, <1>1, <2>2 DEF Got
      <3> QED
        BY <1>0, <1>1, <2>2, <3>1
    <2>3. CASE r = q /\ ~Eager
      <3>1. Got(r)' = round[q] + 1
        BY <1>0, <1>1, <2>3 DEF Got
      <3> QED
        BY <1>0, <1>1, <2>3, <3>1
    <2> QED
      BY <2>1, <2>2, <2>3
  <1>3. SentTo(r)' = SentTo(r)
    <2>1. PICK s \in Rank : s = Sender(r) /\ (s # root => NaiveRing)
      BY Senders
    <2>2. SentTo(r) = round[s] + (IF \/ pc[s] = "answers" /\ (NaiveLinear => r <= peer[root])
                                     \/ NaiveLinear /\ r < peer[root] THEN 1 ELSE 0)
      BY <2>1 DEF SentTo
    <2>3. SentTo(r)' = round'[s] + (IF \/ pc'[s] = "answers" /\ (NaiveLinear => r <= peer[root])
                                       \/ NaiveLinear /\ r < peer[root] THEN 1 ELSE 0)
      BY <1>0, <1>1, <2>1 DEF SentTo, Sender, NaiveRing, NaiveLinear
    <2>4. CASE s # q
      BY <1>0, <2>2, <2>3, <2>4
    <2>5. CASE s = q
      <3>1. ~Eager /\ ~NaiveLinear
        BY <1>1, <2>1, <2>5, AlgorithmsApart
      <3> QED
        BY <1>0, <2>2, <2>3, <2>5, <3>1
    <2> QED
      BY <2>4, <2>5
  <1> QED
    BY <1>2, <1>3

LEMMA RecvDue ==
  ASSUME CInv, Plain, DueInv, GotInv, NEW q \in Rank, Recvfrom(q)
  PROVE  DueInv'
  <1>0. /\ q \in Receiver /\ sock[q] # <<>> /\ sock' = [sock EXCEPT ![q] = <<>>]
        /\ net' = net /\ log' = log /\ loads' = loads /\ algo' = algo
    BY Receiving
  <1>1. TypeOK /\ sock \in [Rank -> Seq(Packet)]
    BY Regime DEF TypeOK
  <1>2. \A r \in Receiver : r # q => SentTo(r)' = SentTo(r) /\ Got(r)' = Got(r)
    BY RecvCounts
  <1>3. \A p \in net : WellFormed(p)' /\ p.op = Opcode' /\ p.dst # root
    BY <1>0 DEF DueInv, WellFormed, Opcode
  <1>4. \A a, b \in net : a # b => Claim(a) \cap Claim(b) = {}
    BY DEF DueInv
  <1>5. ASSUME NEW p \in net, NEW r \in Claim(p)
        PROVE  r # root /\ sock'[r] = <<>> /\ Due(r, p)'
    <2>1. r # root /\ sock[r] = <<>> /\ Due(r, p)
      BY DEF DueInv
    <2>2. p \in Packet /\ WellFormed(p)
      BY <1>1 DEF TypeOK, DueInv
    <2>3. r \in Receiver /\ r # q /\ r \in Rank
      BY <1>0, <2>1, <2>2, ClaimInRank, TheRoot
    <2>4. Due(r, p)'
      BY <1>0, <1>2, <2>1, <2>3 DEF Due
    <2> QED
      BY <1>0, <1>1, <2>1, <2>3, <2>4
  <1>6. ASSUME NEW r \in Receiver, sock'[r] # <<>>
        PROVE  Len(sock'[r]) = 1 /\ Due(r, Head(sock[r]))'
    <2>1. r # q /\ sock'[r] = sock[r]
      BY <1>0, <1>1, <1>6, TheRoot
    <2>2. Len(sock[r]) = 1 /\ Due(r, Head(sock[r]))
      BY <1>6, <2>1 DEF DueInv
    <2>3. loads[Head(sock[r]).id].content = SentTo(r) /\ Got(r) = SentTo(r) - 1
      BY <2>2 DEF Due
    <2> QED
      BY <1>0, <1>2, <2>1, <2>2, <2>3 DEF Due
  <1> QED
    BY <1>0, <1>3, <1>4, <1>5, <1>6 DEF DueInv

LEMMA RecvGot ==
  ASSUME CInv, Plain, DueInv, GotInv, NEW q \in Rank, Recvfrom(q)
  PROVE  GotInv'
  <1>0. /\ q \in Receiver /\ pc[q] = "recv" /\ buf' = [buf EXCEPT ![q] = SentTo(q)]
        /\ frag' = [frag EXCEPT ![q] = <<>>] /\ algo' = algo /\ acks' = acks
        /\ ~Eager => pc'[q] = "ack" /\ round'[q] = round[q]
        /\ \A r \in Rank : r # q => pc'[r] = pc[r] /\ round'[r] = round[r] /\ peer'[r] = peer[r]
    BY Receiving
  <1>1. /\ buf \in [Rank -> Int] /\ root \in Rank /\ q \in Rank /\ q # root
        /\ frag \in [Rank -> Seq(1 .. MaxSends)]
    BY <1>0, TheRoot, Regime, MaxBcastsAssumption DEF DataType
  <1>2. buf'[root] = round'[root] + (IF pc'[root] = "answers" \/ peer'[root] > 1 THEN 1 ELSE 0)
    BY <1>0, <1>1 DEF GotInv
  <1>3. buf'[root] = buf[root]
    BY <1>0, <1>1
  <1>4. ASSUME NEW r \in Receiver
        PROVE  /\ buf'[r] = Got(r)' /\ Got(r)' <= SentTo(r)' /\ SentTo(r)' <= buf'[root]
               /\ ~Eager => acks'[r] = round'[r] + (IF pc'[r] \in {"send", "answers"} THEN 1 ELSE 0)
    <2>1. /\ buf[r] = Got(r) /\ Got(r) <= SentTo(r) /\ SentTo(r) <= buf[root]
          /\ ~Eager => acks[r] = round[r] + (IF pc[r] \in {"send", "answers"} THEN 1 ELSE 0)
      BY DEF GotInv
    <2>2. SentTo(r)' = SentTo(r) /\ Got(r)' = IF r = q THEN SentTo(q) ELSE Got(r)
      BY RecvCounts
    <2>3. SentTo(r) \in Nat /\ r \in Rank
      BY Senders, CountTypes
    <2>4. buf'[r] = Got(r)'
      BY <1>0, <1>1, <2>1, <2>2, <2>3
    <2>5. Got(r)' <= SentTo(r)'
      BY <2>1, <2>2, <2>3
    <2>6. ~Eager => acks'[r] = round'[r] + (IF pc'[r] \in {"send", "answers"} THEN 1 ELSE 0)
      <3>1. CASE r # q
        BY <1>0, <2>1, <2>3, <3>1
      <3>2. CASE r = q
        BY <1>0, <2>1, <2>3, <3>2
      <3> QED
        BY <3>1, <3>2
    <2> QED
      BY <1>3, <2>1, <2>2, <2>4, <2>5, <2>6
  <1>5. Eager' = Eager
    BY <1>0 DEF Eager
  <1>6. \A r \in Rank : frag'[r] = <<>>
    BY <1>0, <1>1 DEF GotInv
  <1> QED
    BY <1>2, <1>4, <1>5, <1>6 DEF GotInv

-----------------------------------------------------------------------------
(* The answers that the root of the naive ring reads.                       *)

LEMMA AnswerStep ==
  ASSUME CInv, Plain, AnswerInv, NEW q \in Rank,
         \/ EnterBarrier(q) \/ SendToken(q) \/ RecvToken(q) \/ RecvAnswer(q) \/ SendAck(q)
         \/ SendFragment(q) \/ Recvfrom(q)
  PROVE  AnswerInv'
  <1>0. /\ CTypeOK /\ ControlType /\ ProgramInv /\ FromInv /\ AskInv /\ timeouts = 0 /\ ~RecvAcks
        /\ RankStep(q)
    BY Regime DEF RankStep, CInv
  <1> SUFFICES ASSUME NaiveRing, ~Eager
               PROVE  acks'[1] = CountOn(stream', 1, root, "ACK") + round'[root]
    <2>1. NaiveRing' <=> NaiveRing
      BY <1>0, Elsewhere DEF NaiveRing
    <2> QED
      BY <2>1, AlgorithmsApart DEF AnswerInv, CountOn
  <1>1. /\ 1 \in Rank /\ 1 # root /\ root \in Rank /\ next(root) = 1
        /\ \A r \in Rank : prev(r) = root => r = 1
    <2>1. 1 \in Rank /\ 1 # root /\ root \in Rank /\ next(root) = 1
      BY TheRoot, InRank, NAssumption DEF root
    <2> QED
      BY <2>1, TheRoot, PrevRank, NAssumption, InRank
  <1>2. /\ stream \in StreamType /\ acks \in [Rank -> Nat] /\ round[root] \in Nat
        /\ CountOn(stream, 1, root, "ACK") \in Nat
    <2>1. stream \in StreamType /\ acks \in [Rank -> Nat] /\ round[root] \in Nat
      BY <1>1, Typed, Regime DEF DataType
    <2> QED
      BY <1>1, <2>1, CountOnType
  <1>3. acks[1] = CountOn(stream, 1, root, "ACK") + round[root]
    BY DEF AnswerInv, CountOn
  <1>4. q # root => round'[root] = round[root]
    BY <1>0, <1>1, Elsewhere
  <1>5. CASE EnterBarrier(q)
    BY <1>3, <1>5 DEF EnterBarrier
  <1>6. CASE SendToken(q)
    <2>1. UNCHANGED <<acks, round>> /\ stream' = Queue(stream, q, next(q), Token(q))
      BY <1>6 DEF SendToken
    <2>2. PICK m \in Message, d \in Rank : m.kind = "TOKEN" /\ stream' = Queue(stream, q, d, m)
      BY <2>1, DestinationTypes, MessageTypes
    <2>3. CountOn(stream', 1, root, "ACK") = CountOn(stream, 1, root, "ACK")
      BY <1>1, <1>2, <2>2, CountQueue
    <2> QED
      BY <1>3, <2>1, <2>3
  <1>12. ASSUME Reading(q), Fits(q), NEW a \in Rank, a = 1
         PROVE  CountOn(Taken(q), a, root, "ACK")
                  = CountOn(stream, a, root, "ACK")
                      - (IF a = Peer(q) /\ root = q /\ Head(Incoming(q)).kind = "ACK" THEN 1 ELSE 0)
    BY <1>0, <1>1, <1>12, ReadCount
  <1>7. CASE RecvToken(q)
    <2>1. /\ UNCHANGED <<acks, round>> /\ stream' = Taken(q) /\ Reading(q) /\ Fits(q)
          /\ pc[q] = "barrier recv"
      BY <1>7 DEF RecvToken, Reading
    <2>2. Head(Incoming(q)).kind = "TOKEN"
      BY <1>0, <2>1, Reads
    <2>3. PICK a \in Rank : a = 1
      BY <1>1
    <2>4. CountOn(Taken(q), a, root, "ACK") = CountOn(stream, a, root, "ACK") - 0
      <3>1. CountOn(Taken(q), a, root, "ACK")
              = CountOn(stream, a, root, "ACK")
                  - (IF a = Peer(q) /\ root = q /\ Head(Incoming(q)).kind = "ACK" THEN 1 ELSE 0)
        BY <1>12, <2>1, <2>3
      <3> QED
        BY <2>2, <3>1
    <2>5. CountOn(Taken(q), 1, root, "ACK") = CountOn(stream, 1, root, "ACK")
      BY <1>2, <2>3, <2>4
    <2>6. CountOn(stream', 1, root, "ACK") = CountOn(stream, 1, root, "ACK")
      <3>1. stream' = Taken(q)
        BY <2>1
      <3> QED
        BY <2>5, <3>1
    <2> QED
      BY <1>3, <2>1, <2>6
  <1>8. CASE RecvAnswer(q)
    <2>1. /\ pc[q] = "answers" /\ Reading(q) /\ Fits(q) /\ acks' = acks
          /\ stream' = Reply(q, Head(Incoming(q)), Taken(q))
      BY <1>8 DEF RecvAnswer, Reading
    <2>2. Head(Incoming(q)).kind = "ACK"
      <3>1. Head(Incoming(q)).kind \in {"ACK", "TOKEN"}
        BY <1>0, <2>1, NobodyAsks
      <3> QED
        BY <1>0, <2>1, <3>1, Reads
    <2>3. stream' = Taken(q)
      BY <2>1, <2>2 DEF Reply
    <2>4. CountOn(stream', 1, root, "ACK")
            = CountOn(stream, 1, root, "ACK")
                - (IF 1 = Peer(q) /\ root = q /\ Head(Incoming(q)).kind = "ACK" THEN 1 ELSE 0)
      BY <1>0, <1>1, <2>1, <2>3, ReadCount
    <2>5. Peer(q) = next(q)
      BY <1>0, <2>1, Reads, ProgramParts DEF Program
    <2>6. CASE q = root
      <3>1. round'[root] = round[root] + 1
        BY <1>0, <1>8, <2>6, OwnReturn DEF RecvAnswer, LastAnswer
      <3>2. CountOn(stream', 1, root, "ACK") = CountOn(stream, 1, root, "ACK") - 1
        BY <1>1, <2>2, <2>4, <2>5, <2>6
      <3> QED
        BY <1>2, <1>3, <2>1, <3>1, <3>2
    <2>7. CASE q # root
      <3>1. CountOn(stream', 1, root, "ACK") = CountOn(stream, 1, root, "ACK")
        BY <1>2, <2>4, <2>7
      <3> QED
        BY <1>3, <1>4, <2>1, <2>7, <3>1
    <2> QED
      BY <2>6, <2>7
  <1>9. CASE SendAck(q)
    <2>1. /\ q # root /\ acks' = [acks EXCEPT ![q] = @ + 1]
          /\ stream' = Queue(stream, q, prev(q), Header("ACK", q))
      <3>1. pc[q] = "ack"
        BY <1>9 DEF SendAck
      <3>2. q # root
        BY <1>0, <3>1, ProgramParts DEF Program
      <3> QED
        BY <1>9, <3>2 DEF SendAck, AckTo
    <2>2. PICK m \in Message, d \in Rank :
            /\ m.kind = "ACK" /\ d = prev(q) /\ stream' = Queue(stream, q, d, m)
      BY <2>1, DestinationTypes, MessageTypes
    <2>3. CountOn(stream', 1, root, "ACK")
            = CountOn(stream, 1, root, "ACK") + (IF 1 = q /\ root = d /\ m.kind = "ACK" THEN 1 ELSE 0)
      BY <1>1, <1>2, <2>2, CountQueue
    <2>4. CASE q = 1
      <3>1. d = root
        BY <2>2, <2>4, PrevRank, TheRoot
      <3>2. CountOn(stream', 1, root, "ACK") = CountOn(stream, 1, root, "ACK") + 1
        BY <2>2, <2>3, <2>4, <3>1
      <3>3. acks'[1] = acks[1] + 1
        BY <1>1, <1>2, <2>1, <2>4
      <3> QED
        BY <1>2, <1>3, <1>4, <2>1, <3>2, <3>3
    <2>5. CASE q # 1
      <3>1. acks'[1] = acks[1] /\ CountOn(stream', 1, root, "ACK") = CountOn(stream, 1, root, "ACK")
        BY <1>1, <1>2, <2>1, <2>3, <2>5
      <3> QED
        BY <1>3, <1>4, <2>1, <3>1
    <2> QED
      BY <2>4, <2>5
  <1>10. CASE SendFragment(q)
    <2>1. acks' = acks /\ stream' = stream /\ round'[q] = round[q]
      BY <1>10, Sending DEF SendFragment
    <2> QED
      BY <1>3, <1>4, <2>1
  <1>11. CASE Recvfrom(q)
    <2>1. /\ pc[q] = "recv" /\ acks' = acks /\ stream' = stream
      BY <1>0, <1>11 DEF Recvfrom
    <2>2. q # root
      BY <1>0, <2>1, ProgramParts DEF Program
    <2> QED
      BY <1>3, <1>4, <2>1, <2>2
  <1> QED
    BY <1>5, <1>6, <1>7, <1>8, <1>9, <1>10, <1>11

-----------------------------------------------------------------------------

LEMMA DeliveryInit == CInit => DeliveryInv
  <1> SUFFICES ASSUME CInit
               PROVE  DeliveryInv
    OBVIOUS
  <1>1. Barrier!IInv
    BY BarrierInit, BarrierInitInv
  <1>2. /\ net = {} /\ pc = [r \in Rank |-> "out"] /\ round = [r \in Rank |-> 0]
        /\ buf = [r \in Rank |-> 0] /\ peer = [r \in Rank |-> 1] /\ acks = [r \in Rank |-> 0]
        /\ frag = [r \in Rank |-> <<>>] /\ sock = [r \in Rank |-> <<>>]
    BY DEF CInit, NetInit, NoContent
  <1>3. DueInv
    BY <1>2, TheRoot DEF DueInv
  <1>4. ASSUME NEW r \in Receiver
        PROVE  Got(r) = 0 /\ SentTo(r) = 0
    <2>1. PICK s \in Rank : s = Sender(r)
      BY Senders
    <2>2. /\ r \in 1 .. N-1 /\ r \in Rank /\ root \in Rank /\ pc[s] = "out" /\ round[s] = 0
          /\ pc[r] = "out" /\ round[r] = 0 /\ peer[root] = 1
      BY <1>2, Senders, TheRoot
    <2>3. SentTo(r) = round[s] + (IF \/ pc[s] = "answers" /\ (NaiveLinear => r <= peer[root])
                                     \/ NaiveLinear /\ r < peer[root] THEN 1 ELSE 0)
      BY <2>1 DEF SentTo
    <2> QED
      BY <2>2, <2>3 DEF Got
  <1>5. GotInv
    <2>1. buf[root] = round[root] + (IF pc[root] = "answers" \/ peer[root] > 1 THEN 1 ELSE 0)
      BY <1>2, TheRoot
    <2>2. \A r \in Receiver : r \in Rank
      BY TheRoot
    <2> QED
      BY <1>2, <1>4, <2>1, <2>2, TheRoot DEF GotInv
  <1>6. AnswerInv
    <2>1. 1 \in Rank /\ root \in Rank
      BY TheRoot, InRank, NAssumption
    <2>2. stream[Link(1, root)] = <<>> /\ acks[1] = 0 /\ round[root] = 0
      BY <1>2, <2>1 DEF CInit, Link
    <2>3. Count(<<>>, "ACK") = 0
      BY CountEmpty
    <2> QED
      BY <2>2, <2>3 DEF AnswerInv
  <1> QED
    BY <1>1, <1>3, <1>5, <1>6 DEF DeliveryInv

LEMMA DeliveryStep ==
  ASSUME CInv, DeliveryInv, [CNext]_vars
  PROVE  DeliveryInv'
  <1>1. Quiet' => Barrier!IInv'
    <2> SUFFICES ASSUME Quiet'
                 PROVE  Barrier!IInv'
      OBVIOUS
    <2>1. Quiet
      BY Chosen
    <2>2. StreamsFramed'
      BY CStepInv DEF CInv, FrameInv
    <2> QED
      BY <2>1, <2>2, BarrierStepInv DEF DeliveryInv
  <1>2. ASSUME Plain'
        PROVE  DueInv' /\ GotInv' /\ AnswerInv'
    <2>1. Plain /\ Quiet /\ CTypeOK /\ timeouts = 0 /\ CInv' /\ timeouts' = 0
      BY <1>2, Chosen, Regime, CStepInv DEF Plain
    <2>2. DueInv /\ GotInv /\ AnswerInv /\ Barrier!IInv
      BY <2>1 DEF DeliveryInv
    <2>3. CASE UNCHANGED vars
      BY <2>2, <2>3 DEF vars, netVars, rankVars, options, DueInv, GotInv, AnswerInv, Due, WellFormed, Got, SentTo,
                        Sender, NaiveRing, NaiveLinear, Eager, Opcode
    <2>4. CASE DataPlane
      <3>1. DueInv'
        BY <2>1, <2>2, <2>4, DuePlaneStep
      <3>2. GotInv' /\ AnswerInv'
        BY <2>2, <2>4 DEF DataPlane, rankVars, GotInv, AnswerInv, Got, SentTo, Sender, NaiveRing, NaiveLinear,
                          Eager
      <3> QED
        BY <3>1, <3>2
    <2>5. ASSUME NEW q \in Rank, RankStep(q) \/ Timeout(q)
          PROVE  DueInv' /\ GotInv' /\ AnswerInv'
      <3>1. CASE EnterBarrier(q) \/ SendToken(q) \/ RecvToken(q) \/ RecvAnswer(q) \/ SendAck(q)
        BY <2>1, <2>2, <3>1, AsideKeeps, AnswerStep
      <3>2. CASE SendFragment(q)
        BY <2>1, <2>2, <3>2, SendDue, SendGot, AnswerStep
      <3>3. CASE Recvfrom(q)
        BY <2>1, <2>2, <3>3, RecvDue, RecvGot, AnswerStep
      <3>4. ~Garble(q)
        <4>1. pc \in [Rank -> Labels]
          BY <2>1, Regime DEF ControlType
        <4>2. timeouts' = 0 /\ ~RecvAcks'
          BY <1>2, <2>1 DEF Plain, RecvAcks
        <4>3. FrameInv'
          BY <2>1, <4>2 DEF CInv, Quiet
        <4>4. pc'[q] # "garbled"
          BY <4>3 DEF FrameInv, StreamsFramed
        <4> QED
          BY <4>1, <4>4 DEF Garble
      <3>5. ~RecvFallback(q)
        BY <2>1, Regime DEF RecvFallback
      <3>6. ~Timeout(q)
        BY <2>1 DEF Timeout
      <3> QED
        BY <2>5, <3>1, <3>2, <3>3, <3>4, <3>5, <3>6 DEF RankStep
    <2> QED
      BY <2>3, <2>4, <2>5 DEF CNext
  <1> QED
    BY <1>1, <1>2 DEF DeliveryInv

\* THEOREM.  While no receive times out and the payload is one datagram, what is
\* due to a rank over the XDP data plane is the one broadcast it has not received,
\* and nothing is due to a rank twice; in every run in which the streams are not
\* misread the barriers are in step.
THEOREM DeliveryInvariance == CSpec => []DeliveryInv
  <1>1. CInit => DeliveryInv
    BY DeliveryInit
  <1>2. CInv /\ DeliveryInv /\ [CNext]_vars => DeliveryInv'
    BY DeliveryStep
  <1> QED
    BY <1>1, <1>2, CInvariance, PTL DEF CSpec, CSafety

-----------------------------------------------------------------------------
(* What follows.                                                            *)

\* What a receiver has, against what the root has started.
LEMMA ReceiverCounts ==
  ASSUME CInv, DeliveryInv, Plain, NEW r \in Receiver
  PROVE  /\ r \in Rank /\ r # root /\ root \in Rank
         /\ round[r] \in Nat /\ Got(r) \in Nat /\ SentTo(r) \in Nat /\ buf[root] \in Int
         /\ round[r] <= Got(r) /\ buf[r] = Got(r) /\ Got(r) <= SentTo(r) /\ SentTo(r) <= buf[root]
         /\ buf[root] <= Left(root) /\ Left(root) \in Nat /\ Left(root) <= round[r] + 1
  <1>1. DueInv /\ GotInv /\ Barrier!IInv
    BY Regime DEF DeliveryInv
  <1>2. r \in Rank /\ r # root /\ root \in Rank /\ CTypeOK
    BY Senders, TheRoot, Regime
  <1>3. round[r] \in Nat
    BY <1>2, Regime
  <1>4. Left(root) <= Left(r)
    BY <1>1, <1>2, RootLeaves DEF RootLeftLast
  <1>5. Left(r) \in Nat /\ Left(r) <= round[r] + 1
    BY <1>3 DEF Left
  <1>6. buf[root] <= Left(root) /\ Left(root) \in Nat /\ buf[root] \in Int
    BY <1>1, RootBuffer
  <1>7. Left(root) <= round[r] + 1
    BY <1>3, <1>4, <1>5, <1>6
  <1>8. Got(r) \in Nat /\ SentTo(r) \in Nat /\ round[r] <= Got(r)
    BY <1>2, CountTypes
  <1>9. buf[r] = Got(r) /\ Got(r) <= SentTo(r) /\ SentTo(r) <= buf[root]
    BY <1>1 DEF GotInv
  <1> QED
    BY <1>2, <1>3, <1>6, <1>7, <1>8, <1>9

LEMMA PlainContent ==
  ASSUME CInv, DeliveryInv, Plain
  PROVE  RightContent
  <1> SUFFICES ASSUME NEW r \in Receiver
               PROVE  (pc[r] = "ack" => buf[r] = round[r] + 1) /\ (pc[r] = "out" => buf[r] = round[r])
    BY DEF RightContent
  <1>1. buf[r] = Got(r) /\ r # root /\ round[r] \in Nat
    BY ReceiverCounts
  <1> QED
    BY <1>1 DEF Got

LEMMA PlainReady ==
  ASSUME CInv, DeliveryInv, Plain
  PROVE  ReadyForNext
  <1> SUFFICES ASSUME pc[root] = "send", peer[root] = 1
               PROVE  /\ \A r \in Receiver : buf[r] = round[root] /\ sock[r] = <<>>
                      /\ \A p \in net : p.at = "copy" /\ handle_clone(p) = {}
    BY DEF ReadyForNext
  <1>1. DueInv /\ GotInv /\ TypeOK
    BY Regime DEF DeliveryInv
  <1>2. buf[root] = round[root] /\ round[root] \in Nat /\ Left(root) = round[root] + 1
    <2>1. buf[root] = round[root] /\ round[root] \in Nat
      BY <1>1, RootBuffer, Regime, TheRoot
    <2> QED
      BY <2>1 DEF Left, InBarrier
  <1>3. ASSUME NEW r \in Receiver
        PROVE  Got(r) = round[root] /\ SentTo(r) = round[root] /\ buf[r] = round[root]
    <2>1. /\ round[r] \in Nat /\ Got(r) \in Nat /\ SentTo(r) \in Nat
          /\ round[r] <= Got(r) /\ Got(r) <= SentTo(r) /\ SentTo(r) <= buf[root]
          /\ Left(root) <= round[r] + 1 /\ buf[r] = Got(r)
      BY ReceiverCounts
    <2> QED
      BY <1>2, <2>1
  <1>4. \A r \in Receiver : \A p : ~Due(r, p)
    BY <1>2, <1>3 DEF Due
  <1>5. \A r \in Receiver : sock[r] = <<>>
    BY <1>1, <1>4 DEF DueInv
  <1>6. ASSUME NEW p \in net
        PROVE  p \in Packet /\ WellFormed(p) /\ Claim(p) = {}
    <2>1. p \in Packet /\ WellFormed(p)
      BY <1>1 DEF TypeOK, DueInv
    <2>2. \A r \in Claim(p) : r \in Receiver /\ Due(r, p)
      <3>1. \A r \in Claim(p) : r \in Rank /\ r # root /\ Due(r, p)
        BY <1>1, <2>1, ClaimInRank DEF DueInv
      <3> QED
        BY <3>1, TheRoot
    <2> QED
      BY <1>4, <2>1, <2>2
  <1>7. ASSUME NEW p \in net
        PROVE  p.at = "copy" /\ handle_clone(p) = {}
    <2>1. p.at = "copy"
      BY <1>6, ClaimsItsRank
    <2>2. ASSUME NEW s \in handle_clone(p)
          PROVE  FALSE
      <3>1. WellFormed(s) /\ s.at = "cable"
        BY <1>6, <2>1, HopWellFormed
      <3>2. s \in Packet /\ Claim(s) \subseteq Claim(p)
        BY <1>6, <2>1, ClaimOfHop
      <3>3. s.dst \in Claim(s)
        BY <3>1, <3>2, ClaimsItsRank
      <3> QED
        BY <1>6, <3>2, <3>3
    <2> QED
      BY <2>1, <2>2
  <1> QED
    BY <1>3, <1>5, <1>7

LEMMA PlainAnswers ==
  ASSUME CInv, DeliveryInv, Plain
  PROVE  AnswersRead
  <1> SUFFICES ASSUME ~InBcast(root), NEW r \in Receiver, NEW i \in DOMAIN stream[Link(r, root)],
                      stream[Link(r, root)][i].kind # "TOKEN"
               PROVE  FALSE
    BY DEF AnswersRead
  <1>0. /\ FrameInv /\ GotInv /\ AnswerInv /\ r \in Rank /\ r # root /\ root \in Rank
        /\ stream \in StreamType /\ round[root] \in Nat /\ timeouts = 0 /\ acks[r] \in Nat
    <2>1. FrameInv /\ GotInv /\ AnswerInv /\ timeouts = 0 /\ DataType
      BY Regime DEF DeliveryInv
    <2>2. r \in Rank /\ r # root /\ root \in Rank
      BY ReceiverCounts
    <2> QED
      BY <2>1, <2>2, Regime DEF DataType
  <1>1. stream[Link(r, root)][i].kind = "ACK" /\ ~Eager /\ root = AckTo(r)
    BY <1>0 DEF FrameInv
  <1>2. Count(stream[Link(r, root)], "ACK") \in Nat \ {0}
    <2>1. stream[Link(r, root)] \in Seq(Message)
      BY <1>0 DEF StreamType, Link
    <2>2. PICK S : S = {j \in DOMAIN stream[Link(r, root)] : stream[Link(r, root)][j].kind = "ACK"}
      OBVIOUS
    <2>3. DOMAIN stream[Link(r, root)] = 1 .. Len(stream[Link(r, root)])
          /\ Len(stream[Link(r, root)]) \in Nat
      BY <2>1
    <2>4. IsFiniteSet(S)
      <3>1. IsFiniteSet(1 .. Len(stream[Link(r, root)]))
        BY <2>3, FS_Interval
      <3> QED
        BY <2>2, <2>3, <3>1, FS_Subset
    <2>5. i \in S
      BY <1>1, <2>2
    <2>6. Cardinality(S) \in Nat /\ Cardinality(S) # 0
      BY <2>4, <2>5, FS_CardinalityType, FS_EmptySet
    <2> QED
      BY <2>2, <2>6 DEF Count
  <1>3. acks[r] <= round[root]
    <2>1. acks[r] = round[r] + (IF pc[r] \in {"send", "answers"} THEN 1 ELSE 0)
      BY <1>0, <1>1 DEF GotInv
    <2>2. /\ Got(r) <= SentTo(r) /\ SentTo(r) <= buf[root] /\ buf[root] = round[root]
          /\ round[r] \in Nat /\ Got(r) \in Nat /\ SentTo(r) \in Nat /\ peer[root] = 1
      <3>1. pc[root] \in {"out", "barrier send", "barrier recv", "done"}
        BY <1>0, Regime DEF InBcast
      <3>2. peer[root] = 1
        BY <1>0, <3>1, RootBuffer DEF InBarrier
      <3>3. buf[root] = round[root]
        BY <1>0, <3>1, <3>2, RootBuffer
      <3> QED
        BY <3>2, <3>3, ReceiverCounts
    <2>3. acks[r] <= Got(r)
      BY <1>0, <2>1, <2>2 DEF Got
    <2> QED
      BY <1>0, <2>2, <2>3
  <1>4. acks[r] >= Count(stream[Link(r, root)], "ACK") + round[root]
    <2>1. CASE WaitsForAll
      <3>1. acks[r] = Count(stream[Link(r, root)], "ACK") + round[root]
                      + (IF r < peer[root] THEN 1 ELSE 0)
        BY <1>0, <2>1 DEF CInv, AckInv
      <3> QED
        BY <1>0, <1>2, <3>1
    <2>2. CASE NaiveRing
      <3>1. r = 1
        BY <1>0, <1>1, <2>2, PrevRank, TheRoot, InRank, NAssumption DEF AckTo
      <3> QED
        BY <1>0, <1>2, <2>2, <3>1 DEF AnswerInv
    <2> QED
      BY <1>1, <2>1, <2>2 DEF WaitsForAll
  <1> QED
    BY <1>0, <1>2, <1>3, <1>4

\* THEOREM.  With one datagram for a payload, over the XDP data plane: as long as no
\* receive has timed out, a rank that acknowledges or has returned from its k-th
\* broadcast has the content of the k-th broadcast, whatever has been lost, whatever
\* is late and however far the ranks are apart.
THEOREM ContentCorrect == CSpec => [](Plain => RightContent)
  <1>1. CInv /\ DeliveryInv => (Plain => RightContent)
    BY PlainContent
  <1> QED
    BY <1>1, CInvariance, DeliveryInvariance, PTL

\* THEOREM.  In the same regime, when the root starts its next broadcast nothing is
\* left of the last one: every rank has its content, every socket is empty, and the
\* copies still in the driver are those it is about to discard.
THEOREM ReadyCorrect == CSpec => [](Plain => ReadyForNext)
  <1>1. CInv /\ DeliveryInv => (Plain => ReadyForNext)
    BY PlainReady
  <1> QED
    BY <1>1, CInvariance, DeliveryInvariance, PTL

\* THEOREM.  In the same regime, outside its broadcasts the root has no answer unread:
\* the streams on which answers arrive hold barrier tokens only.
THEOREM AnswersCorrect == CSpec => [](Plain => AnswersRead)
  <1>1. CInv /\ DeliveryInv => (Plain => AnswersRead)
    BY PlainAnswers
  <1> QED
    BY <1>1, CInvariance, DeliveryInvariance, PTL

-----------------------------------------------------------------------------
(* The refinement of Broadcast, by the steps of the root and the receivers. *)

\* What Broadcast sees of the ranks.
content == [r \in Receiver |-> buf[r]]

LEMMA PromiseNames ==
  /\ Promise!Receiver = Receiver
  /\ Promise!Init <=> buf[root] = 0 /\ finished = 0 /\ content = [r \in Receiver |-> 0]
  /\ Promise!Start <=> /\ buf[root] = finished /\ buf[root] < MaxBcasts
                       /\ buf'[root] = buf[root] + 1
                       /\ finished' = finished /\ content' = content
  /\ \A r : Promise!Receive(r) <=>
       /\ content[r] < buf[root] /\ content' = [content EXCEPT ![r] = buf[root]]
       /\ buf'[root] = buf[root] /\ finished' = finished
  /\ Promise!Return <=> /\ finished < buf[root]
                        /\ \A r \in Receiver : content[r] = buf[root]
                        /\ finished' = buf[root]
                        /\ buf'[root] = buf[root] /\ content' = content
  /\ UNCHANGED Promise!vars <=>
       buf'[root] = buf[root] /\ finished' = finished /\ content' = content
  <1>1. Promise!Receiver = Receiver
    BY TheRoot DEF Promise!Receiver
  <1> QED
    BY <1>1 DEF Promise!Init, Promise!Start, Promise!Receive, Promise!Return, Promise!vars, content

LEMMA PromiseInit == CInit => Promise!Init
  <1> SUFFICES ASSUME CInit
               PROVE  Promise!Init
    OBVIOUS
  <1>1. /\ buf = [r \in Rank |-> 0] /\ round = [r \in Rank |-> 0] /\ root \in Rank
        /\ \A r \in Receiver : r \in Rank
    BY TheRoot DEF CInit, NoContent
  <1>2. buf[root] = 0 /\ round[root] = 0 /\ content = [r \in Receiver |-> 0]
    BY <1>1 DEF content
  <1>3. finished = 0
    BY <1>2 DEF finished
  <1> QED
    BY <1>2, <1>3, PromiseNames

\* Nothing that Broadcast sees changes while the root stays where it is and the
\* buffers stay as they are.
LEMMA SameFinished ==
  ASSUME algo' = algo, round'[root] = round[root],
         InBarrier(root)' <=> InBarrier(root)
  PROVE  finished' = finished
  BY DEF finished, WaitsForAll, Eager, NaiveRing

LEMMA PromiseStutters ==
  ASSUME algo' = algo, buf' = buf, round'[root] = round[root],
         InBarrier(root)' <=> InBarrier(root)
  PROVE  UNCHANGED Promise!vars
  <1>1. finished' = finished
    BY SameFinished
  <1> QED
    BY <1>1, PromiseNames DEF content

\* A rank other than the root that receives nothing.
LEMMA OthersKeepPromise ==
  ASSUME CInv, Plain, NEW q \in Rank, q # root, RankStep(q), buf' = buf
  PROVE  UNCHANGED Promise!vars
  <1>1. algo' = algo /\ pc'[root] = pc[root] /\ round'[root] = round[root]
    BY Regime, TheRoot, Elsewhere
  <1> QED
    BY <1>1, PromiseStutters DEF InBarrier

\* A receive brings what the root has started last.
LEMMA ReceiveKeepsPromise ==
  ASSUME CInv, DeliveryInv, Plain, NEW q \in Rank, Recvfrom(q)
  PROVE  \E r \in Promise!Receiver : Promise!Receive(r)
  <1>0. DueInv /\ GotInv /\ CTypeOK /\ RankStep(q)
    BY Regime DEF DeliveryInv, RankStep
  <1>1. /\ q \in Receiver /\ Got(q) = SentTo(q) - 1 /\ round[q] = Got(q)
        /\ buf' = [buf EXCEPT ![q] = SentTo(q)]
    BY <1>0, Receiving
  <1>2. /\ q # root /\ root \in Rank /\ Got(q) \in Nat /\ SentTo(q) \in Nat /\ buf[root] \in Int
        /\ buf[q] = Got(q) /\ SentTo(q) <= buf[root]
        /\ buf[root] <= Left(root) /\ Left(root) \in Nat /\ Left(root) <= round[q] + 1
    BY <1>1, ReceiverCounts
  <1>3. SentTo(q) = buf[root] /\ buf[q] < buf[root]
    BY <1>1, <1>2
  <1>4. buf \in [Rank -> Int] /\ Receiver \subseteq Rank
    BY Regime, TheRoot, MaxBcastsAssumption DEF DataType
  <1>5. content[q] < buf[root] /\ content' = [content EXCEPT ![q] = buf[root]]
    <2>1. content[q] = buf[q]
      BY <1>1 DEF content
    <2>2. \A r \in Receiver : buf'[r] = IF r = q THEN buf[root] ELSE buf[r]
      BY <1>1, <1>3, <1>4
    <2>3. content' = [r \in Receiver |-> buf'[r]]
      BY DEF content
    <2> QED
      BY <1>3, <2>1, <2>2, <2>3 DEF content
  <1>6. buf'[root] = buf[root]
    BY <1>1, <1>2, <1>4
  <1>7. finished' = finished
    <2>1. algo' = algo /\ pc'[root] = pc[root] /\ round'[root] = round[root]
      BY <1>0, <1>2, Elsewhere
    <2> QED
      BY <2>1, SameFinished DEF InBarrier
  <1> QED
    BY <1>1, <1>5, <1>6, <1>7, PromiseNames

\* The first datagram of a broadcast starts it; in the eager broadcast the root
\* has then put the one before behind it, and not this one.
LEMMA SendKeepsPromise ==
  ASSUME CInv, DeliveryInv, Plain, SendFragment(root)
  PROVE  Promise!Start \/ UNCHANGED Promise!vars
  <1>0. /\ GotInv /\ root \in Rank /\ round[root] \in Nat /\ peer[root] \in 1 .. N-1
        /\ buf \in [Rank -> Int] /\ Receiver \subseteq Rank /\ root \notin Receiver
    BY Regime, TheRoot, MaxBcastsAssumption DEF DeliveryInv, DataType
  <1>1. /\ pc[root] = "send" /\ buf' = [buf EXCEPT ![root] = round[root] + 1] /\ algo' = algo
        /\ Eager => pc'[root] = "out" /\ round'[root] = round[root] + 1
        /\ ~Eager => pc'[root] = "answers" /\ round'[root] = round[root]
    BY <1>0, Sending
  <1>2. round[root] < MaxBcasts
    BY <1>0, <1>1, Regime, ProgramParts DEF Program, InBcast
  <1>3. finished = round[root]
    BY <1>1 DEF finished, InBarrier
  <1>4. finished' = round[root]
    <2>1. CASE Eager
      <3>1. finished' = IF ~WaitsForAll' /\ InBarrier(root)' /\ round'[root] > 0
                        THEN round'[root] - 1 ELSE round'[root]
        BY DEF finished
      <3>2. ~WaitsForAll' /\ InBarrier(root)'
        BY <1>1, <2>1 DEF WaitsForAll, Eager, InBarrier
      <3>3. round'[root] = round[root] + 1
        BY <1>1, <2>1
      <3> QED
        BY <1>0, <3>1, <3>2, <3>3
    <2>2. CASE ~Eager
      BY <1>1, <2>2 DEF finished, InBarrier
    <2> QED
      BY <2>1, <2>2
  <1>5. content' = content /\ buf'[root] = round[root] + 1
    BY <1>0, <1>1 DEF content
  <1>6. CASE peer[root] = 1
    <2>1. buf[root] = round[root]
      BY <1>0, <1>1, <1>6, RootBuffer
    <2> QED
      BY <1>2, <1>3, <1>4, <1>5, <2>1, PromiseNames
  <1>7. CASE peer[root] > 1
    <2>1. buf[root] = round[root] + 1
      BY <1>0, <1>7, RootBuffer
    <2> QED
      BY <1>3, <1>4, <1>5, <2>1, PromiseNames
  <1> QED
    BY <1>0, <1>6, <1>7

\* The last answer is that of a rank that has the content, and so have those that
\* have answered before; the naive ring has one answer only.
LEMMA AnswersKeepPromise ==
  ASSUME CInv, DeliveryInv, Plain, CInv', DeliveryInv', Plain', RecvAnswer(root)
  PROVE  Promise!Return \/ UNCHANGED Promise!vars
  <1>0. /\ GotInv /\ root \in Rank /\ round[root] \in Nat /\ ControlType /\ pc[root] = "answers"
        /\ buf' = buf /\ algo' = algo /\ buf[root] = round[root] + 1
    <2>1. /\ GotInv /\ root \in Rank /\ round[root] \in Nat /\ ControlType
      BY Regime, TheRoot DEF DeliveryInv
    <2>2. pc[root] = "answers" /\ buf' = buf /\ algo' = algo
      BY DEF RecvAnswer, options
    <2> QED
      BY <2>1, <2>2, RootBuffer
  <1>1. finished = round[root] /\ content' = content /\ buf'[root] = buf[root]
    BY <1>0 DEF finished, InBarrier, content
  <1>2. CASE ~LastAnswer(root)
    <2>1. round' = round /\ pc'[root] \in {"send", "answers"}
      BY <1>0, <1>2 DEF RecvAnswer, ControlType
    <2> QED
      BY <1>0, <2>1, PromiseStutters DEF InBarrier
  <1>3. CASE LastAnswer(root)
    <2>1. pc'[root] = "out" /\ round'[root] = round[root] + 1 /\ peer'[root] = 1
      BY <1>0, <1>3, OwnReturn DEF RecvAnswer
    <2>2. finished' = IF ~WaitsForAll' /\ InBarrier(root)' /\ round'[root] > 0
                      THEN round'[root] - 1 ELSE round'[root]
      BY DEF finished
    <2>3. WaitsForAll' <=> WaitsForAll
      BY <1>0 DEF WaitsForAll, Eager, NaiveRing
    <2>4. CASE ~WaitsForAll
      <3>1. finished' = round'[root] - 1
        BY <1>0, <2>1, <2>2, <2>3, <2>4 DEF InBarrier
      <3> QED
        BY <1>0, <1>1, <2>1, <3>1, PromiseNames
    <2>5. CASE WaitsForAll
      <3>1. finished' = round[root] + 1
        BY <2>1, <2>2, <2>3, <2>5
      <3>2. ASSUME NEW r \in Receiver
            PROVE  content[r] = buf[root]
        <4>1. /\ timeouts' = 0 /\ AckInv' /\ GotInv' /\ r \in Rank /\ r # root /\ r \in 1 .. N-1
              /\ stream' \in StreamType /\ round'[r] \in Nat /\ acks'[r] \in Nat
          <5>1. AckInv' /\ CTypeOK' /\ timeouts' = 0
            BY DEF CInv, Plain
          <5>2. ControlType' /\ DataType'
            BY <5>1, TypeParts
          <5>3. r \in Rank /\ r # root /\ r \in 1 .. N-1
            BY TheRoot
          <5>4. round'[r] \in Nat /\ acks'[r] \in Nat
            BY <5>2, <5>3, MaxBcastsAssumption DEF ControlType, DataType
          <5>5. GotInv' /\ stream' \in StreamType
            BY <5>2 DEF DeliveryInv, DataType
          <5> QED
            BY <5>1, <5>3, <5>4, <5>5
        <4>2. acks'[r] = CountOn(stream', r, root, "ACK") + round'[root]
                         + (IF r < peer'[root] THEN 1 ELSE 0)
          BY <2>3, <2>5, <4>1 DEF AckInv, CountOn
        <4>3. CountOn(stream', r, root, "ACK") \in Nat
          BY <1>0, <4>1, CountOnType
        <4>4. acks'[r] >= round[root] + 1
          BY <1>0, <2>1, <4>1, <4>2, <4>3
        <4>5. acks'[r] = round'[r] + (IF pc'[r] \in {"send", "answers"} THEN 1 ELSE 0)
          <5>1. ~Eager'
            BY <2>3, <2>5 DEF WaitsForAll
          <5> QED
            BY <4>1, <5>1 DEF GotInv
        <4>6. Got(r)' = round'[r] + (IF pc'[r] \in {"ack", "send", "answers"} THEN 1 ELSE 0)
          BY <4>1 DEF Got
        <4>7. acks'[r] <= Got(r)'
          BY <4>1, <4>5, <4>6
        <4>8. buf'[r] = Got(r)' /\ Got(r)' <= SentTo(r)' /\ SentTo(r)' <= buf'[root]
          BY <4>1 DEF GotInv
        <4>9. SentTo(r)' \in Int /\ Got(r)' \in Nat
          <5>1. Sender(r)' \in Rank
            BY PrevRank, TheRoot DEF Sender
          <5>2. ControlType'
            BY TypeParts DEF CInv
          <5>3. round'[Sender(r)'] \in Nat
            BY <5>1, <5>2, MaxBcastsAssumption DEF ControlType
          <5> QED
            BY <4>1, <4>6, <5>3 DEF SentTo
        <4>10. Got(r)' = round[root] + 1
          BY <1>0, <4>1, <4>4, <4>7, <4>8, <4>9
        <4> QED
          BY <1>0, <4>8, <4>10 DEF content
      <3> QED
        BY <1>0, <1>1, <3>1, <3>2, PromiseNames
    <2> QED
      BY <2>4, <2>5
  <1> QED
    BY <1>2, <1>3

\* The root leaves the barrier last: where it has not waited for answers, this is
\* when it has the broadcast before it behind it.
LEMMA TokenKeepsPromise ==
  ASSUME CInv, DeliveryInv, Plain, CInv', DeliveryInv', Plain', RecvToken(root)
  PROVE  Promise!Return \/ UNCHANGED Promise!vars
  <1>0. /\ GotInv /\ root \in Rank /\ round[root] \in Nat /\ ControlType
        /\ pc[root] = "barrier recv" /\ buf' = buf /\ round' = round /\ algo' = algo /\ root = 0
        /\ pc' = [pc EXCEPT ![root] = AfterBarrier(root)]
    <2>1. /\ GotInv /\ root \in Rank /\ round[root] \in Nat /\ ControlType
      BY Regime, TheRoot DEF DeliveryInv
    <2>2. pc[root] = "barrier recv" /\ buf' = buf /\ round' = round /\ algo' = algo /\ root = 0
      BY DEF RecvToken, options, root
    <2> QED
      BY <2>1, <2>2 DEF RecvToken
  <1>1. pc'[root] \in {"done", "send"}
    BY <1>0 DEF AfterBarrier, ControlType
  <1>2. InBarrier(root) /\ ~InBarrier(root)' /\ content' = content /\ buf'[root] = buf[root]
    BY <1>0, <1>1 DEF InBarrier, content
  <1>3. buf[root] = round[root]
    BY <1>0, <1>2, RootBuffer
  <1>4. finished' = round[root]
    BY <1>0, <1>2 DEF finished
  <1>7. round[root] \in Nat
    BY <1>0
  <1>5. CASE WaitsForAll \/ ~(round[root] > 0)
    <2>1. finished = round[root]
      BY <1>5 DEF finished
    <2> QED
      BY <1>2, <1>4, <2>1, PromiseNames
  <1>6. CASE ~WaitsForAll /\ round[root] > 0
    <2>1. finished = round[root] - 1
      BY <1>2, <1>6 DEF finished
    <2>2. ASSUME NEW r \in Receiver
          PROVE  content[r] = buf[root]
      <3>1. /\ r \in Rank /\ round[r] \in Nat /\ Got(r) \in Nat /\ SentTo(r) \in Nat
            /\ round[r] <= Got(r) /\ buf[r] = Got(r) /\ Got(r) <= SentTo(r) /\ SentTo(r) <= buf[root]
        BY ReceiverCounts
      <3>2. Barrier!IInv' /\ CTypeOK'
        <4>1. timeouts' = 0 /\ ~RecvAcks'
          BY DEF Plain, RecvAcks
        <4> QED
          BY <4>1 DEF DeliveryInv, Quiet, CInv
      <3>3. Left(root)' <= Left(r)'
        <4>1. (CTypeOK /\ Barrier!IInv => RootLeftLast)'
          BY RootLeaves, PTL
        <4> QED
          BY <3>1, <3>2, <4>1 DEF RootLeftLast
      <3>4. Left(root)' = round[root] + 1
        <4>1. Left(root)' = round'[root] + (IF InBarrier(root)' THEN 0 ELSE 1)
          BY DEF Left
        <4> QED
          BY <1>0, <1>2, <4>1
      <3>5. Left(r)' <= round[r] + 1
        <4>1. Left(r)' = round'[r] + (IF InBarrier(r)' THEN 0 ELSE 1)
          BY DEF Left
        <4>2. round'[r] = round[r]
          BY <1>0
        <4> QED
          BY <3>1, <4>1, <4>2
      <3>6. PICK l : l = Left(r)'
        OBVIOUS
      <3>7. round[root] <= round[r]
        <4>1. l \in Int
          <5>1. Left(r)' = round'[r] + (IF InBarrier(r)' THEN 0 ELSE 1) /\ round'[r] = round[r]
            BY <1>0 DEF Left
          <5> QED
            BY <3>1, <3>6, <5>1
        <4>2. round[root] + 1 <= l /\ l <= round[r] + 1
          BY <3>3, <3>4, <3>5, <3>6
        <4> QED
          BY <1>7, <3>1, <4>1, <4>2
      <3>8. Got(r) = buf[root]
        BY <1>3, <1>7, <3>1, <3>7
      <3> QED
        BY <3>1, <3>8 DEF content
    <2>3. finished < buf[root] /\ finished' = buf[root]
      BY <1>3, <1>4, <1>7, <2>1
    <2> QED
      BY <1>2, <2>2, <2>3, PromiseNames
  <1> QED
    BY <1>5, <1>6

LEMMA RootKeepsPromise ==
  ASSUME CInv, DeliveryInv, Plain, CInv', DeliveryInv', Plain', RankStep(root)
  PROVE  [Promise!Next]_(Promise!vars)
  <1>0. /\ ControlType /\ ProgramInv /\ root \in Rank /\ root = 0
        /\ pc[root] \notin {"recv", "fallback", "ack"} /\ pc'[root] # "garbled"
    <2>1. ControlType /\ ProgramInv /\ root \in Rank /\ root = 0
      BY Regime, TheRoot DEF root
    <2>2. pc[root] \notin {"recv", "fallback", "ack"}
      BY <2>1, ProgramParts DEF Program
    <2>3. FrameInv'
      <3>1. timeouts' = 0 /\ ~RecvAcks'
        BY DEF Plain, RecvAcks
      <3> QED
        BY <3>1 DEF CInv, Quiet
    <2> QED
      BY <2>1, <2>2, <2>3 DEF FrameInv, StreamsFramed
  <1>1. CASE EnterBarrier(root) \/ SendToken(root)
    <2>1. /\ InBarrier(root) /\ InBarrier(root)' /\ round' = round /\ buf' = buf /\ algo' = algo
      BY <1>0, <1>1 DEF EnterBarrier, SendToken, AfterToken, InBarrier, ControlType, options
    <2> QED
      BY <2>1, PromiseStutters
  <1>2. CASE RecvToken(root)
    BY <1>2, TokenKeepsPromise DEF Promise!Next
  <1>3. CASE SendFragment(root)
    BY <1>3, SendKeepsPromise DEF Promise!Next
  <1>4. CASE RecvAnswer(root)
    BY <1>4, AnswersKeepPromise DEF Promise!Next
  <1>5. ~Recvfrom(root) /\ ~RecvFallback(root) /\ ~SendAck(root)
    BY <1>0 DEF Recvfrom, RecvFallback, SendAck
  <1>6. ~Garble(root)
    BY <1>0 DEF Garble, ControlType
  <1> QED
    BY <1>1, <1>2, <1>3, <1>4, <1>5, <1>6 DEF RankStep

LEMMA PromiseStep ==
  CInv /\ DeliveryInv /\ Plain /\ CInv' /\ DeliveryInv' /\ Plain' /\ [CNext]_vars
    => [Promise!Next]_(Promise!vars)
  <1> SUFFICES ASSUME CInv, DeliveryInv, Plain, CInv', DeliveryInv', Plain', [CNext]_vars
               PROVE  [Promise!Next]_(Promise!vars)
    OBVIOUS
  <1>1. CASE UNCHANGED vars
    BY <1>1, PromiseStutters DEF vars, options, rankVars, InBarrier
  <1>2. CASE DataPlane
    BY <1>2, PromiseStutters DEF DataPlane, rankVars, InBarrier
  <1>3. ASSUME NEW q \in Rank, RankStep(q) \/ Timeout(q)
        PROVE  [Promise!Next]_(Promise!vars)
    <2>1. ~Timeout(q)
      <3>1. timeouts = 0 /\ timeouts' = 0
        BY DEF Plain
      <3> QED
        BY <3>1 DEF Timeout
    <2>2. CASE q = root
      BY <1>3, <2>1, <2>2, RootKeepsPromise
    <2>3. CASE q # root /\ Recvfrom(q)
      BY <2>3, ReceiveKeepsPromise DEF Promise!Next
    <2>4. CASE q # root /\ ~Recvfrom(q)
      <3>1. RankStep(q)
        BY <1>3, <2>1
      <3>2. ~RecvFallback(q)
        BY Regime DEF RecvFallback
      <3>3. buf' = buf
        BY <2>4, <3>1, <3>2 DEF RankStep, EnterBarrier, SendToken, RecvToken, Garble, SendFragment,
                                RecvAnswer, SendAck
      <3> QED
        BY <2>4, <3>1, <3>3, OthersKeepPromise
    <2> QED
      BY <2>2, <2>3, <2>4
  <1> QED
    BY <1>1, <1>2, <1>3 DEF CNext

\* THEOREM.  A run with one datagram for a payload, over the XDP data plane and with no
\* receive that times out keeps the promise of the broadcast, by each of the five
\* algorithms: every receive brings the content of the broadcast the root has
\* started last, and the root has a broadcast behind it only when every rank has
\* its content.
THEOREM PromiseKept == CSpec /\ []Plain => KeepsThePromise
  <1>1. CInit => Promise!Init
    BY PromiseInit
  <1>2. CInv /\ DeliveryInv /\ Plain /\ CInv' /\ DeliveryInv' /\ Plain' /\ [CNext]_vars
          => [Promise!Next]_(Promise!vars)
    BY PromiseStep
  <1> QED
    BY <1>1, <1>2, CInvariance, DeliveryInvariance, PTL
    DEF CSpec, CSafety, KeepsThePromise, Promise!Spec

\* THEOREM.  The same, told of the constants: where the benchmark is run so, all of
\* this holds in every state of every run, for every number of ranks and of
\* broadcasts and whatever is lost in the data plane.
THEOREM PlainBroadcasts ==
  ASSUME Planes = {"XDP"}, Fragments = 1, MaxTimeouts = 0
  PROVE  CSpec => /\ []RightContent /\ []ReadyForNext /\ []AnswersRead
                  /\ KeepsThePromise
  <1>1. CInv => Plain
    <2> SUFFICES ASSUME CInv
                 PROVE  Plain
      OBVIOUS
    <2>1. plane \in {"XDP"} /\ timeouts \in 0 .. 0
      BY TypeParts DEF CInv, DataType
    <2>2. timeouts = 0
      BY <2>1
    <2> QED
      BY <2>1, <2>2 DEF Plain
  <1> QED
    BY <1>1, CInvariance, ContentCorrect, ReadyCorrect, AnswersCorrect, PromiseKept, PTL


-----------------------------------------------------------------------------
(* A single broadcast, whatever is lost, late or cut into fragments.        *)

LEMMA OneRegime ==
  ASSUME CInv, Single
  PROVE  /\ CTypeOK /\ ControlType /\ DataType /\ TypeOK /\ ProgramInv /\ LogInv /\ FromInv
         /\ MaxBcasts = 1
         /\ \A r \in Rank :
              /\ pc[r] \in Labels /\ peer[r] \in 1 .. N-1 /\ peer[r] \in Rank
              /\ round[r] \in {0, 1}
              /\ InBcast(r) => round[r] = 0
              /\ seq[r] \in 0 .. Fragments-1
  <1>1. /\ CTypeOK /\ ControlType /\ DataType /\ TypeOK /\ ProgramInv /\ LogInv /\ FromInv
        /\ MaxBcasts = 1
    BY TypeParts DEF CInv, Single
  <1>2. ASSUME NEW r \in Rank
        PROVE  /\ pc[r] \in Labels /\ peer[r] \in 1 .. N-1 /\ peer[r] \in Rank
               /\ round[r] \in {0, 1}
               /\ InBcast(r) => round[r] = 0
               /\ seq[r] \in 0 .. Fragments-1
    <2>1. round[r] \in 0 .. 1 /\ pc[r] \in Labels
      BY <1>1 DEF ControlType
    <2>2. round[r] \in {0, 1}
      BY <2>1
    <2>3. InBcast(r) => round[r] < 1
      BY <1>1, ProgramParts DEF Program
    <2>4. InBcast(r) => round[r] = 0
      BY <2>2, <2>3
    <2>5. seq[r] \in 0 .. Fragments-1
      BY <1>1 DEF DataType
    <2>6. peer[r] \in 1 .. N-1 /\ peer[r] \in Rank
      BY <1>1, Typed
    <2> QED
      BY <2>1, <2>2, <2>4, <2>5, <2>6
  <1> QED
    BY <1>1, <1>2

\* A step of the data plane delivers along the lane of the datagram, and once.
LEMMA OncePlaneStep ==
  ASSUME CInv, Single, plane = "XDP", LaneInv, SentInv, OnceInv, DataPlane
  PROVE  LaneInv' /\ SentInv' /\ OnceInv'
  <1>1. TypeOK /\ Forward /\ UNCHANGED rankVars /\ \A q \in net : WellFormed(q)
    BY OneRegime DEF DataPlane, OnceInv
  <1>2. log' = log
    BY <1>1, ForwardMoves
  <1>3. PICK p \in net, S \in SUBSET Packet :
          /\ net' = (net \ {p}) \cup S
          /\ \A s \in S : /\ WellFormed(s) /\ s.op = p.op /\ s.root = p.root /\ s.id = p.id
                          /\ Claim(s) \subseteq Claim(p)
                          /\ s.dst = p.dst \/ (s.dst \in Claim(p) /\ p.op # "MPI_SEND")
          /\ \A s, t \in S : s # t => Claim(s) \cap Claim(t) = {}
          /\ \/ sock' = sock
             \/ /\ sock' = [sock EXCEPT ![p.port] = Append(@, p)]
                /\ p.port \in Claim(p)
                /\ \A s \in S : p.port \notin Claim(s)
    BY <1>1, ForwardMoves
  <1>4. /\ p \in Packet /\ WellFormed(p) /\ p.port \in Rank /\ p.dst = p.port
        /\ sock \in [Rank -> Seq(Packet)]
    BY <1>1, Fields DEF TypeOK, WellFormed
  <1>5. /\ algo' = algo /\ loads' = loads /\ frag' = frag /\ pc' = pc /\ round' = round
        /\ peer' = peer /\ seq' = seq
    BY <1>1 DEF rankVars
  <1>6. ClaimsApart' /\ ClaimsOpen' /\ AtMostOnce'
    <2>1. ClaimsApart /\ ClaimsOpen /\ AtMostOnce
      BY DEF OnceInv
    <2>2. \A s \in S : s.id = p.id /\ Claim(s) \subseteq Claim(p)
      BY <1>3
    <2>3. \A s, t \in S : s # t => Claim(s) \cap Claim(t) = {}
      BY <1>3
    <2> QED
      BY <1>1, <1>3, <2>1, <2>2, <2>3, Replace
  <1>7. \A s \in net' : WellFormed(s)'
    <2>1. \A s : WellFormed(s)' <=> WellFormed(s)
      BY <1>2 DEF WellFormed
    <2> QED
      BY <1>1, <1>3, <2>1
  <1>8. \A r, id : Counted(r, id)' <=> Counted(r, id)
    BY <1>5 DEF Counted
  <1>9. CountedOnce'
    <2>1. ASSUME NEW s \in net', NEW r \in Claim(s)
          PROVE  ~Counted(r, s.id)
      <3>1. PICK o \in net : o.id = s.id /\ r \in Claim(o)
        <4>1. CASE s \in S
          BY <1>3, <4>1
        <4>2. CASE s \in net
          BY <4>2
        <4> QED
          BY <1>3, <4>1, <4>2
      <3> QED
        BY <3>1 DEF OnceInv, CountedOnce
    <2>2. ASSUME NEW r \in Rank, NEW i \in DOMAIN frag[r], Delivered(r, frag[r][i])'
          PROVE  FALSE
      <3>1. PICK id \in Int : id = frag[r][i]
        <4>1. frag[r] \in Seq(1 .. MaxSends)
          BY OneRegime, Typed
        <4>2. frag[r][i] \in 1 .. MaxSends
          BY <4>1, ElementOfSeq, LenProperties
        <4> QED
          BY <4>2
      <3>2. ~Delivered(r, id) /\ Counted(r, id)
        BY <3>1 DEF OnceInv, CountedOnce, Counted
      <3>3. Delivered(r, id)'
        BY <1>5, <2>2, <3>1
      <3>4. CASE sock' = sock
        BY <3>2, <3>3, <3>4 DEF Delivered
      <3>5. CASE /\ sock' = [sock EXCEPT ![p.port] = Append(@, p)]
                 /\ p.port \in Claim(p)
        <4>1. r = p.port /\ p.id = id
          BY <1>4, <3>2, <3>3, <3>5, DeliveredBy
        <4>2. ~Counted(p.port, p.id)
          BY <3>5 DEF OnceInv, CountedOnce
        <4> QED
          BY <3>2, <4>1, <4>2
      <3> QED
        BY <1>3, <3>4, <3>5
    <2>3. \A r \in Rank : \A i, j \in DOMAIN frag[r] : frag[r][i] = frag[r][j] => i = j
      BY DEF OnceInv, CountedOnce
    <2> QED
      BY <1>5, <1>8, <2>1, <2>2, <2>3 DEF CountedOnce
  <1>10. SentInv'
    <2>1. \A i : Lane(i)' = Lane(i)
      BY <1>2 DEF Lane
    <2>2. \A r : Target(r)' = Target(r)
      BY <1>5 DEF Target, NaiveLinear
    <2> QED
      BY <1>2, <1>5, <2>1, <2>2 DEF SentInv, NaiveLinear
  <1>11. LaneInv'
    <2>1. /\ \A i : Lane(i)' = Lane(i)
          /\ \A r : LaneOf(r)' = LaneOf(r)
          /\ Opcode' = Opcode
      BY <1>2, <1>5 DEF Lane, LaneOf, NaiveRing, NaiveLinear, Opcode
    <2>2. p.op = Opcode /\ Lane(p.id) = LaneOf(p.dst)
      BY DEF LaneInv
    <2>3. ASSUME NEW s \in net'
          PROVE  s.op = Opcode /\ Lane(s.id) = LaneOf(s.dst)
      <3>1. CASE s \in net
        BY <3>1 DEF LaneInv
      <3>2. CASE s \in S
        <4>1. s.op = p.op /\ s.id = p.id /\ (s.dst = p.dst \/ p.op # "MPI_SEND")
          BY <1>3, <3>2
        <4>2. CASE s.dst = p.dst
          BY <2>2, <4>1, <4>2
        <4>3. CASE p.op # "MPI_SEND"
          <5>1. ~NaiveRing /\ ~NaiveLinear
            BY <2>2, <4>3 DEF Opcode, NaiveRing, NaiveLinear
          <5> QED
            BY <2>2, <4>1, <5>1 DEF LaneOf
        <4> QED
          BY <4>1, <4>2, <4>3
      <3> QED
        BY <1>3, <3>1, <3>2
    <2>4. ASSUME NEW r \in Rank, NEW i \in DOMAIN sock'[r]
          PROVE  Lane(sock'[r][i].id) = LaneOf(r)
      <3>1. CASE sock'[r] = sock[r]
        BY <2>4, <3>1 DEF LaneInv
      <3>2. CASE sock'[r] # sock[r]
        <4>1. sock' = [sock EXCEPT ![p.port] = Append(@, p)]
          BY <1>3, <3>2
        <4>2. r = p.port
          BY <1>4, <3>2, <4>1
        <4>3. (i \in DOMAIN sock[r] /\ sock'[r][i] = sock[r][i]) \/ sock'[r][i] = p
          BY <1>4, <2>4, <4>1, <4>2, Queued
        <4> QED
          BY <1>4, <2>2, <4>2, <4>3 DEF LaneInv
      <3> QED
        BY <3>1, <3>2
    <2>5. \A r \in Rank : \A i \in DOMAIN frag[r] : Lane(frag[r][i]) = LaneOf(r)
      BY DEF LaneInv
    <2> QED
      BY <1>5, <2>1, <2>3, <2>4, <2>5 DEF LaneInv
  <1> QED
    BY <1>6, <1>7, <1>9, <1>10, <1>11 DEF OnceInv

\* The steps that neither send nor receive a datagram.
LEMMA OnceAside ==
  ASSUME CInv, Single, LaneInv, SentInv, OnceInv, NEW q \in Rank,
         \/ EnterBarrier(q) \/ SendToken(q) \/ RecvToken(q) \/ Garble(q)
         \/ RecvAnswer(q) \/ RecvFallback(q) \/ SendAck(q) \/ Timeout(q)
  PROVE  LaneInv' /\ SentInv' /\ OnceInv'
  <1>0. /\ CTypeOK /\ ControlType /\ DataType /\ ProgramInv /\ MaxBcasts = 1
        /\ round[q] \in {0, 1} /\ peer[q] \in 1 .. N-1
        /\ InBcast(q) => round[q] = 0
    BY OneRegime
  <1>1. /\ net' = net /\ sock' = sock /\ log' = log /\ loads' = loads /\ seq' = seq
        /\ algo' = algo
    BY DEF EnterBarrier, SendToken, RecvToken, Garble, RecvAnswer, RecvFallback, SendAck,
           Timeout, netVars, options
  <1>2. \A r \in Rank : r # q => pc'[r] = pc[r] /\ round'[r] = round[r] /\ peer'[r] = peer[r]
    BY <1>0, Elsewhere DEF RankStep
  <1>3. \A r \in Rank : frag'[r] = frag[r] \/ frag'[r] = <<>>
    <2>1. CASE Timeout(q)
      BY <1>0, <2>1 DEF Timeout, DataType
    <2>2. CASE ~Timeout(q)
      BY <2>2 DEF EnterBarrier, SendToken, RecvToken, Garble, RecvAnswer, RecvFallback, SendAck
    <2> QED
      BY <2>1, <2>2
  <1>4. LaneInv'
    <2>1. /\ \A i : Lane(i)' = Lane(i)
          /\ \A r : LaneOf(r)' = LaneOf(r)
          /\ Opcode' = Opcode
      BY <1>1 DEF Lane, LaneOf, NaiveRing, NaiveLinear, Opcode
    <2>2. \A p \in net : p.op = Opcode /\ Lane(p.id) = LaneOf(p.dst)
      BY DEF LaneInv
    <2>3. \A r \in Rank : \A i \in DOMAIN sock[r] : Lane(sock[r][i].id) = LaneOf(r)
      BY DEF LaneInv
    <2>4. \A r \in Rank : \A i \in DOMAIN frag'[r] : Lane(frag'[r][i]) = LaneOf(r)
      BY <1>3 DEF LaneInv
    <2> QED
      BY <1>1, <2>1, <2>2, <2>3, <2>4 DEF LaneInv
  <1>5. OnceInv'
    <2>1. (\A p \in net' : WellFormed(p)') /\ ClaimsApart' /\ ClaimsOpen' /\ AtMostOnce'
      BY <1>1 DEF OnceInv, WellFormed, ClaimsApart, ClaimsOpen, AtMostOnce, Delivered
    <2>2. \A r \in Rank : \A id : Counted(r, id)' => Counted(r, id)
      BY <1>3 DEF Counted
    <2>3. \A p \in net : \A r \in Claim(p) : ~Counted(r, p.id)'
      <3> SUFFICES ASSUME NEW p \in net, NEW r \in Claim(p)
                   PROVE  ~Counted(r, p.id)'
        OBVIOUS
      <3>1. p \in Packet /\ WellFormed(p)
        BY <1>0, TypeParts DEF OnceInv, TypeOK
      <3>2. r \in Rank
        BY <3>1, ClaimInRank
      <3>3. ~Counted(r, p.id)
        BY DEF OnceInv, CountedOnce
      <3> QED
        BY <1>1, <2>2, <3>2, <3>3
    <2>4. \A r \in Rank : \A i \in DOMAIN frag'[r] : ~Delivered(r, frag'[r][i])
      BY <1>3 DEF OnceInv, CountedOnce
    <2>5. \A r \in Rank : \A i, j \in DOMAIN frag'[r] : frag'[r][i] = frag'[r][j] => i = j
      BY <1>3 DEF OnceInv, CountedOnce
    <2>6. CountedOnce'
      <3>1. \A p \in net' : \A r \in Claim(p) : ~Counted(r, p.id)'
        BY <1>1, <2>3
      <3>2. \A r \in Rank : \A i \in DOMAIN frag'[r] : ~Delivered(r, frag[r][i])'
        BY <1>1, <2>4 DEF Delivered
      <3> QED
        BY <2>5, <3>1, <3>2 DEF CountedOnce
    <2> QED
      BY <2>1, <2>6 DEF OnceInv
  <1>6. SentInv'
    <2>1. \A i, j \in DOMAIN log : Lane(i)' = Lane(j)' /\ loads[i].seq = loads[j].seq => i = j
      BY <1>1 DEF SentInv, Lane
    <2>2. ASSUME NEW i \in DOMAIN log, NEW s, s = log[i].root
          PROVE  /\ pc'[s] \in {"send", "answers", "garbled"} \/ round'[s] = 1
                 /\ pc'[s] = "send" => \/ NaiveLinear /\ log[i].dst < peer'[s]
                                       \/ log[i].dst = Target(s)' /\ loads[i].seq < seq[s]
                 /\ pc'[s] = "answers" /\ NaiveLinear => log[i].dst <= peer'[s]
      <3>1. /\ pc[s] \in {"send", "answers", "garbled"} \/ round[s] = 1
            /\ pc[s] = "send" => \/ NaiveLinear /\ log[i].dst < peer[s]
                                 \/ log[i].dst = Target(s) /\ loads[i].seq < seq[s]
            /\ pc[s] = "answers" /\ NaiveLinear => log[i].dst <= peer[s]
        BY <2>2 DEF SentInv
      <3>2. log[i] \in Packet
        BY OneRegime DEF TypeOK
      <3>3. s \in Rank /\ log[i].dst \in Int
        BY <2>2, <3>2, Fields, InRank
      <3>4. CASE s # q
        <4>1. pc'[s] = pc[s] /\ round'[s] = round[s] /\ peer'[s] = peer[s]
          BY <1>2, <3>3, <3>4
        <4>2. Target(s)' = Target(s)
          BY <1>1, <4>1 DEF Target, NaiveLinear
        <4> QED
          BY <3>1, <4>1, <4>2
      <3>5. CASE s = q
        <4>1. CASE EnterBarrier(q) \/ SendToken(q) \/ RecvToken(q)
          <5>1. /\ pc[q] \in {"out", "barrier send", "barrier recv"}
                /\ pc'[q] \in {"barrier send", "barrier recv", AfterBarrier(q)}
                /\ round' = round
            BY <1>0, <4>1 DEF EnterBarrier, SendToken, RecvToken, AfterToken, ControlType
          <5>2. round[q] = 1
            BY <3>1, <3>5, <5>1
          <5>3. AfterBarrier(q) = "done"
            BY <1>0, <5>2 DEF AfterBarrier
          <5> QED
            BY <3>5, <5>1, <5>2, <5>3
        <4>2. CASE Garble(q)
          <5>1. pc'[q] = "garbled"
            BY <1>0, <4>2 DEF Garble, ControlType
          <5> QED
            BY <3>5, <5>1
        <4>3. ~RecvFallback(q) /\ ~SendAck(q) /\ ~Timeout(q)
          BY <1>0, <3>1, <3>5 DEF RecvFallback, SendAck, Timeout, InBcast
        <4>4. CASE RecvAnswer(q)
          <5>0. pc[q] = "answers" /\ round[q] = 0
            BY <1>0, <4>4 DEF RecvAnswer, InBcast
          <5>1. CASE LastAnswer(q)
            <6>1. pc'[q] = "out" /\ round'[q] = round[q] + 1
              BY <1>0, <4>4, <5>1, OwnReturn DEF RecvAnswer
            <6> QED
              BY <3>5, <5>0, <6>1
          <5>2. CASE ~LastAnswer(q)
            <6>1. /\ peer'[q] = peer[q] + 1
                  /\ pc'[q] = (IF NaiveLinear THEN "send" ELSE "answers")
              BY <1>0, <4>4, <5>2 DEF RecvAnswer, ControlType
            <6>2. NaiveLinear => log[i].dst < peer'[q]
              <7>1. NaiveLinear => log[i].dst <= peer[q]
                BY <3>1, <3>5, <5>0
              <7> QED
                BY <1>0, <3>3, <6>1, <7>1
            <6>3. NaiveLinear => pc'[q] = "send"
              BY <6>1
            <6>4. ~NaiveLinear => pc'[q] = "answers"
              BY <6>1
            <6> QED
              BY <3>5, <6>2, <6>3, <6>4
          <5> QED
            BY <5>1, <5>2
        <4> QED
          BY <4>1, <4>2, <4>3, <4>4
      <3> QED
        BY <3>4, <3>5
    <2>3. NaiveLinear' = NaiveLinear
      BY <1>1 DEF NaiveLinear
    <2> QED
      BY <1>1, <2>1, <2>2, <2>3 DEF SentInv
  <1> QED
    BY <1>4, <1>5, <1>6

\* What mpi_recv takes from the socket: the head, once.
LEMMA Drawn ==
  ASSUME CInv, Single, LogInv, NEW q \in Rank, Recvfrom(q)
  PROVE  LET p == Head(sock[q])
         IN  /\ sock[q] # <<>> /\ p \in Packet /\ p.id \in 1 .. Len(log)
             /\ 1 \in DOMAIN sock[q] /\ sock[q][1] = p
             /\ \A r \in Rank : r # q => sock'[r] = sock[r] /\ frag'[r] = frag[r]
             /\ \A i \in DOMAIN sock'[q] :
                  i \in Int /\ i >= 1 /\ i + 1 \in DOMAIN sock[q] /\ sock'[q][i] = sock[q][i+1]
             /\ frag[q] \in Seq(1 .. MaxSends)
             /\ \/ Complete(Append(frag[q], p.id)) /\ frag'[q] = <<>>
                \/ ~Complete(Append(frag[q], p.id)) /\ frag'[q] = Append(frag[q], p.id)
             /\ \A i \in DOMAIN Append(frag[q], p.id) :
                  \/ i \in DOMAIN frag[q] /\ Append(frag[q], p.id)[i] = frag[q][i]
                  \/ i = Len(frag[q]) + 1 /\ Append(frag[q], p.id)[i] = p.id
  <1> DEFINE p == Head(sock[q])
             ids == Append(frag[q], p.id)
  <1>0. CTypeOK /\ TypeOK /\ DataType /\ frag \in [Rank -> Seq(1 .. MaxSends)]
    BY OneRegime DEF DataType
  <1>1. /\ sock \in [Rank -> Seq(Packet)] /\ sock[q] \in Seq(Packet) /\ sock[q] # <<>>
        /\ sock' = [sock EXCEPT ![q] = Tail(@)] /\ frag[q] \in Seq(1 .. MaxSends)
    BY <1>0 DEF Recvfrom, TypeOK
  <1>2. /\ p = sock[q][1] /\ p \in Packet /\ 1 \in DOMAIN sock[q]
        /\ Tail(sock[q]) \in Seq(Packet)
        /\ \A i \in DOMAIN Tail(sock[q]) : i + 1 \in DOMAIN sock[q]
                                           /\ Tail(sock[q])[i] = sock[q][i+1]
    BY <1>1, HeadTailProperties, LenProperties, EmptySeq
  <1>3. p.id \in 1 .. Len(log)
    <2>1. p.id \in 1 .. MaxSends /\ p.id <= Len(log) /\ Len(log) \in Nat
      BY <1>0, <1>2, Fields, Typed DEF LogInv, Logged
    <2> QED
      BY <2>1
  <1>4. /\ \A r \in Rank : r # q => sock'[r] = sock[r]
        /\ sock'[q] = Tail(sock[q])
    BY <1>1
  <1>5. \A i \in DOMAIN sock'[q] :
          i \in Int /\ i >= 1 /\ i + 1 \in DOMAIN sock[q] /\ sock'[q][i] = sock[q][i+1]
    <2> SUFFICES ASSUME NEW i \in DOMAIN Tail(sock[q])
                 PROVE  /\ i \in Int /\ i >= 1
                        /\ i + 1 \in DOMAIN sock[q] /\ Tail(sock[q])[i] = sock[q][i+1]
      BY <1>4
    <2>1. i \in 1 .. Len(Tail(sock[q])) /\ Len(Tail(sock[q])) \in Nat
      BY <1>2, LenProperties
    <2>2. i \in Int /\ i >= 1
      BY <2>1
    <2> QED
      BY <1>2, <2>2
  <1>6. \A i \in DOMAIN ids : \/ i \in DOMAIN frag[q] /\ ids[i] = frag[q][i]
                              \/ i = Len(frag[q]) + 1 /\ ids[i] = p.id
    <2>1. p.id \in 1 .. MaxSends
      BY <1>2, Fields
    <2> HIDE DEF p
    <2> SUFFICES ASSUME NEW i \in DOMAIN ids
                 PROVE  \/ i \in DOMAIN frag[q] /\ ids[i] = frag[q][i]
                        \/ i = Len(frag[q]) + 1 /\ ids[i] = p.id
      OBVIOUS
    <2> QED
      BY <1>1, <2>1, AppendProperties, LenProperties
  <1>7. CASE Complete(ids)
    <2>1. frag' = [frag EXCEPT ![q] = <<>>]
      BY <1>7 DEF Recvfrom
    <2> HIDE DEF p, ids
    <2>2. (\A r \in Rank : r # q => frag'[r] = frag[r]) /\ frag'[q] = <<>>
      BY <1>0, <2>1
    <2> QED
      BY <1>1, <1>2, <1>3, <1>4, <1>5, <1>6, <1>7, <2>2 DEF p, ids
  <1>8. CASE ~Complete(ids)
    <2>1. frag' = [frag EXCEPT ![q] = ids]
      BY <1>8 DEF Recvfrom
    <2> HIDE DEF p, ids
    <2>2. (\A r \in Rank : r # q => frag'[r] = frag[r]) /\ frag'[q] = ids
      BY <1>0, <2>1
    <2> QED
      BY <1>1, <1>2, <1>3, <1>4, <1>5, <1>6, <1>8, <2>2 DEF p, ids
  <1> QED
    BY <1>7, <1>8

\* It is counted once, and is no longer in the socket.
LEMMA OnceRecv ==
  ASSUME CInv, Single, plane = "XDP", LaneInv, SentInv, OnceInv, NEW q \in Rank, Recvfrom(q)
  PROVE  LaneInv' /\ SentInv' /\ OnceInv'
  <1>0. /\ CTypeOK /\ TypeOK /\ ProgramInv /\ LogInv /\ pc[q] = "recv" /\ round[q] = 0
        /\ RankStep(q)
    BY OneRegime DEF Recvfrom, RankStep, InBcast
  <1>1. /\ net' = net /\ log' = log /\ loads' = loads /\ seq' = seq /\ algo' = algo
    BY DEF Recvfrom, options
  <1>2. \A r \in Rank : r # q => pc'[r] = pc[r] /\ round'[r] = round[r] /\ peer'[r] = peer[r]
    BY <1>0, Elsewhere
  <1>p. PICK p : p = Head(sock[q])
    OBVIOUS
  <1>i. PICK ids : ids = Append(frag[q], p.id)
    OBVIOUS
  <1>3. /\ p \in Packet /\ p.id \in 1 .. Len(log)
        /\ 1 \in DOMAIN sock[q] /\ sock[q][1] = p
        /\ \A r \in Rank : r # q => sock'[r] = sock[r] /\ frag'[r] = frag[r]
        /\ \A i \in DOMAIN sock'[q] :
             i \in Int /\ i >= 1 /\ i + 1 \in DOMAIN sock[q] /\ sock'[q][i] = sock[q][i+1]
        /\ frag'[q] = <<>> \/ frag'[q] = ids
        /\ \A i \in DOMAIN ids : \/ i \in DOMAIN frag[q] /\ ids[i] = frag[q][i]
                                 \/ i = Len(frag[q]) + 1 /\ ids[i] = p.id
    BY <1>0, <1>p, <1>i, Drawn
  <1>4. Delivered(q, p.id)
    BY <1>3 DEF Delivered
  <1>5. \A i \in DOMAIN frag[q] : frag[q][i] # p.id
    BY <1>4 DEF OnceInv, CountedOnce
  <1>6. \A r \in Rank : \A id : Delivered(r, id)' => Delivered(r, id)
    <2> SUFFICES ASSUME NEW r \in Rank, NEW id, Delivered(r, id)'
                 PROVE  Delivered(r, id)
      OBVIOUS
    <2>1. PICK i \in DOMAIN sock'[r] : sock'[r][i].id = id
      BY DEF Delivered
    <2>2. CASE r = q
      <3>1. i + 1 \in DOMAIN sock[r] /\ sock[r][i+1].id = id
        BY <1>3, <2>1, <2>2
      <3> QED
        BY <3>1 DEF Delivered
    <2>3. CASE r # q
      BY <1>3, <2>1, <2>3 DEF Delivered
    <2> QED
      BY <2>2, <2>3
  <1>7. \A r \in Rank : \A id : Counted(r, id)' => Counted(r, id) \/ (r = q /\ id = p.id)
    <2> SUFFICES ASSUME NEW r \in Rank, NEW id, Counted(r, id)'
                 PROVE  Counted(r, id) \/ (r = q /\ id = p.id)
      OBVIOUS
    <2>1. PICK i \in DOMAIN frag'[r] : frag'[r][i] = id
      BY DEF Counted
    <2>2. CASE r = q
      <3>1. frag'[q] = ids
        BY <1>3, <2>1, <2>2
      <3>2. (i \in DOMAIN frag[q] /\ ids[i] = frag[q][i]) \/ ids[i] = p.id
        BY <1>3, <2>1, <2>2, <3>1
      <3> QED
        BY <2>1, <2>2, <3>1, <3>2 DEF Counted
    <2>3. CASE r # q
      BY <1>3, <2>1, <2>3 DEF Counted
    <2> QED
      BY <2>2, <2>3
  <1>8. ~Delivered(q, p.id)'
    <2> SUFFICES ASSUME NEW i \in DOMAIN sock'[q], sock'[q][i].id = p.id
                 PROVE  FALSE
      BY DEF Delivered
    <2>1. i \in Int /\ i >= 1 /\ i + 1 \in DOMAIN sock[q] /\ sock[q][i+1].id = sock[q][1].id
      BY <1>3
    <2>2. i + 1 = 1
      BY <1>3, <2>1 DEF OnceInv, AtMostOnce
    <2> QED
      BY <2>1, <2>2
  <1>9. OnceInv'
    <2>1. (\A s \in net' : WellFormed(s)') /\ ClaimsApart'
      BY <1>1 DEF OnceInv, WellFormed, ClaimsApart
    <2>2. \A s \in net : \A r \in Claim(s) : r \in Rank
      <3> SUFFICES ASSUME NEW s \in net
                   PROVE  Claim(s) \subseteq Rank
        OBVIOUS
      <3>1. s \in Packet /\ WellFormed(s)
        BY <1>0 DEF OnceInv, TypeOK
      <3> QED
        BY <3>1, ClaimInRank
    <2>3. ClaimsOpen'
      BY <1>1, <1>6, <2>2 DEF OnceInv, ClaimsOpen
    <2>4. AtMostOnce'
      <3> SUFFICES ASSUME NEW r \in Rank, NEW i \in DOMAIN sock'[r], NEW j \in DOMAIN sock'[r],
                          sock'[r][i].id = sock'[r][j].id
                   PROVE  i = j
        BY DEF AtMostOnce
      <3>1. CASE r = q
        <4>1. /\ i \in Int /\ j \in Int /\ i + 1 \in DOMAIN sock[q] /\ j + 1 \in DOMAIN sock[q]
              /\ sock[q][i+1].id = sock[q][j+1].id
          BY <1>3, <3>1
        <4>2. i + 1 = j + 1
          BY <4>1 DEF OnceInv, AtMostOnce
        <4> QED
          BY <4>1, <4>2
      <3>2. CASE r # q
        BY <1>3, <3>2 DEF OnceInv, AtMostOnce
      <3> QED
        BY <3>1, <3>2
    <2>5. CountedOnce'
      <3>1. \A s \in net' : \A r \in Claim(s) : ~Counted(r, s.id)'
        <4> SUFFICES ASSUME NEW s \in net, NEW r \in Claim(s), Counted(r, s.id)'
                     PROVE  FALSE
          BY <1>1
        <4>1. ~Counted(r, s.id) /\ ~Delivered(r, s.id) /\ r \in Rank
          BY <2>2 DEF OnceInv, CountedOnce, ClaimsOpen
        <4>2. r = q /\ s.id = p.id
          BY <1>1, <1>7, <4>1
        <4> QED
          BY <1>4, <4>1, <4>2
      <3>2. ASSUME NEW r \in Rank, NEW i \in DOMAIN frag'[r]
            PROVE  ~Delivered(r, frag[r][i])'
        <4>1. PICK id : id = frag'[r][i]
          OBVIOUS
        <4>2. Counted(r, id) \/ (r = q /\ id = p.id)
          BY <1>7, <4>1 DEF Counted
        <4>3. Counted(r, id) => ~Delivered(r, id)
          BY DEF Counted, OnceInv, CountedOnce
        <4>4. ~Delivered(r, id)'
          BY <1>6, <1>8, <4>2, <4>3
        <4> QED
          BY <4>1, <4>4
      <3>3. ASSUME NEW r \in Rank, NEW i \in DOMAIN frag'[r], NEW j \in DOMAIN frag'[r],
                   frag'[r][i] = frag'[r][j]
            PROVE  i = j
        <4>1. CASE frag'[r] = frag[r]
          BY <3>3, <4>1 DEF OnceInv, CountedOnce
        <4>2. CASE r = q /\ frag'[r] = ids
          BY <1>3, <1>5, <3>3, <4>2 DEF OnceInv, CountedOnce
        <4> QED
          BY <1>3, <3>3, <4>1, <4>2
      <3> QED
        BY <3>1, <3>2, <3>3 DEF CountedOnce
    <2> QED
      BY <2>1, <2>3, <2>4, <2>5 DEF OnceInv
  <1>10. LaneInv'
    <2>1. /\ \A i : Lane(i)' = Lane(i)
          /\ \A r : LaneOf(r)' = LaneOf(r)
          /\ Opcode' = Opcode
      BY <1>1 DEF Lane, LaneOf, NaiveRing, NaiveLinear, Opcode
    <2>2. \A s \in net : s.op = Opcode /\ Lane(s.id) = LaneOf(s.dst)
      BY DEF LaneInv
    <2>3. \A r \in Rank : \A i \in DOMAIN sock'[r] : Lane(sock'[r][i].id) = LaneOf(r)
      BY <1>3 DEF LaneInv
    <2>4. Lane(p.id) = LaneOf(q)
      BY <1>3 DEF LaneInv
    <2>5. \A r \in Rank : \A i \in DOMAIN frag'[r] : Lane(frag'[r][i]) = LaneOf(r)
      <3> SUFFICES ASSUME NEW r \in Rank, NEW i \in DOMAIN frag'[r]
                   PROVE  Lane(frag'[r][i]) = LaneOf(r)
        OBVIOUS
      <3>1. CASE frag'[r] = frag[r]
        BY <3>1 DEF LaneInv
      <3>2. CASE r = q /\ frag'[r] = ids
        BY <1>3, <2>4, <3>2 DEF LaneInv
      <3> QED
        BY <1>3, <3>1, <3>2
    <2> QED
      BY <1>1, <2>1, <2>2, <2>3, <2>5 DEF LaneInv
  <1>11. SentInv'
    <2>1. \A i, j \in DOMAIN log : Lane(i)' = Lane(j)' /\ loads[i].seq = loads[j].seq => i = j
      BY <1>1 DEF SentInv, Lane
    <2>2. ASSUME NEW i \in DOMAIN log, NEW s, s = log[i].root
          PROVE  /\ pc'[s] \in {"send", "answers", "garbled"} \/ round'[s] = 1
                 /\ pc'[s] = "send" => \/ NaiveLinear /\ log[i].dst < peer'[s]
                                       \/ log[i].dst = Target(s)' /\ loads[i].seq < seq[s]
                 /\ pc'[s] = "answers" /\ NaiveLinear => log[i].dst <= peer'[s]
      <3>1. /\ pc[s] \in {"send", "answers", "garbled"} \/ round[s] = 1
            /\ pc[s] = "send" => \/ NaiveLinear /\ log[i].dst < peer[s]
                                 \/ log[i].dst = Target(s) /\ loads[i].seq < seq[s]
            /\ pc[s] = "answers" /\ NaiveLinear => log[i].dst <= peer[s]
        BY <2>2 DEF SentInv
      <3>2. log[i] \in Packet
        BY <1>0 DEF TypeOK
      <3>3. s \in Rank /\ s # q
        BY <1>0, <2>2, <3>1, <3>2, Fields
      <3>4. pc'[s] = pc[s] /\ round'[s] = round[s] /\ peer'[s] = peer[s]
        BY <1>2, <3>3
      <3>5. Target(s)' = Target(s)
        BY <1>1, <3>4 DEF Target, NaiveLinear
      <3> QED
        BY <3>1, <3>4, <3>5
    <2>3. NaiveLinear' = NaiveLinear
      BY <1>1 DEF NaiveLinear
    <2> QED
      BY <1>1, <2>1, <2>2, <2>3 DEF SentInv
  <1> QED
    BY <1>9, <1>10, <1>11

\* What __mpi_send of one datagram changes.
LEMMA SendingOne ==
  ASSUME CInv, Single, NEW q \in Rank, SendFragment(q)
  PROVE  /\ pc[q] = "send" /\ round[q] = 0 /\ (q # root => NaiveRing /\ next(q) # root)
         /\ SendTo(Opcode, q, Target(q)) /\ seq[q] \in Nat
         /\ loads' = Append(loads, [content |-> buf'[q], seq |-> seq[q]])
         /\ buf'[q] = IF q = root THEN 1 ELSE buf[q]
         /\ \/ /\ seq[q] # Fragments-1
               /\ pc'[q] = "send" /\ round'[q] = 0 /\ peer'[q] = peer[q] /\ seq'[q] = seq[q] + 1
            \/ /\ Eager /\ pc'[q] = "out" /\ round'[q] = 1 /\ peer'[q] = 1
            \/ /\ ~Eager /\ pc'[q] = "answers" /\ round'[q] = 0 /\ peer'[q] = FirstAnswer(q)
         /\ \A r \in Rank : r # q => /\ pc'[r] = pc[r] /\ round'[r] = round[r]
                                     /\ peer'[r] = peer[r] /\ seq'[r] = seq[r]
                                     /\ buf'[r] = buf[r]
         /\ algo' = algo /\ frag' = frag /\ stream' = stream /\ timeouts' = timeouts
  <1>0. /\ CTypeOK /\ ControlType /\ DataType /\ ProgramInv /\ RankStep(q)
        /\ pc[q] = "send" /\ round[q] = 0 /\ seq[q] \in 0 .. Fragments-1
    BY OneRegime DEF SendFragment, RankStep, InBcast
  <1>1. q # root => NaiveRing /\ next(q) # root
    BY <1>0, ProgramParts DEF Program, Forwards
  <1>2. /\ SendTo(Opcode, q, Target(q))
        /\ loads' = Append(loads, [content |-> buf'[q], seq |-> seq[q]])
        /\ seq' = [seq EXCEPT ![q] = NextSeq(@)]
        /\ buf' = (IF q = root THEN [buf EXCEPT ![q] = round[q] + 1] ELSE buf)
        /\ algo' = algo /\ frag' = frag /\ stream' = stream /\ timeouts' = timeouts
    BY DEF SendFragment, options
  <1>3. buf'[q] = IF q = root THEN 1 ELSE buf[q]
    BY <1>0, <1>2 DEF DataType
  <1>4. \A r \in Rank : r # q => /\ pc'[r] = pc[r] /\ round'[r] = round[r]
                                 /\ peer'[r] = peer[r] /\ buf'[r] = buf[r]
    BY <1>0, Elsewhere
  <1>5. (\A r \in Rank : r # q => seq'[r] = seq[r]) /\ seq'[q] = NextSeq(seq[q])
    BY <1>0, <1>2 DEF DataType
  <1>6. CASE seq[q] # Fragments-1
    <2>1. pc'[q] = "send" /\ round'[q] = round[q] /\ peer'[q] = peer[q]
      BY <1>0, <1>6, OwnGoOn DEF SendFragment
    <2>2. NextSeq(seq[q]) = seq[q] + 1
      <3>1. seq[q] + 1 \in 0 .. Fragments-1
        BY <1>0, <1>6, FragmentsAssumption
      <3>2. (seq[q] + 1) % Fragments = seq[q] + 1
        BY <3>1, FragmentsAssumption
      <3> QED
        BY <3>2 DEF NextSeq
    <2> QED
      BY <1>0, <1>1, <1>2, <1>3, <1>4, <1>5, <1>6, <2>1, <2>2
  <1>7. CASE seq[q] = Fragments-1
    <2>1. AfterSend(q)
      BY <1>7 DEF SendFragment
    <2>2. Eager => pc'[q] = "out" /\ round'[q] = round[q] + 1 /\ peer'[q] = 1
      BY <1>0, <2>1, OwnReturn DEF AfterSend
    <2>3. ~Eager => pc'[q] = "answers" /\ round'[q] = round[q] /\ peer'[q] = FirstAnswer(q)
      BY <1>0, <2>1 DEF AfterSend, ControlType
    <2> QED
      BY <1>0, <1>1, <1>2, <1>3, <1>4, <1>5, <2>2, <2>3
  <1> QED
    BY <1>6, <1>7

\* It is a new datagram, and the next on its lane.
LEMMA OnceSend ==
  ASSUME CInv, Single, plane = "XDP", LaneInv, SentInv, OnceInv, NEW q \in Rank, SendFragment(q)
  PROVE  LaneInv' /\ SentInv' /\ OnceInv'
  <1>0. /\ CTypeOK /\ TypeOK /\ ProgramInv /\ LogInv /\ peer[q] \in 1 .. N-1
        /\ log \in Seq(Packet) /\ Len(log) \in Nat /\ Len(loads) = Len(log) /\ N \in Nat
    BY OneRegime, Typed, NAssumption DEF LogInv
  <1>d. PICK d : d = Datagram(Opcode, q, Target(q))
    OBVIOUS
  <1>1. /\ net' = net \cup {d} /\ log' = Append(log, d) /\ Len(log) < MaxSends
        /\ sock' = sock /\ frag' = frag /\ algo' = algo
        /\ loads' = Append(loads, [content |-> buf'[q], seq |-> seq[q]])
    BY <1>d, SendingOne DEF SendTo
  <1>2. /\ pc[q] = "send" /\ round[q] = 0 /\ (q # root => NaiveRing /\ next(q) # root)
        /\ seq[q] \in Nat
        /\ \/ /\ seq[q] # Fragments-1
              /\ pc'[q] = "send" /\ round'[q] = 0 /\ peer'[q] = peer[q] /\ seq'[q] = seq[q] + 1
           \/ /\ Eager /\ pc'[q] = "out" /\ round'[q] = 1 /\ peer'[q] = 1
           \/ /\ ~Eager /\ pc'[q] = "answers" /\ round'[q] = 0 /\ peer'[q] = FirstAnswer(q)
        /\ \A r \in Rank : r # q => /\ pc'[r] = pc[r] /\ round'[r] = round[r]
                                    /\ peer'[r] = peer[r] /\ seq'[r] = seq[r]
    BY SendingOne
  <1>3. /\ d.op = Opcode /\ d.root = q /\ d.src = q /\ d.dst = Target(q) /\ d.port = d.dst
        /\ d.id = Len(log) + 1 /\ d.copy = 0 /\ d.at = "cable"
        /\ d.dst \in Rank /\ d.dst # q
        /\ d.op # "MPI_SEND" => d.dst = next(q)
        /\ Claim(d) \subseteq Rank
    BY <1>d, SentClaim, TheRoot
  <1>4. d \in Packet
    <2>1. Opcode \in Opcodes
      BY <1>0, OpcodeType DEF CTypeOK, RankTypeOK
    <2>2. d.id \in 1 .. MaxSends /\ 0 \in 0 .. N /\ <<>> \in Seq(0 .. N) /\ Target(q) \in Rank
      BY <1>0, <1>1, <1>3, MaxSendsAssumption, NAssumption
    <2> QED
      BY <1>3, <1>d, <2>1, <2>2 DEF Datagram, Packet, Addresses, Places
  <1>5. /\ Len(log') = Len(log) + 1 /\ DOMAIN log = 1 .. Len(log)
        /\ DOMAIN log' = 1 .. Len(log) + 1
        /\ log'[Len(log) + 1] = d /\ \A i \in DOMAIN log : log'[i] = log[i]
    BY <1>0, <1>1, <1>4
  <1>6. /\ loads'[Len(log) + 1].seq = seq[q]
        /\ \A i \in DOMAIN log : loads'[i] = loads[i]
    <2> DEFINE Load == [content : -1 .. MaxBcasts, seq : 0 .. Fragments-1]
    <2>1. loads \in Seq(Load)
      BY OneRegime DEF DataType
    <2>2. PICK v : v = [content |-> buf'[q], seq |-> seq[q]]
      OBVIOUS
    <2>3. v \in Load
      <3>1. CTypeOK'
        BY <1>0, OneRegime, DataStep DEF RankStep
      <3>2. buf'[q] \in -1 .. MaxBcasts
        BY <3>1, TypeParts DEF DataType
      <3> QED
        BY <2>2, <3>2, OneRegime
    <2> HIDE DEF Load
    <2>4. loads' = Append(loads, v) /\ v.seq = seq[q]
      BY <1>1, <2>2
    <2> QED
      BY <1>0, <1>5, <2>1, <2>3, <2>4
  <1>7. /\ \A s \in net : s.id \in DOMAIN log
        /\ \A r \in Rank : \A i \in DOMAIN sock[r] : sock[r][i].id \in DOMAIN log
        /\ \A r \in Rank : \A i \in DOMAIN frag[r] : frag[r][i] \in DOMAIN log
    <2>1. ASSUME NEW s \in net
          PROVE  s.id \in DOMAIN log
      <3>1. s.id \in 1 .. MaxSends /\ s.id <= Len(log)
        BY <1>0, Fields DEF LogInv, Logged, TypeOK
      <3> QED
        BY <1>0, <1>5, <3>1
    <2>2. ASSUME NEW r \in Rank, NEW i \in DOMAIN sock[r]
          PROVE  sock[r][i].id \in DOMAIN log
      <3>1. sock[r][i] \in Packet
        BY <1>0 DEF TypeOK
      <3>2. sock[r][i].id \in 1 .. MaxSends /\ sock[r][i].id <= Len(log)
        BY <1>0, <3>1, Fields DEF LogInv, Logged
      <3> QED
        BY <1>0, <1>5, <3>2
    <2>3. ASSUME NEW r \in Rank, NEW i \in DOMAIN frag[r]
          PROVE  frag[r][i] \in DOMAIN log
      <3>1. frag[r] \in Seq(1 .. MaxSends)
        BY <1>0, Typed
      <3>2. frag[r][i] \in 1 .. MaxSends /\ frag[r][i] <= Len(log)
        BY <1>0, <3>1, ElementOfSeq, LenProperties DEF LogInv
      <3> QED
        BY <1>0, <1>5, <3>2
    <2> QED
      BY <2>1, <2>2, <2>3
  <1>8. d.id \notin DOMAIN log
    BY <1>0, <1>3, <1>5
  <1>9. OnceInv'
    <2>1. \A s \in net' : WellFormed(s)'
      <3>1. WellFormed(d)'
        <4>1. d.id <= Len(log')
          BY <1>0, <1>3, <1>5
        <4> QED
          BY <1>3, <4>1, PrevNext DEF WellFormed
      <3>2. ASSUME NEW s \in net
            PROVE  WellFormed(s)'
        <4>1. WellFormed(s) /\ s.id <= Len(log')
          BY <1>0, <1>5, <1>7 DEF OnceInv
        <4> QED
          BY <4>1 DEF WellFormed
      <3> QED
        BY <1>1, <3>1, <3>2
    <2>2. ClaimsApart'
      BY <1>1, <1>7, <1>8 DEF OnceInv, ClaimsApart
    <2>3. ClaimsOpen'
      <3>1. \A s \in net : \A r \in Claim(s) : ~Delivered(r, s.id)
        BY DEF OnceInv, ClaimsOpen
      <3>2. \A r \in Rank : ~Delivered(r, d.id)
        BY <1>7, <1>8 DEF Delivered
      <3> QED
        BY <1>1, <1>3, <3>1, <3>2 DEF ClaimsOpen, Delivered
    <2>4. AtMostOnce'
      BY <1>1 DEF OnceInv, AtMostOnce
    <2>5. CountedOnce'
      <3>1. \A s \in net : \A r \in Claim(s) : ~Counted(r, s.id)
        BY DEF OnceInv, CountedOnce
      <3>2. \A r \in Rank : ~Counted(r, d.id)
        BY <1>7, <1>8 DEF Counted
      <3>3. \A s \in net' : \A r \in Claim(s) : ~Counted(r, s.id)'
        BY <1>1, <1>3, <3>1, <3>2 DEF Counted
      <3> QED
        BY <1>1, <3>3 DEF OnceInv, CountedOnce, Delivered
    <2> QED
      BY <2>1, <2>2, <2>3, <2>4, <2>5 DEF OnceInv
  <1>10. /\ \A i \in DOMAIN log : Lane(i)' = Lane(i)
         /\ \A r : LaneOf(r)' = LaneOf(r)
         /\ Opcode' = Opcode /\ NaiveLinear' = NaiveLinear
    BY <1>1, <1>5 DEF Lane, LaneOf, NaiveRing, NaiveLinear, Opcode
  <1>n. PICK n : n = Len(log) + 1
    OBVIOUS
  <1>11. d.id = n /\ Lane(n)' = <<q, Target(q)>>
    BY <1>3, <1>5, <1>n DEF Lane
  <1>12. <<q, Target(q)>> = LaneOf(Target(q))
    <2>1. CASE NaiveRing
      <3>1. Target(q) = next(q)
        BY <2>1, AlgorithmsApart DEF Target, FirstHop
      <3>2. prev(next(q)) = q
        BY PrevNext
      <3> QED
        BY <2>1, <3>1, <3>2 DEF LaneOf
    <2>2. CASE ~NaiveRing
      <3>1. q = root
        BY <1>2, <2>2
      <3>2. ~NaiveLinear => Target(q) = next(root)
        BY <3>1 DEF Target, FirstHop
      <3> QED
        BY <2>2, <3>1, <3>2 DEF LaneOf
    <2> QED
      BY <2>1, <2>2
  <1>13. LaneInv'
    <2>1. \A s \in net' : s.op = Opcode /\ Lane(s.id)' = LaneOf(s.dst)
      <3>1. d.op = Opcode /\ Lane(d.id)' = LaneOf(d.dst)
        BY <1>3, <1>11, <1>12
      <3> QED
        BY <1>1, <1>7, <1>10, <3>1 DEF LaneInv
    <2>2. \A r \in Rank : \A i \in DOMAIN sock[r] : Lane(sock[r][i].id)' = LaneOf(r)
      <3> SUFFICES ASSUME NEW r \in Rank, NEW i \in DOMAIN sock[r], NEW id, id = sock[r][i].id
                   PROVE  Lane(id)' = LaneOf(r)
        BY <1>1
      <3>1. id \in DOMAIN log /\ Lane(id) = LaneOf(r)
        BY <1>7 DEF LaneInv
      <3> QED
        BY <1>10, <3>1
    <2>3. \A r \in Rank : \A i \in DOMAIN frag[r] : Lane(frag[r][i])' = LaneOf(r)
      <3> SUFFICES ASSUME NEW r \in Rank, NEW i \in DOMAIN frag[r], NEW id, id = frag[r][i]
                   PROVE  Lane(id)' = LaneOf(r)
        BY <1>1
      <3>1. id \in DOMAIN log /\ Lane(id) = LaneOf(r)
        BY <1>7 DEF LaneInv
      <3> QED
        BY <1>10, <3>1
    <2> QED
      BY <1>1, <1>10, <2>1, <2>2, <2>3 DEF LaneInv
  <1>14. ASSUME NEW i \in DOMAIN log, log[i].root = q
         PROVE  \/ NaiveLinear /\ log[i].dst < peer[q]
                \/ log[i].dst = Target(q) /\ loads[i].seq < seq[q]
    BY <1>2, <1>14 DEF SentInv
  <1>15. ASSUME NEW i \in DOMAIN log
         PROVE  log[i] \in Packet /\ log[i].dst \in Int /\ log[i].root \in Rank
    BY <1>0, Fields, InRank
  <1>16. ASSUME NEW i \in DOMAIN log, Lane(i) = <<q, Target(q)>>
         PROVE  loads[i].seq # seq[q]
    <2>1. log[i].root = q /\ log[i].dst = Target(q)
      BY <1>16 DEF Lane
    <2>2. NaiveLinear => Target(q) = peer[q]
      BY DEF Target
    <2>3. ~(NaiveLinear /\ log[i].dst < peer[q])
      BY <1>0, <1>15, <2>1, <2>2
    <2>4. loads[i].seq < seq[q]
      BY <1>14, <2>1, <2>3
    <2> QED
      BY <1>2, <2>4
  <1>17. \A i \in DOMAIN log' : loads'[i].seq \in Int
    <2>1. CTypeOK' /\ LogInv'
      BY OneRegime, DataStep DEF RankStep
    <2>2. \A id \in 1 .. Len(loads') : loads'[id].seq \in 0 .. Fragments-1
      <3> DEFINE Load == [content : -1 .. MaxBcasts, seq : 0 .. Fragments-1]
      <3>1. loads' \in Seq(Load)
        BY <2>1, TypeParts DEF DataType
      <3> HIDE DEF Load
      <3>2. \A id \in 1 .. Len(loads') : loads'[id] \in Load
        BY <3>1
      <3> QED
        BY <3>2 DEF Load
    <2>3. Len(loads') = Len(log')
      BY <2>1 DEF LogInv
    <2> QED
      BY <1>0, <1>5, <2>2, <2>3
  <1>18. SentInv'
    <2>1. ASSUME NEW i \in DOMAIN log', NEW j \in DOMAIN log',
                 Lane(i)' = Lane(j)', loads'[i].seq = loads'[j].seq
          PROVE  i = j
      <3>1. (i \in DOMAIN log \/ i = Len(log) + 1) /\ (j \in DOMAIN log \/ j = Len(log) + 1)
        BY <1>0, <1>5
      <3>2. CASE i \in DOMAIN log /\ j \in DOMAIN log
        BY <1>6, <1>10, <2>1, <3>2 DEF SentInv
      <3>3. CASE i \in DOMAIN log /\ j = n
        BY <1>6, <1>n, <1>10, <1>11, <1>16, <2>1, <3>3
      <3>4. CASE i = n /\ j \in DOMAIN log
        BY <1>6, <1>n, <1>10, <1>11, <1>16, <2>1, <3>4
      <3> QED
        BY <1>n, <3>1, <3>2, <3>3, <3>4
    <2>2. ASSUME NEW i \in DOMAIN log', NEW s, s = log'[i].root
          PROVE  /\ pc'[s] \in {"send", "answers", "garbled"} \/ round'[s] = 1
                 /\ pc'[s] = "send" => \/ NaiveLinear /\ log'[i].dst < peer'[s]
                                       \/ log'[i].dst = Target(s)' /\ loads'[i].seq < seq'[s]
                 /\ pc'[s] = "answers" /\ NaiveLinear => log'[i].dst <= peer'[s]
      <3>1. CASE s # q
        <4>1. i \in DOMAIN log
          <5>1. i \in DOMAIN log \/ i = Len(log) + 1
            BY <1>0, <1>5
          <5> QED
            BY <1>3, <1>5, <2>2, <3>1, <5>1
        <4>2. s = log[i].root /\ s \in Rank /\ log'[i] = log[i] /\ loads'[i] = loads[i]
          BY <1>5, <1>6, <1>15, <2>2, <4>1
        <4>3. /\ pc'[s] = pc[s] /\ round'[s] = round[s] /\ peer'[s] = peer[s]
              /\ seq'[s] = seq[s]
          BY <1>2, <3>1, <4>2
        <4>4. Target(s)' = Target(s)
          BY <1>1, <4>3 DEF Target, NaiveLinear
        <4>5. /\ pc[s] \in {"send", "answers", "garbled"} \/ round[s] = 1
              /\ pc[s] = "send" => \/ NaiveLinear /\ log[i].dst < peer[s]
                                   \/ log[i].dst = Target(s) /\ loads[i].seq < seq[s]
              /\ pc[s] = "answers" /\ NaiveLinear => log[i].dst <= peer[s]
          BY <4>1, <4>2 DEF SentInv
        <4> QED
          BY <4>2, <4>3, <4>4, <4>5
      <3>2. CASE s = q
        <4>1. \/ NaiveLinear /\ log'[i].dst < peer[q]
              \/ log'[i].dst = Target(q) /\ loads'[i].seq < seq[q]
              \/ log'[i].dst = Target(q) /\ loads'[i].seq = seq[q]
          <5>1. CASE i \in DOMAIN log
            <6>1. log[i].root = q /\ log'[i] = log[i] /\ loads'[i] = loads[i]
              BY <1>5, <1>6, <2>2, <3>2, <5>1
            <6> QED
              BY <1>14, <5>1, <6>1
          <5>2. CASE i = Len(log) + 1
            BY <1>3, <1>5, <1>6, <5>2
          <5> QED
            BY <1>0, <1>5, <5>1, <5>2
        <4>2. NaiveLinear => Target(q) = peer[q]
          BY DEF Target
        <4>3. log'[i].dst \in Int
          BY <1>3, <1>5, <1>15, InRank
        <4>4. loads'[i].seq < seq[q] \/ loads'[i].seq = seq[q] => loads'[i].seq < seq[q] + 1
          <5>1. ASSUME loads'[i].seq < seq[q]
                PROVE  loads'[i].seq < seq[q] + 1
            <6>1. loads'[i].seq \in Int
              BY <1>17, <2>2
            <6> QED
              BY <1>2, <5>1, <6>1
          <5> QED
            BY <1>2, <5>1
        <4>5. CASE pc'[q] = "send" /\ peer'[q] = peer[q] /\ seq'[q] = seq[q] + 1
          <5>1. Target(q)' = Target(q)
            BY <1>1, <4>5 DEF Target, NaiveLinear
          <5> QED
            BY <3>2, <4>1, <4>4, <4>5, <5>1
        <4>6. CASE pc'[q] = "out" /\ round'[q] = 1
          BY <3>2, <4>6
        <4>7. CASE pc'[q] = "answers" /\ peer'[q] = FirstAnswer(q)
          <5>1. NaiveLinear => FirstAnswer(q) = peer[q]
            BY <4>2 DEF FirstAnswer
          <5>2. NaiveLinear => log'[i].dst <= peer[q]
            BY <1>0, <4>1, <4>2, <4>3
          <5> QED
            BY <3>2, <4>7, <5>1, <5>2
        <4> QED
          BY <1>2, <4>5, <4>6, <4>7
      <3> QED
        BY <3>1, <3>2
    <2> QED
      BY <1>10, <2>1, <2>2 DEF SentInv
  <1> QED
    BY <1>9, <1>13, <1>18

-----------------------------------------------------------------------------
(* One content.                                                            *)

\* As many different numbers as there are fragments are all of them.
LEMMA AllNumbers ==
  ASSUME NEW n \in Nat, NEW f \in [1 .. n -> 0 .. n-1],
         \A i, j \in 1 .. n : f[i] = f[j] => i = j
  PROVE  {f[i] : i \in 1 .. n} = 0 .. n-1
  <1> DEFINE S == 1 .. n
             T == 0 .. n-1
  <1>1. IsFiniteSet(S) /\ IsFiniteSet(T) /\ Cardinality(S) = Cardinality(T)
    <2>1. IsFiniteSet(1 .. n) /\ Cardinality(1 .. n) = IF 1 > n THEN 0 ELSE n-1+1
      BY FS_Interval
    <2>2. IsFiniteSet(0 .. n-1) /\ Cardinality(0 .. n-1) = IF 0 > n-1 THEN 0 ELSE n-1-0+1
      BY FS_Interval
    <2> QED
      BY <2>1, <2>2
  <1> HIDE DEF S, T
  <1>2. f \in Injection(S, T)
    BY DEF S, T, Injection, IsInjective
  <1>3. f \in Surjection(S, T)
    BY <1>1, <1>2, FS_Injection
  <1>4. f \in [S -> T] /\ \A t \in T : \E s \in S : f[s] = t
    BY <1>3 DEF Surjection
  <1> QED
    BY <1>4 DEF S, T

\* What mpi_recv has counted, when it has enough, is the whole payload.
LEMMA Assembled ==
  ASSUME CInv, Single, plane = "XDP" => LaneInv /\ SentInv /\ OnceInv,
         \A i \in DOMAIN loads : loads[i].content = 1,
         NEW q \in Rank, Recvfrom(q), Complete(Append(frag[q], Head(sock[q]).id))
  PROVE  Assemble(Append(frag[q], Head(sock[q]).id)) = 1
  <1>0. /\ CTypeOK /\ LogInv /\ DataType /\ Fragments \in Nat \ {0} /\ Len(loads) = Len(log)
        /\ log \in Seq(Packet)
    BY OneRegime, FragmentsAssumption DEF LogInv, TypeOK
  <1>p. PICK p : p = Head(sock[q])
    OBVIOUS
  <1>i. PICK ids : ids = Append(frag[q], p.id)
    OBVIOUS
  <1>1. /\ p.id \in 1 .. Len(log) /\ 1 \in DOMAIN sock[q] /\ sock[q][1] = p
        /\ frag[q] \in Seq(1 .. MaxSends)
        /\ \A i \in DOMAIN ids : \/ i \in DOMAIN frag[q] /\ ids[i] = frag[q][i]
                                 \/ i = Len(frag[q]) + 1 /\ ids[i] = p.id
    BY <1>0, <1>p, <1>i, Drawn
  <1>2. DOMAIN ids = 1 .. Fragments
    <2>1. p.id \in 1 .. MaxSends
      BY <1>0, <1>p, <1>i, Received
    <2>2. ids \in Seq(1 .. MaxSends)
      BY <1>1, <1>i, <2>1
    <2>3. Len(ids) = Fragments
      BY <1>p, <1>i DEF Complete
    <2> QED
      BY <2>2, <2>3
  <1>3. \A i \in DOMAIN ids : ids[i] \in DOMAIN log /\ ids[i] \in DOMAIN loads
    <2> SUFFICES ASSUME NEW i \in DOMAIN ids
                 PROVE  ids[i] \in 1 .. Len(log)
      <3>1. DOMAIN log = 1 .. Len(log) /\ DOMAIN loads = 1 .. Len(loads)
        BY <1>0 DEF DataType
      <3> QED
        BY <1>0, <3>1
    <2>1. CASE ids[i] = p.id
      BY <1>1, <2>1
    <2>2. CASE i \in DOMAIN frag[q] /\ ids[i] = frag[q][i]
      <3>1. frag[q][i] \in 1 .. MaxSends
        BY <1>1, <2>2, ElementOfSeq, LenProperties
      <3>2. frag[q][i] <= Len(log) /\ Len(log) \in Nat
        BY <1>0, <2>2 DEF LogInv
      <3> QED
        BY <2>2, <3>1, <3>2
    <2> QED
      BY <1>1, <2>1, <2>2
  <1>4. \A i \in DOMAIN ids : loads[ids[i]].content = 1 /\ loads[ids[i]].seq \in 0 .. Fragments-1
    <2>1. \A i \in DOMAIN loads : loads[i].seq \in 0 .. Fragments-1
      <3> DEFINE Load == [content : -1 .. MaxBcasts, seq : 0 .. Fragments-1]
      <3>1. loads \in Seq(Load)
        BY <1>0 DEF DataType
      <3> HIDE DEF Load
      <3>2. \A i \in DOMAIN loads : loads[i] \in Load
        BY <3>1
      <3> QED
        BY <3>2 DEF Load
    <2> QED
      BY <1>3, <2>1
  <1>5. {loads[ids[i]].content : i \in DOMAIN ids} = {1}
    <2>1. 1 \in DOMAIN ids
      BY <1>0, <1>2
    <2> QED
      BY <1>4, <2>1
  <1>6. ASSUME NEW i \in DOMAIN ids, NEW j \in DOMAIN ids,
               loads[ids[i]].seq = loads[ids[j]].seq
        PROVE  i = j
    <2>1. CASE Fragments = 1
      <3>1. i \in 1 .. 1 /\ j \in 1 .. 1
        BY <1>2, <2>1
      <3> QED
        BY <3>1
    <2>2. CASE Fragments # 1
      <3>1. LaneInv /\ SentInv /\ OnceInv
        BY <2>2 DEF Single
      <3>2. Lane(ids[i]) = LaneOf(q) /\ Lane(ids[j]) = LaneOf(q)
        <4>1. Lane(p.id) = LaneOf(q)
          BY <1>1, <3>1 DEF LaneInv
        <4>2. \A k \in DOMAIN frag[q] : Lane(frag[q][k]) = LaneOf(q)
          BY <3>1 DEF LaneInv
        <4> QED
          BY <1>1, <4>1, <4>2
      <3>3. ids[i] = ids[j]
        BY <1>3, <1>6, <3>1, <3>2 DEF SentInv
      <3>4. Delivered(q, p.id)
        BY <1>1 DEF Delivered
      <3>5. \A k \in DOMAIN frag[q] : frag[q][k] # p.id
        BY <3>1, <3>4 DEF OnceInv, CountedOnce
      <3>6. \A k, l \in DOMAIN frag[q] : frag[q][k] = frag[q][l] => k = l
        BY <3>1 DEF OnceInv, CountedOnce
      <3> QED
        BY <1>1, <3>3, <3>5, <3>6
    <2> QED
      BY <2>1, <2>2
  <1>7. {loads[ids[i]].seq : i \in DOMAIN ids} = 0 .. Fragments-1
    <2> DEFINE f == [i \in 1 .. Fragments |-> loads[ids[i]].seq]
    <2>1. f \in [1 .. Fragments -> 0 .. Fragments-1]
      BY <1>2, <1>4
    <2>2. \A i, j \in 1 .. Fragments : f[i] = f[j] => i = j
      BY <1>2, <1>6
    <2>3. {f[i] : i \in 1 .. Fragments} = {loads[ids[i]].seq : i \in DOMAIN ids}
      BY <1>2
    <2> HIDE DEF f
    <2>4. {f[i] : i \in 1 .. Fragments} = 0 .. Fragments-1
      BY <1>0, <2>1, <2>2, AllNumbers
    <2> QED
      BY <2>3, <2>4
  <1>8. Cardinality({1}) = 1 /\ (CHOOSE k \in {1} : TRUE) = 1
    BY FS_Singleton
  <1>9. Assemble(ids) = 1
    BY <1>5, <1>7, <1>8 DEF Assemble
  <1> QED
    BY <1>p, <1>i, <1>9

\* What a receiver has.
Has(r) ==
  /\ buf[r] \in {NoContent, 1}
  /\ pc[r] \in {"ack", "send", "answers"} => buf[r] = 1
  /\ round[r] = 1 /\ (Eager => timeouts = 0) => buf[r] = 1
  /\ pc[r] \notin {"ack", "send", "answers", "garbled"} /\ round[r] = 0 => buf[r] = NoContent

LEMMA HasParts ==
  /\ HasInv <=> /\ \A i \in DOMAIN loads : loads[i].content = 1
                /\ pc[root] = "answers" \/ round[root] = 1 => buf[root] = 1
                /\ \A r \in Receiver : Has(r)
  /\ HasInv' <=> /\ \A i \in DOMAIN loads' : loads'[i].content = 1
                 /\ pc'[root] = "answers" \/ round'[root] = 1 => buf'[root] = 1
                 /\ \A r \in Receiver : Has(r)'
  BY DEF HasInv, Has

\* The message a rank takes says what SaidInv says.
LEMMA HeadSays ==
  ASSUME CTypeOK, SaidInv, NEW q \in Rank, Reading(q), Fits(q)
  PROVE  LET message == Head(Incoming(q))
         IN  /\ message.kind = "DATA" => message.content = 1
             /\ message.kind = "ACK" => Peer(q) # root /\ buf[Peer(q)] = 1
  <1>1. PICK a \in Rank : a = Peer(q)
    BY Reads
  <1>2. PICK messages : messages = stream[Link(a, q)]
    OBVIOUS
  <1>3. messages \in Seq(Message) /\ messages # <<>> /\ Incoming(q) = messages
    BY <1>1, <1>2, Reads, Typed DEF Incoming, StreamType, Link
  <1>4. 1 \in DOMAIN messages /\ Head(messages) = messages[1]
    BY <1>3
  <1>5. /\ messages[1].kind = "DATA" => messages[1].content = 1
        /\ messages[1].kind = "ACK" => a # root /\ buf[a] = 1
    BY <1>2, <1>4 DEF SaidInv
  <1> QED
    BY <1>1, <1>3, <1>4, <1>5

\* A rank learns the one content, or keeps what it has.
LEMMA Learned ==
  ASSUME CInv, Single, plane = "XDP" => LaneInv /\ SentInv /\ OnceInv, HasInv, SaidInv,
         NEW q \in Rank, RankStep(q) \/ Timeout(q)
  PROVE  /\ buf'[q] = 1 \/ buf'[q] = buf[q]
         /\ q = root => (pc'[q] = "answers" \/ round'[q] = 1 => buf'[q] = 1)
         /\ q # root => Has(q)'
  <1>0. /\ CTypeOK /\ ControlType /\ DataType /\ ProgramInv /\ MaxBcasts = 1
        /\ round[q] \in {0, 1} /\ (InBcast(q) => round[q] = 0) /\ Program(q)
        /\ buf \in [Rank -> -1 .. MaxBcasts] /\ NoContent # 1
    BY OneRegime, ProgramParts DEF DataType, NoContent
  <1>1. /\ \A i \in DOMAIN loads : loads[i].content = 1
        /\ q = root /\ (pc[q] = "answers" \/ round[q] = 1) => buf[q] = 1
        /\ q # root => Has(q)
    BY HasParts, TheRoot
  <1>2. algo' = algo /\ timeouts \in Nat /\ timeouts' \in Nat /\ timeouts' >= timeouts
    BY <1>0, Elsewhere
  <1>3. (Eager' <=> Eager) /\ ((Eager => timeouts' = 0) => (Eager => timeouts = 0))
    BY <1>2 DEF Eager
  <1>4. CASE EnterBarrier(q) \/ SendToken(q) \/ RecvToken(q)
    <2>1. /\ pc[q] \in {"out", "barrier send", "barrier recv"}
          /\ pc'[q] \in {"barrier send", "barrier recv", AfterBarrier(q)}
          /\ round' = round /\ buf' = buf
      BY <1>0, <1>4 DEF EnterBarrier, SendToken, RecvToken, AfterToken, ControlType
    <2>2. AfterBarrier(q) \in {"done", "send", "recv"} /\ (AfterBarrier(q) = "send" => q = root)
      BY DEF AfterBarrier
    <2> QED
      BY <1>1, <1>3, <2>1, <2>2 DEF Has
  <1>5. CASE Garble(q)
    <2>1. pc'[q] = "garbled" /\ round' = round /\ buf' = buf
      BY <1>0, <1>5 DEF Garble, ControlType
    <2> QED
      BY <1>1, <1>3, <2>1 DEF Has
  <1>6. CASE SendFragment(q)
    <2>1. /\ pc[q] = "send" /\ buf'[q] = IF q = root THEN 1 ELSE buf[q]
          /\ \/ pc'[q] = "send" /\ round'[q] = 0
             \/ pc'[q] = "out" /\ round'[q] = 1
             \/ pc'[q] = "answers" /\ round'[q] = 0
      BY <1>6, SendingOne
    <2>2. buf'[q] = 1
      BY <1>1, <2>1 DEF Has
    <2> QED
      BY <2>1, <2>2 DEF Has
  <1>7. CASE RecvAnswer(q)
    <2>1. pc[q] = "answers" /\ round[q] = 0 /\ buf' = buf
      BY <1>0, <1>7 DEF RecvAnswer, InBcast
    <2>2. buf'[q] = 1
      BY <1>1, <2>1 DEF Has
    <2>3. (pc'[q] = "out" /\ round'[q] = 1) \/ pc'[q] \in {"send", "answers"}
      <3>1. CASE LastAnswer(q)
        BY <1>0, <1>7, <2>1, <3>1, OwnReturn DEF RecvAnswer
      <3>2. CASE ~LastAnswer(q)
        BY <1>0, <1>7, <3>2 DEF RecvAnswer, ControlType
      <3> QED
        BY <3>1, <3>2
    <2> QED
      BY <2>2, <2>3 DEF Has
  <1>8. CASE Recvfrom(q)
    <2>1. pc[q] = "recv" /\ round[q] = 0 /\ q # root
      BY <1>0, <1>8 DEF Recvfrom, InBcast, Program
    <2>p. PICK ids : ids = Append(frag[q], Head(sock[q]).id)
      OBVIOUS
    <2>2. CASE Complete(ids)
      <3>1. Assemble(ids) = 1
        BY <1>1, <1>8, <2>2, <2>p, Assembled
      <3>2. buf' = [buf EXCEPT ![q] = Assemble(ids)] /\ IF Eager THEN Return(q) ELSE GoOn(q, "ack")
        BY <1>8, <2>2, <2>p DEF Recvfrom
      <3>3. buf'[q] = 1
        BY <1>0, <3>1, <3>2
      <3>4. (pc'[q] = "out" /\ round'[q] = 1) \/ pc'[q] = "ack"
        BY <1>0, <2>1, <3>2, OwnReturn, OwnGoOn
      <3> QED
        BY <2>1, <3>3, <3>4 DEF Has
    <2>3. CASE ~Complete(ids)
      <3>1. buf' = buf /\ pc' = pc /\ round' = round
        BY <1>8, <2>3, <2>p DEF Recvfrom
      <3> QED
        BY <1>1, <1>3, <2>1, <3>1 DEF Has
    <2> QED
      BY <2>2, <2>3
  <1>9. CASE RecvFallback(q)
    <2>1. /\ pc[q] = "fallback" /\ q # root /\ Fits(q) /\ Reading(q) /\ GoOn(q, "ack")
          /\ buf' = [buf EXCEPT ![q] = Head(Incoming(q)).content]
      BY <1>0, <1>9 DEF RecvFallback, Program, Reading
    <2>2. Head(Incoming(q)).kind = "DATA"
      BY <1>0, <2>1, Reads
    <2>3. Head(Incoming(q)).content = 1
      BY <1>0, <2>1, <2>2, HeadSays
    <2>4. buf'[q] = 1 /\ pc'[q] = "ack"
      BY <1>0, <2>1, <2>3, OwnGoOn
    <2> QED
      BY <2>1, <2>4 DEF Has
  <1>10. CASE SendAck(q)
    <2>1. pc[q] = "ack" /\ round[q] = 0 /\ q # root /\ buf' = buf
      BY <1>0, <1>10 DEF SendAck, InBcast, Program
    <2>2. buf'[q] = 1
      BY <1>1, <2>1 DEF Has
    <2>3. (pc'[q] = "out" /\ round'[q] = 1) \/ pc'[q] = "send"
      BY <1>0, <1>10, <2>1, OwnReturn, OwnGoOn DEF SendAck
    <2> QED
      BY <2>1, <2>2, <2>3 DEF Has
  <1>11. CASE Timeout(q)
    <2>1. pc[q] = "recv" /\ round[q] = 0 /\ q # root /\ buf' = buf /\ timeouts' = timeouts + 1
      BY <1>0, <1>11 DEF Timeout, InBcast, Program
    <2>2. timeouts' # 0
      BY <1>2, <2>1
    <2>3. /\ Eager => pc'[q] = "out" /\ round'[q] = 1
          /\ ~Eager => pc'[q] = "fallback" /\ round'[q] = 0
      BY <1>0, <1>11, <2>1, OwnReturn, OwnGoOn DEF Timeout
    <2> QED
      BY <1>1, <1>3, <2>1, <2>2, <2>3 DEF Has
  <1> QED
    BY <1>4, <1>5, <1>6, <1>7, <1>8, <1>9, <1>10, <1>11 DEF RankStep

LEMMA HasStep ==
  ASSUME CInv, Single, plane = "XDP" => LaneInv /\ SentInv /\ OnceInv, HasInv, SaidInv,
         NEW q \in Rank, RankStep(q) \/ Timeout(q)
  PROVE  /\ HasInv'
         /\ \A r \in Rank : buf[r] = 1 => buf'[r] = 1
  <1>0. CTypeOK /\ DataType /\ root \in Rank
    BY OneRegime, TheRoot
  <1>1. /\ \A r \in Rank : r # q => pc'[r] = pc[r] /\ round'[r] = round[r] /\ buf'[r] = buf[r]
        /\ algo' = algo /\ timeouts \in Nat /\ timeouts' \in Nat /\ timeouts' >= timeouts
    BY <1>0, Elsewhere
  <1>2. /\ buf'[q] = 1 \/ buf'[q] = buf[q]
        /\ q = root => (pc'[q] = "answers" \/ round'[q] = 1 => buf'[q] = 1)
        /\ q # root => Has(q)'
    BY Learned
  <1>3. /\ \A i \in DOMAIN loads : loads[i].content = 1
        /\ pc[root] = "answers" \/ round[root] = 1 => buf[root] = 1
        /\ \A r \in Receiver : Has(r)
    BY HasParts
  <1>4. \A i \in DOMAIN loads' : loads'[i].content = 1
    <2>1. CASE SendFragment(q)
      <3>1. /\ loads' = Append(loads, [content |-> buf'[q], seq |-> seq[q]])
            /\ pc[q] = "send" /\ buf'[q] = IF q = root THEN 1 ELSE buf[q]
        BY <2>1, SendingOne
      <3>2. buf'[q] = 1
        BY <1>3, <3>1, TheRoot DEF Has
      <3> DEFINE Load == [content : -1 .. MaxBcasts, seq : 0 .. Fragments-1]
      <3>3. loads \in Seq(Load)
        BY <1>0 DEF DataType
      <3>4. PICK v : v = [content |-> 1, seq |-> seq[q]]
        OBVIOUS
      <3>5. v \in Load
        BY <3>4, OneRegime
      <3> HIDE DEF Load
      <3>6. loads' = Append(loads, v) /\ v.content = 1
        BY <3>1, <3>2, <3>4
      <3>7. /\ DOMAIN loads' = 1 .. Len(loads) + 1 /\ DOMAIN loads = 1 .. Len(loads)
            /\ Len(loads) \in Nat
            /\ loads'[Len(loads) + 1] = v /\ \A i \in DOMAIN loads : loads'[i] = loads[i]
        BY <3>3, <3>5, <3>6
      <3> SUFFICES ASSUME NEW i \in DOMAIN loads'
                   PROVE  loads'[i].content = 1
        OBVIOUS
      <3>8. i \in DOMAIN loads \/ i = Len(loads) + 1
        BY <3>7
      <3> QED
        BY <1>3, <3>6, <3>7, <3>8
    <2>2. CASE ~SendFragment(q)
      <3>1. loads' = loads
        BY <2>2 DEF RankStep, EnterBarrier, SendToken, RecvToken, Garble, RecvAnswer, Recvfrom,
                    RecvFallback, SendAck, Timeout
      <3> QED
        BY <1>3, <3>1
    <2> QED
      BY <2>1, <2>2
  <1>5. pc'[root] = "answers" \/ round'[root] = 1 => buf'[root] = 1
    <2>1. CASE q = root
      BY <1>2, <2>1
    <2>2. CASE q # root
      BY <1>0, <1>1, <1>3, <2>2
    <2> QED
      BY <2>1, <2>2
  <1>6. ASSUME NEW r \in Receiver
        PROVE  Has(r)'
    <2>1. r \in Rank /\ r # root /\ Has(r)
      BY <1>3, TheRoot
    <2>2. CASE r = q
      BY <1>2, <2>1, <2>2
    <2>3. CASE r # q
      <3>1. pc'[r] = pc[r] /\ round'[r] = round[r] /\ buf'[r] = buf[r]
        BY <1>1, <2>1, <2>3
      <3>2. timeouts' = 0 => timeouts = 0
        BY <1>1
      <3>3. Eager' <=> Eager
        BY <1>1 DEF Eager
      <3> QED
        BY <2>1, <3>1, <3>2, <3>3 DEF Has
    <2> QED
      BY <2>2, <2>3
  <1>7. HasInv'
    BY <1>4, <1>5, <1>6, HasParts
  <1>8. \A r \in Rank : buf[r] = 1 => buf'[r] = 1
    BY <1>1, <1>2
  <1> QED
    BY <1>7, <1>8

-----------------------------------------------------------------------------
(* What the messages say.                                                  *)

Says(q, message, b) ==
  /\ message.kind = "DATA" => message.content = 1
  /\ message.kind = "ACK" => q # root /\ b[q] = 1
AllSay(s, b) ==
  \A q, r \in Rank : \A i \in DOMAIN s[Link(q, r)] : Says(q, s[Link(q, r)][i], b)

LEMMA SaidParts ==
  (SaidInv <=> AllSay(stream, buf)) /\ (SaidInv' <=> AllSay(stream', buf'))
  BY DEF SaidInv, AllSay, Says

LEMMA SaidQueue ==
  ASSUME NEW s \in StreamType, NEW b, AllSay(s, b), NEW q \in Rank, NEW r \in Rank,
         NEW m \in Message, Says(q, m, b)
  PROVE  AllSay(Queue(s, q, r, m), b)
  <1> SUFFICES ASSUME NEW a \in Rank, NEW c \in Rank,
                      NEW i \in DOMAIN Queue(s, q, r, m)[Link(a, c)]
               PROVE  Says(a, Queue(s, q, r, m)[Link(a, c)][i], b)
    BY DEF AllSay
  <1>1. PICK old : old = s[Link(a, c)]
    OBVIOUS
  <1>2. old \in Seq(Message) /\ \A j \in DOMAIN old : Says(a, old[j], b)
    BY <1>1 DEF StreamType, Link, AllSay
  <1>3. CASE a = q /\ c = r
    <2>1. Queue(s, q, r, m)[Link(a, c)] = Append(old, m)
      <3>1. Queue(s, q, r, m)[Link(a, c)]
              = IF a = q /\ c = r THEN Append(s[Link(q, r)], m) ELSE s[Link(a, c)]
        BY QueueAt
      <3> QED
        BY <1>1, <1>3, <3>1
    <2>2. (i \in DOMAIN old /\ Append(old, m)[i] = old[i]) \/ Append(old, m)[i] = m
      <3>1. i \in DOMAIN Append(old, m)
        BY <2>1
      <3> QED
        BY <1>2, <3>1, AppendProperties, LenProperties
    <2> QED
      BY <1>2, <1>3, <2>1, <2>2
  <1>4. CASE ~(a = q /\ c = r)
    <2>1. Queue(s, q, r, m)[Link(a, c)] = old
      BY <1>1, <1>4, QueueAt
    <2> QED
      BY <1>2, <2>1
  <1> QED
    BY <1>3, <1>4

LEMMA SaidDequeue ==
  ASSUME NEW s \in StreamType, NEW b, AllSay(s, b), NEW q \in Rank, NEW r \in Rank,
         s[Link(q, r)] # <<>>
  PROVE  AllSay(Dequeue(s, q, r), b)
  <1> SUFFICES ASSUME NEW a \in Rank, NEW c \in Rank,
                      NEW i \in DOMAIN Dequeue(s, q, r)[Link(a, c)]
               PROVE  Says(a, Dequeue(s, q, r)[Link(a, c)][i], b)
    BY DEF AllSay
  <1>1. PICK old : old = s[Link(a, c)]
    OBVIOUS
  <1>2. old \in Seq(Message) /\ \A j \in DOMAIN old : Says(a, old[j], b)
    BY <1>1 DEF StreamType, Link, AllSay
  <1>3. CASE a = q /\ c = r
    <2>1. Dequeue(s, q, r)[Link(a, c)] = Tail(old) /\ old # <<>>
      BY <1>1, <1>3, DequeueAt
    <2>2. i + 1 \in DOMAIN old /\ Tail(old)[i] = old[i+1]
      BY <1>2, <2>1, HeadTailProperties, LenProperties
    <2> QED
      BY <1>2, <2>1, <2>2
  <1>4. CASE ~(a = q /\ c = r)
    <2>1. Dequeue(s, q, r)[Link(a, c)] = old
      BY <1>1, <1>4, DequeueAt
    <2> QED
      BY <1>2, <2>1
  <1> QED
    BY <1>3, <1>4

LEMMA SaidStep ==
  ASSUME CInv, Single, plane = "XDP" => LaneInv /\ SentInv /\ OnceInv, HasInv, SaidInv,
         NEW q \in Rank, RankStep(q) \/ Timeout(q)
  PROVE  SaidInv'
  <1>0. /\ CTypeOK /\ ControlType /\ DataType /\ ProgramInv /\ LogInv /\ FromInv /\ Program(q)
        /\ stream \in StreamType /\ buf[q] \in -1 .. MaxBcasts
    BY OneRegime, ProgramParts, Typed
  <1>1. AllSay(stream, buf')
    <2> SUFFICES ASSUME NEW a \in Rank, NEW c \in Rank, NEW i \in DOMAIN stream[Link(a, c)]
                 PROVE  Says(a, stream[Link(a, c)][i], buf')
      BY DEF AllSay
    <2>1. Says(a, stream[Link(a, c)][i], buf)
      BY SaidParts DEF AllSay
    <2>2. buf[a] = 1 => buf'[a] = 1
      BY HasStep
    <2> QED
      BY <2>1, <2>2 DEF Says
  <1>2. Reading(q) /\ Fits(q) => AllSay(Taken(q), buf')
    <2> SUFFICES ASSUME Reading(q), Fits(q)
                 PROVE  AllSay(Taken(q), buf')
      OBVIOUS
    <2>1. PICK a \in Rank : a = Peer(q)
      BY <1>0, Reads
    <2>2. stream[Link(a, q)] # <<>> /\ Taken(q) = Dequeue(stream, a, q)
      BY <2>1 DEF Fits, Incoming, Taken
    <2> QED
      BY <1>0, <1>1, <2>2, SaidDequeue
  <1>3. /\ q = root /\ (pc[q] = "answers" \/ round[q] = 1) => buf[q] = 1
        /\ q # root => Has(q) /\ Has(q)'
        /\ buf[q] = 1 => buf'[q] = 1
    BY HasParts, HasStep, TheRoot
  <1>4. CASE EnterBarrier(q) \/ Garble(q) \/ SendFragment(q)
    <2>1. stream' = stream
      BY <1>4 DEF EnterBarrier, Garble, SendFragment
    <2> QED
      BY <1>1, <2>1, SaidParts
  <1>5. CASE SendToken(q)
    <2>1. stream' = Queue(stream, q, next(q), Token(q))
      BY <1>5 DEF SendToken
    <2>2. PICK m \in Message : m = Token(q) /\ m.kind = "TOKEN"
      BY MessageTypes
    <2>3. Says(q, m, buf')
      BY <2>2 DEF Says
    <2>4. next(q) \in Rank
      BY DestinationTypes
    <2>5. AllSay(Queue(stream, q, next(q), m), buf')
      BY <1>0, <1>1, <2>3, <2>4, SaidQueue
    <2> QED
      BY <2>1, <2>2, <2>5, SaidParts
  <1>6. CASE RecvToken(q)
    <2>1. stream' = Taken(q) /\ Reading(q) /\ Fits(q)
      BY <1>6 DEF RecvToken, Reading
    <2> QED
      BY <1>2, <2>1, SaidParts
  <1>7. CASE RecvAnswer(q)
    <2>1. /\ stream' = Reply(q, Head(Incoming(q)), Taken(q)) /\ Reading(q) /\ Fits(q)
          /\ pc[q] = "answers"
      BY <1>7 DEF RecvAnswer, Reading
    <2>2. PICK a \in Rank : a = Peer(q) /\ Head(Incoming(q)).from = a /\ Taken(q) \in StreamType
      BY <1>0, <2>1, Reads, HeadFrom
    <2>3. \/ stream' = Taken(q)
          \/ stream' = Queue(Taken(q), q, a, Data(q))
      BY <2>1, <2>2 DEF Reply
    <2>4. buf[q] = 1
      BY <1>3, <2>1 DEF Has
    <2>5. PICK m \in Message : m = Data(q) /\ m.kind = "DATA"
      BY <1>0, MessageTypes
    <2>6. Says(q, m, buf')
      BY <2>4, <2>5 DEF Says, Data
    <2>7. AllSay(Taken(q), buf')
      BY <1>2, <2>1
    <2>8. AllSay(Queue(Taken(q), q, a, m), buf')
      BY <2>2, <2>6, <2>7, SaidQueue
    <2> QED
      BY <2>3, <2>5, <2>7, <2>8, SaidParts
  <1>8. CASE Recvfrom(q)
    <2>1. pc[q] = "recv" /\ q # root
      BY <1>0, <1>8 DEF Recvfrom, Program
    <2>p. PICK ids : ids = Append(frag[q], Head(sock[q]).id)
      OBVIOUS
    <2>2. CASE Complete(ids) /\ RecvAcks
      <3>1. /\ stream' = Queue(stream, q, Head(sock[q]).root, Header("ACK", q))
            /\ GoOn(q, "ack")
        BY <1>8, <2>2, <2>p DEF Recvfrom, RecvAcks
      <3>2. pc'[q] = "ack"
        BY <1>0, <3>1, OwnGoOn
      <3>3. buf'[q] = 1
        BY <1>3, <2>1, <3>2 DEF Has
      <3>4. PICK m \in Message : m = Header("ACK", q) /\ m.kind = "ACK"
        BY MessageTypes
      <3>5. Says(q, m, buf')
        BY <2>1, <3>3, <3>4 DEF Says
      <3>6. Head(sock[q]).root \in Rank
        <4>1. Head(sock[q]) \in Packet
          BY <1>0, <1>8, Received
        <4> QED
          BY <4>1, Fields
      <3>7. AllSay(Queue(stream, q, Head(sock[q]).root, m), buf')
        BY <1>0, <1>1, <3>5, <3>6, SaidQueue
      <3> QED
        BY <3>1, <3>4, <3>7, SaidParts
    <2>3. CASE ~(Complete(ids) /\ RecvAcks)
      <3>1. stream' = stream
        BY <1>8, <2>3, <2>p DEF Recvfrom
      <3> QED
        BY <1>1, <3>1, SaidParts
    <2> QED
      BY <2>2, <2>3
  <1>9. CASE RecvFallback(q)
    <2>1. stream' = Taken(q) /\ Reading(q) /\ Fits(q)
      BY <1>9 DEF RecvFallback, Reading
    <2> QED
      BY <1>2, <2>1, SaidParts
  <1>10. CASE SendAck(q)
    <2>1. pc[q] = "ack" /\ stream' = Queue(stream, q, AckTo(q), Header("ACK", q))
      BY <1>10 DEF SendAck
    <2>2. q # root
      BY <1>0, <2>1 DEF Program
    <2>3. buf'[q] = 1
      BY <1>3, <2>1, <2>2 DEF Has
    <2>4. PICK m \in Message : m = Header("ACK", q) /\ m.kind = "ACK"
      BY MessageTypes
    <2>5. Says(q, m, buf')
      BY <2>2, <2>3, <2>4 DEF Says
    <2>6. AckTo(q) \in Rank
      BY DestinationTypes
    <2>7. AllSay(Queue(stream, q, AckTo(q), m), buf')
      BY <1>0, <1>1, <2>5, <2>6, SaidQueue
    <2> QED
      BY <2>1, <2>4, <2>7, SaidParts
  <1>11. CASE Timeout(q)
    <2>1. \/ stream' = stream
          \/ stream' = Queue(stream, q, Source(q), Header("NACK", q))
      BY <1>11 DEF Timeout
    <2>2. PICK m \in Message : m = Header("NACK", q) /\ m.kind = "NACK"
      BY MessageTypes
    <2>3. Says(q, m, buf')
      BY <2>2 DEF Says
    <2>4. Source(q) \in Rank
      BY DestinationTypes
    <2>5. AllSay(Queue(stream, q, Source(q), m), buf')
      BY <1>0, <1>1, <2>3, <2>4, SaidQueue
    <2> QED
      BY <1>1, <2>1, <2>2, <2>5, SaidParts
  <1> QED
    BY <1>4, <1>5, <1>6, <1>7, <1>8, <1>9, <1>10, <1>11 DEF RankStep

-----------------------------------------------------------------------------
(* Whom the root has heard of.                                             *)

PayloadOn(s, r) == \E i \in DOMAIN s[Link(root, r)] : s[Link(root, r)][i].kind = "DATA"

LEMMA AnsweredParts ==
  /\ AnsweredInv <=> (WaitsForAll => \A r \in Receiver :
                        round[root] = 1 \/ r < peer[root] => buf[r] = 1 \/ PayloadOn(stream, r))
  /\ AnsweredInv' <=> (WaitsForAll' => \A r \in Receiver :
                        round'[root] = 1 \/ r < peer'[root] =>
                          buf'[r] = 1 \/ PayloadOn(stream', r))
  BY DEF AnsweredInv, OnItsWay, PayloadOn, root

LEMMA PayloadQueue ==
  ASSUME NEW s \in StreamType, NEW q \in Rank, NEW c \in Rank, NEW m \in Message, NEW r \in Rank
  PROVE  /\ PayloadOn(s, r) => PayloadOn(Queue(s, q, c, m), r)
         /\ q = root /\ c = r /\ m.kind = "DATA" => PayloadOn(Queue(s, q, c, m), r)
  <1>1. PICK old : old = s[Link(root, r)]
    OBVIOUS
  <1>2. PICK new : new = Queue(s, q, c, m)[Link(root, r)]
    OBVIOUS
  <1>3. old \in Seq(Message) /\ root \in Rank
    BY <1>1, TheRoot DEF StreamType, Link
  <1>4. new = IF root = q /\ r = c THEN Append(s[Link(q, c)], m) ELSE s[Link(root, r)]
    BY <1>2, <1>3, QueueAt
  <1>5. new = IF root = q /\ r = c THEN Append(old, m) ELSE old
    BY <1>1, <1>4
  <1>6. /\ \A i \in DOMAIN old : i \in DOMAIN Append(old, m) /\ Append(old, m)[i] = old[i]
        /\ Len(old) + 1 \in DOMAIN Append(old, m) /\ Append(old, m)[Len(old) + 1] = m
    BY <1>3, AppendProperties, LenProperties
  <1> QED
    BY <1>1, <1>2, <1>5, <1>6 DEF PayloadOn

LEMMA PayloadTaken ==
  ASSUME CTypeOK, NEW q \in Rank, Reading(q), Fits(q), NEW r \in Rank, PayloadOn(stream, r),
         q # r \/ Head(Incoming(q)).kind # "DATA"
  PROVE  PayloadOn(Taken(q), r)
  <1>1. PICK a \in Rank : a = Peer(q)
    BY Reads
  <1>2. stream \in StreamType /\ stream[Link(a, q)] # <<>> /\ root \in Rank
        /\ Taken(q) = Dequeue(stream, a, q)
    BY <1>1, Typed, TheRoot DEF Fits, Incoming, Taken
  <1>3. PICK old : old = stream[Link(root, r)]
    OBVIOUS
  <1>4. PICK new : new = Taken(q)[Link(root, r)]
    OBVIOUS
  <1>5. new = IF root = a /\ r = q THEN Tail(stream[Link(a, q)]) ELSE stream[Link(root, r)]
    BY <1>2, <1>4, DequeueAt
  <1>6. PICK i \in DOMAIN old : old[i].kind = "DATA"
    BY <1>3 DEF PayloadOn
  <1>7. CASE root = a /\ r = q
    <2>1. new = Tail(old) /\ old \in Seq(Message) /\ old # <<>> /\ Head(old).kind # "DATA"
      BY <1>1, <1>2, <1>3, <1>5, <1>7 DEF Incoming, StreamType, Link
    <2>2. i # 1
      BY <1>6, <2>1
    <2>3. i \in 1 .. Len(old) /\ Len(old) \in Nat
      BY <2>1, LenProperties
    <2>4. i - 1 \in 1 .. Len(old) - 1
      BY <2>2, <2>3
    <2>5. i - 1 \in DOMAIN new /\ new[i-1] = old[i]
      <3>1. DOMAIN new = 1 .. Len(old) - 1
        BY <2>1, HeadTailProperties, LenProperties
      <3>2. PICK j \in DOMAIN new : j = i - 1
        BY <2>4, <3>1
      <3>3. new[j] = old[j+1] /\ j + 1 = i
        BY <2>1, <2>3, <3>2, HeadTailProperties
      <3> QED
        BY <3>2, <3>3
    <2> QED
      BY <1>4, <1>6, <2>5 DEF PayloadOn
  <1>8. CASE ~(root = a /\ r = q)
    BY <1>3, <1>4, <1>5, <1>6, <1>8 DEF PayloadOn
  <1> QED
    BY <1>7, <1>8

LEMMA PayloadStays ==
  ASSUME CInv, Single, plane = "XDP" => LaneInv /\ SentInv /\ OnceInv, HasInv, SaidInv,
         NEW q \in Rank, RankStep(q) \/ Timeout(q), NEW r \in Receiver, PayloadOn(stream, r)
  PROVE  buf'[r] = 1 \/ PayloadOn(stream', r)
  <1>0. CTypeOK /\ ControlType /\ ProgramInv /\ LogInv /\ FromInv /\ r \in Rank /\ r # root
    BY OneRegime, TheRoot
  <1>1. PICK s \in StreamType :
          /\ s = stream \/ (Reading(q) /\ Fits(q) /\ s = Taken(q))
          /\ \/ stream' = s
             \/ \E c \in Rank : \E m \in Message : m.from = q /\ stream' = Queue(s, q, c, m)
    BY <1>0, StreamMoves
  <1>2. CASE s = stream \/ q # r \/ Head(Incoming(q)).kind # "DATA"
    <2>1. PayloadOn(s, r)
      BY <1>0, <1>1, <1>2, PayloadTaken
    <2> QED
      BY <1>0, <1>1, <2>1, PayloadQueue
  <1>3. CASE q = r /\ Reading(q) /\ Fits(q) /\ Head(Incoming(q)).kind = "DATA"
    <2>1. pc[q] = "fallback"
      BY <1>0, <1>3, Reads
    <2>2. RecvFallback(q)
      BY <1>3, <2>1 DEF RankStep, EnterBarrier, SendToken, RecvToken, Garble, SendFragment,
                        RecvAnswer, Recvfrom, SendAck, Timeout
    <2>3. pc'[q] = "ack"
      BY <1>0, <2>2, OwnGoOn DEF RecvFallback
    <2>4. Has(q)'
      BY <1>0, <1>3, Learned
    <2> QED
      BY <1>3, <2>3, <2>4 DEF Has
  <1> QED
    BY <1>1, <1>2, <1>3

\* The answer that the root has read last.
LEMMA HeardOf ==
  ASSUME CInv, Single, HasInv, SaidInv, RecvAnswer(root)
  PROVE  buf[peer[root]] = 1 \/ PayloadOn(stream', peer[root])
  <1>0. /\ CTypeOK /\ FromInv /\ root \in Rank /\ peer[root] \in Rank /\ Reading(root)
        /\ Fits(root) /\ pc[root] = "answers"
        /\ stream' = Reply(root, Head(Incoming(root)), Taken(root))
    BY OneRegime, TheRoot DEF RecvAnswer, Reading
  <1>1. /\ Peer(root) = peer[root] /\ Head(Incoming(root)).from = peer[root]
        /\ Head(Incoming(root)).kind \in {"ACK", "NACK"} /\ Taken(root) \in StreamType
    BY <1>0, Reads, HeadFrom
  <1>2. CASE Head(Incoming(root)).kind = "ACK"
    BY <1>0, <1>1, <1>2, HeadSays
  <1>3. CASE Head(Incoming(root)).kind = "NACK"
    <2>1. stream' = Queue(Taken(root), root, peer[root], Data(root))
      BY <1>0, <1>1, <1>3 DEF Reply
    <2>2. PICK m \in Message : m = Data(root) /\ m.kind = "DATA"
      <3>1. buf[root] \in -1 .. MaxBcasts
        BY <1>0, Typed
      <3> QED
        BY <1>0, <3>1, MessageTypes
    <2>3. PayloadOn(Queue(Taken(root), root, peer[root], m), peer[root])
      BY <1>0, <1>1, <2>2, PayloadQueue
    <2> QED
      BY <2>1, <2>2, <2>3
  <1> QED
    BY <1>1, <1>2, <1>3

LEMMA AnsweredStep ==
  ASSUME CInv, Single, plane = "XDP" => LaneInv /\ SentInv /\ OnceInv, HasInv, SaidInv,
         AnsweredInv, NEW q \in Rank, RankStep(q) \/ Timeout(q)
  PROVE  AnsweredInv'
  <1>0. /\ CTypeOK /\ ControlType /\ ProgramInv /\ LogInv /\ FromInv /\ root \in Rank
        /\ round[root] \in {0, 1} /\ peer[root] \in 1 .. N-1 /\ Program(root)
        /\ InBcast(root) => round[root] = 0
    BY OneRegime, TheRoot, ProgramParts
  <1>1. algo' = algo /\ (q # root => round'[root] = round[root] /\ peer'[root] = peer[root])
    BY <1>0, Elsewhere
  <1>2. WaitsForAll' <=> WaitsForAll
    BY <1>1 DEF WaitsForAll, Eager, NaiveRing
  <1> SUFFICES ASSUME WaitsForAll, NEW r \in Receiver, round'[root] = 1 \/ r < peer'[root]
               PROVE  buf'[r] = 1 \/ PayloadOn(stream', r)
    BY <1>2, AnsweredParts
  <1>3. r \in Rank /\ r \in 1 .. N-1
    BY TheRoot
  <1>4. round[root] = 1 \/ r < peer[root] => buf[r] = 1 \/ PayloadOn(stream, r)
    BY AnsweredParts
  <1>5. buf[r] = 1 => buf'[r] = 1
    BY <1>3, HasStep
  <1>6. PayloadOn(stream, r) => buf'[r] = 1 \/ PayloadOn(stream', r)
    BY PayloadStays
  <1>7. CASE round[root] = 1 \/ r < peer[root]
    BY <1>4, <1>5, <1>6, <1>7
  <1>8. CASE ~(round[root] = 1 \/ r < peer[root])
    <2>1. q = root
      BY <1>1, <1>8
    <2>2. CASE RecvAnswer(root)
      <3>1. r = peer[root]
        <4>1. CASE LastAnswer(root)
          <5>1. peer[root] = N-1
            BY <4>1 DEF LastAnswer, WaitsForAll
          <5> QED
            BY <1>0, <1>3, <1>8, <5>1
        <4>2. CASE ~LastAnswer(root)
          <5>1. peer'[root] = peer[root] + 1 /\ round'[root] = round[root]
            BY <1>0, <2>2, <4>2 DEF RecvAnswer, ControlType
          <5>2. r < peer[root] + 1
            BY <1>8, <5>1
          <5> QED
            BY <1>0, <1>3, <1>8, <5>2
        <4> QED
          BY <4>1, <4>2
      <3>2. buf[r] = 1 \/ PayloadOn(stream', r)
        BY <2>2, <3>1, HeardOf
      <3> QED
        BY <1>5, <3>2
    <2>3. CASE SendFragment(root)
      <3>1. /\ pc[root] = "send"
            /\ \/ round'[root] = 0 /\ peer'[root] = peer[root]
               \/ Eager
               \/ round'[root] = 0 /\ peer'[root] = FirstAnswer(root)
        BY <1>0, <2>3, SendingOne
      <3>2. /\ WaitsForAll /\ ~NaiveLinear => FirstAnswer(root) = 1
            /\ NaiveLinear => FirstAnswer(root) = peer[root]
        BY <1>0, <3>1, Answers
      <3>3. ~Eager
        BY DEF WaitsForAll
      <3>4. peer'[root] = peer[root] \/ peer'[root] = 1
        BY <3>1, <3>2, <3>3
      <3>5. round'[root] = 0
        BY <3>1, <3>3
      <3> QED
        BY <1>0, <1>3, <1>8, <3>4, <3>5
    <2>4. CASE EnterBarrier(root) \/ SendToken(root) \/ RecvToken(root) \/ Garble(root)
      <3>1. round' = round /\ peer' = peer
        BY <2>4 DEF EnterBarrier, SendToken, RecvToken, Garble
      <3> QED
        BY <1>8, <3>1
    <2>5. ~Recvfrom(root) /\ ~RecvFallback(root) /\ ~SendAck(root) /\ ~Timeout(root)
      BY <1>0 DEF Recvfrom, RecvFallback, SendAck, Timeout, Program
    <2> QED
      BY <2>1, <2>2, <2>3, <2>4, <2>5 DEF RankStep
  <1> QED
    BY <1>7, <1>8

-----------------------------------------------------------------------------

LEMMA SingleInit == CInit => SingleInv
  <1> SUFFICES ASSUME CInit
               PROVE  SingleInv
    OBVIOUS
  <1>1. /\ net = {} /\ log = <<>> /\ sock = [r \in Rank |-> <<>>]
        /\ loads = <<>> /\ frag = [r \in Rank |-> <<>>] /\ pc = [r \in Rank |-> "out"]
        /\ round = [r \in Rank |-> 0] /\ buf = [r \in Rank |-> NoContent]
        /\ peer = [r \in Rank |-> 1] /\ stream = [link \in Rank \X Rank |-> <<>>]
    BY DEF CInit, NetInit
  <1>2. /\ \A r \in Rank : DOMAIN sock[r] = {} /\ DOMAIN frag[r] = {}
        /\ DOMAIN log = {} /\ DOMAIN loads = {}
    BY <1>1
  <1>3. LaneInv /\ SentInv
    BY <1>1, <1>2 DEF LaneInv, SentInv
  <1>4. OnceInv
    BY <1>1, <1>2 DEF OnceInv, ClaimsApart, ClaimsOpen, AtMostOnce, CountedOnce
  <1>5. HasInv
    BY <1>1, <1>2, TheRoot DEF HasInv
  <1>6. SaidInv
    <2>1. \A q, r \in Rank : DOMAIN stream[Link(q, r)] = {}
      BY <1>1 DEF Link
    <2> QED
      BY <2>1 DEF SaidInv
  <1>7. AnsweredInv
    <2>1. round[root] = 0 /\ peer[root] = 1
      BY <1>1, TheRoot
    <2>2. \A r \in Receiver : ~(r < 1)
      BY TheRoot, NAssumption
    <2> QED
      BY <2>1, <2>2 DEF AnsweredInv
  <1> QED
    BY <1>3, <1>4, <1>5, <1>6, <1>7 DEF SingleInv

LEMMA OnceRankStep ==
  ASSUME CInv, Single, plane = "XDP", LaneInv, SentInv, OnceInv,
         NEW q \in Rank, RankStep(q) \/ Timeout(q)
  PROVE  LaneInv' /\ SentInv' /\ OnceInv'
  <1>1. CASE \/ EnterBarrier(q) \/ SendToken(q) \/ RecvToken(q) \/ Garble(q)
             \/ RecvAnswer(q) \/ RecvFallback(q) \/ SendAck(q) \/ Timeout(q)
    BY <1>1, OnceAside
  <1>2. CASE SendFragment(q)
    BY <1>2, OnceSend
  <1>3. CASE Recvfrom(q)
    BY <1>3, OnceRecv
  <1> QED
    BY <1>1, <1>2, <1>3 DEF RankStep

LEMMA SingleStep ==
  ASSUME CInv, SingleInv, [CNext]_vars
  PROVE  SingleInv'
  <1> SUFFICES ASSUME Single'
               PROVE  /\ plane' = "XDP" => LaneInv' /\ SentInv' /\ OnceInv'
                      /\ HasInv' /\ SaidInv' /\ AnsweredInv'
    BY DEF SingleInv
  <1>1. plane' = plane /\ algo' = algo
    BY Chosen
  <1>2. Single
    BY <1>1 DEF Single
  <1>3. /\ plane = "XDP" => LaneInv /\ SentInv /\ OnceInv
        /\ HasInv /\ SaidInv /\ AnsweredInv
    BY <1>2 DEF SingleInv
  <1>4. CASE DataPlane \/ UNCHANGED vars
    <2>0. UNCHANGED rankVars
      BY <1>4 DEF DataPlane, vars
    <2>1. HasInv'
      BY <1>3, <2>0 DEF rankVars, HasInv, Eager
    <2>2. SaidInv'
      BY <1>3, <2>0 DEF rankVars, SaidInv
    <2>3. AnsweredInv'
      BY <1>3, <2>0 DEF rankVars, AnsweredInv, OnItsWay, WaitsForAll, Eager, NaiveRing
    <2>4. ASSUME plane = "XDP"
          PROVE  LaneInv' /\ SentInv' /\ OnceInv'
      <3>1. CASE DataPlane
        BY <1>2, <1>3, <2>4, <3>1, OncePlaneStep
      <3>2. CASE UNCHANGED vars
        <4>1. LaneInv'
          BY <1>3, <2>4, <3>2 DEF vars, netVars, rankVars, LaneInv, Lane, LaneOf, NaiveRing,
                                  NaiveLinear, Opcode
        <4>2. SentInv'
          BY <1>3, <2>4, <3>2 DEF vars, netVars, rankVars, SentInv, Lane, Target, NaiveLinear
        <4>3. OnceInv'
          BY <1>3, <2>4, <3>2 DEF vars, netVars, rankVars, OnceInv, WellFormed, ClaimsApart,
                                  ClaimsOpen, AtMostOnce, CountedOnce, Counted, Delivered
        <4> QED
          BY <4>1, <4>2, <4>3
      <3> QED
        BY <1>4, <3>1, <3>2
    <2> QED
      BY <1>1, <2>1, <2>2, <2>3, <2>4
  <1>5. ASSUME NEW q \in Rank, RankStep(q) \/ Timeout(q)
        PROVE  /\ plane = "XDP" => LaneInv' /\ SentInv' /\ OnceInv'
               /\ HasInv' /\ SaidInv' /\ AnsweredInv'
    <2>1. HasInv' /\ SaidInv' /\ AnsweredInv'
      BY <1>2, <1>3, <1>5, HasStep, SaidStep, AnsweredStep
    <2>2. plane = "XDP" => LaneInv' /\ SentInv' /\ OnceInv'
      BY <1>2, <1>3, <1>5, OnceRankStep
    <2> QED
      BY <2>1, <2>2
  <1> QED
    BY <1>1, <1>4, <1>5 DEF CNext

\* THEOREM.  In one broadcast every fragment is sent once to a rank and counted at
\* most once by it, whatever is lost or late, so there is one content; and a rank
\* whose answer the root has read has that content or is sent it over TCP.
THEOREM SingleInvariance == CSpec => []SingleInv
  <1>1. CInit => SingleInv
    BY SingleInit
  <1>2. CInv /\ SingleInv /\ [CNext]_vars => SingleInv'
    BY SingleStep
  <1> QED
    BY <1>1, <1>2, CInvariance, PTL DEF CSpec, CSafety

LEMMA SingleRight ==
  CInv /\ SingleInv => (Single /\ (Eager => timeouts = 0) => RightContent)
  <1> SUFFICES ASSUME CInv, SingleInv, Single, Eager => timeouts = 0, NEW r \in Receiver
               PROVE  /\ pc[r] = "ack" => buf[r] = round[r] + 1
                      /\ pc[r] = "out" => buf[r] = round[r]
    BY DEF RightContent
  <1>1. r \in Rank /\ round[r] \in {0, 1} /\ (InBcast(r) => round[r] = 0)
    BY OneRegime, TheRoot
  <1>2. Has(r)
    BY HasParts DEF SingleInv
  <1>3. pc[r] = "ack" => round[r] = 0
    BY <1>1 DEF InBcast
  <1> QED
    BY <1>1, <1>2, <1>3 DEF Has, NoContent

\* THEOREM.  A rank that returns from its one broadcast has its content, over
\* either data plane, in as many fragments as it takes over XDP, and whether the
\* payload came in datagrams or, after a timeout, over TCP; mpi_recv_no_ack, which
\* has no such fallback, must not have timed out.
THEOREM SingleContent == CSpec => [](Single /\ (Eager => timeouts = 0) => RightContent)
  <1> QED
    BY SingleRight, SingleInvariance, CInvariance, PTL

\* THEOREM.  The same, for the constants of a run without the eager broadcast.
THEOREM FragmentsCorrect ==
  ASSUME MaxBcasts = 1, Planes = {"XDP"}, "mpi_bcast_ring_xdp_eager" \notin Algorithms
  PROVE  CSpec => []RightContent
  <1>1. CInv => Single /\ (Eager => timeouts = 0)
    BY TypeParts DEF CInv, Single, Eager
  <1> QED
    BY <1>1, SingleContent, CInvariance, PTL

LEMMA SingleCovers ==
  CInv /\ SingleInv => (Single /\ WaitsForAll => CoveredOrOnItsWay)
  <1> SUFFICES ASSUME CInv, SingleInv, Single, WaitsForAll, round[root] = 1, NEW r \in Receiver
               PROVE  \/ buf[r] = 1
                      \/ \E i \in DOMAIN stream[Link(root, r)] :
                           stream[Link(root, r)][i] = Data(root)
    BY DEF CoveredOrOnItsWay
  <1>1. CTypeOK /\ FromInv /\ r \in Rank /\ root \in Rank /\ stream \in StreamType
    BY OneRegime, TheRoot, Typed
  <1>2. buf[r] = 1 \/ PayloadOn(stream, r)
    BY AnsweredParts DEF SingleInv
  <1>3. ASSUME PayloadOn(stream, r)
        PROVE  \E i \in DOMAIN stream[Link(root, r)] : stream[Link(root, r)][i] = Data(root)
    <2>1. PICK i \in DOMAIN stream[Link(root, r)] : stream[Link(root, r)][i].kind = "DATA"
      BY <1>3 DEF PayloadOn
    <2>2. PICK message : message = stream[Link(root, r)][i]
      OBVIOUS
    <2>3. message \in Message
      <3>1. stream[Link(root, r)] \in Seq(Message)
        BY <1>1 DEF StreamType, Link
      <3> QED
        BY <2>1, <2>2, <3>1
    <2>4. message.kind = "DATA" /\ message.from = root /\ message.content = 1
      BY <1>1, <2>1, <2>2 DEF FromInv, SingleInv, SaidInv
    <2>5. buf[root] = 1
      BY HasParts DEF SingleInv
    <2>6. message = Data(root)
      BY <2>3, <2>4, <2>5 DEF Message, Data
    <2> QED
      BY <2>2, <2>6
  <1> QED
    BY <1>2, <1>3

\* THEOREM.  However much is lost or late, once the root has read its answers
\* every rank has the payload or has it on its stream from the root.
THEOREM SingleCovered == CSpec => [](Single /\ WaitsForAll => CoveredOrOnItsWay)
  <1> QED
    BY SingleCovers, SingleInvariance, CInvariance, PTL

\* THEOREM.  The same, for the constants of a run of the broadcasts that wait.
THEOREM CoveredCorrect ==
  ASSUME MaxBcasts = 1, Planes = {"XDP"},
         Algorithms \subseteq {"mpi_bcast_ring_xdp", "mpi_bcast_linear_xdp", "mpi_bcast_linear"}
  PROVE  CSpec => []CoveredOrOnItsWay
  <1>1. CInv => Single /\ WaitsForAll
    BY TypeParts DEF CInv, Single, WaitsForAll, Eager, NaiveRing
  <1> QED
    BY <1>1, SingleCovered, CInvariance, PTL

-----------------------------------------------------------------------------
(* One broadcast around the naive ring, with receives that time out.        *)

\* With three ranks or more, before and after are not the same.
LEMMA RingOfThree ==
  ASSUME N > 2, NEW r \in Rank
  PROVE  /\ prev(r) \in Rank /\ next(r) \in Rank /\ prev(r) # r /\ next(r) # r
         /\ prev(r) # next(r) /\ next(prev(r)) = r /\ prev(next(r)) = r
         /\ \A q \in Rank : (q = next(r) <=> r = prev(q)) /\ (q = prev(r) <=> r = next(q))
  <1>1. prev(r) \in Rank /\ next(r) \in Rank
    BY NextRank, PrevRank
  <1>2. prev(r) # r /\ next(r) # r /\ prev(r) # next(r) /\ next(prev(r)) = r /\ prev(next(r)) = r
    BY <1>1, NextRank, PrevRank, InRank, NAssumption
  <1>3. ASSUME NEW q \in Rank
        PROVE  (q = next(r) <=> r = prev(q)) /\ (q = prev(r) <=> r = next(q))
    BY NextRank, PrevRank, InRank, NAssumption
  <1> QED
    BY <1>1, <1>2, <1>3

LEMMA RingRegime ==
  ASSUME CInv, AroundTheRing
  PROVE  /\ CTypeOK /\ ControlType /\ DataType /\ TypeOK /\ ProgramInv /\ LogInv /\ FromInv
         /\ NaiveRing /\ ~Eager /\ ~NaiveLinear /\ MaxBcasts = 1 /\ N > 2
         /\ Opcode = "MPI_SEND" /\ stream \in StreamType
         /\ \A r \in Rank :
              /\ pc[r] \in Labels /\ round[r] \in {0, 1} /\ (InBcast(r) => round[r] = 0)
              /\ Program(r)
              /\ Source(r) = prev(r) /\ AckTo(r) = prev(r) /\ Target(r) = next(r) /\ LastAnswer(r)
              /\ buf[r] \in -1 .. MaxBcasts
  <1>1. /\ CTypeOK /\ ControlType /\ DataType /\ TypeOK /\ ProgramInv /\ LogInv /\ FromInv
        /\ NaiveRing /\ ~Eager /\ ~NaiveLinear /\ MaxBcasts = 1 /\ N > 2
    BY TypeParts, AlgorithmsApart DEF CInv, AroundTheRing
  <1>2. Opcode = "MPI_SEND"
    BY <1>1 DEF Opcode, NaiveRing
  <1>3. ASSUME NEW r \in Rank
        PROVE  /\ pc[r] \in Labels /\ round[r] \in {0, 1} /\ (InBcast(r) => round[r] = 0)
               /\ Program(r)
               /\ Source(r) = prev(r) /\ AckTo(r) = prev(r) /\ Target(r) = next(r) /\ LastAnswer(r)
               /\ buf[r] \in -1 .. MaxBcasts
    <2>1. round[r] \in 0 .. 1 /\ pc[r] \in Labels
      BY <1>1 DEF ControlType
    <2>2. round[r] \in {0, 1}
      BY <2>1
    <2>3. Program(r)
      BY <1>1, ProgramParts
    <2>4. InBcast(r) => round[r] = 0
      BY <1>1, <2>2, <2>3 DEF Program
    <2>5. Source(r) = prev(r) /\ AckTo(r) = prev(r) /\ Target(r) = next(r) /\ LastAnswer(r)
      BY <1>1 DEF Source, AckTo, Target, FirstHop, LastAnswer
    <2>6. buf[r] \in -1 .. MaxBcasts
      BY <1>1, Typed
    <2> QED
      BY <2>1, <2>2, <2>3, <2>4, <2>5, <2>6
  <1> QED
    BY <1>1, <1>2, <1>3, Typed

\* A datagram of the naive ring is delivered or lost, and never rewritten.
LEMMA HopPlane ==
  ASSUME TypeOK, HopInv, Forward \/ TcStep
  PROVE  HopInv'
  <1>1. PICK p \in net :
          \/ Mirror(p) \/ HandleOriginal(p) \/ HandleClone(p) \/ Lose(p)
          \/ TcPass(p) \/ TcSendOn(p) \/ TcEnd(p) \/ TcMarked(p) \/ TcCloneFails(p)
    BY DEF Forward, TcStep, TcWorking
  <1>2. /\ p \in Packet /\ p.port \in Rank /\ p.dst \in Rank /\ sock \in [Rank -> Seq(Packet)]
        /\ p.op = "MPI_SEND" /\ p.port = p.dst /\ p.root = prev(p.dst)
    BY Fields DEF TypeOK, HopInv
  <1>3. ~Cloned(p) /\ handle_clone(p) = {} /\ Copies(p, handle_original(p)) = {}
    <2>1. handle_original(p) = 0
      BY <1>2 DEF handle_original
    <2> QED
      BY <1>2, <2>1 DEF Cloned, handle_clone, Continues, Copies
  <1>4. net' \subseteq net \cup {Mirrored(p)}
    BY <1>1, <1>3 DEF Mirror, HandleOriginal, HandleClone, Lose, TcPass, TcSendOn, TcEnd, TcMarked,
       TcCloneFails
  <1>5. sock' = sock \/ sock' = [sock EXCEPT ![p.port] = Append(@, p)]
    BY <1>1 DEF Mirror, HandleOriginal, HandleClone, Lose, TcPass, TcSendOn, TcEnd, TcMarked,
       TcCloneFails, ToSocket
  <1>6. ASSUME NEW q \in net'
        PROVE  q.op = "MPI_SEND" /\ q.port = q.dst /\ q.root = prev(q.dst)
    <2>1. q \in net \/ q = Mirrored(p)
      BY <1>4
    <2> QED
      BY <1>2, <2>1, MirroredFields DEF HopInv
  <1>7. ASSUME NEW r \in Rank, NEW i \in DOMAIN sock'[r]
        PROVE  sock'[r][i].root = prev(r)
    <2>1. (i \in DOMAIN sock[r] /\ sock'[r][i] = sock[r][i]) \/ (sock'[r][i] = p /\ r = p.port)
      <3>1. CASE sock' = sock
        BY <1>7, <3>1
      <3>2. CASE sock' = [sock EXCEPT ![p.port] = Append(@, p)]
        <4>1. CASE r = p.port
          BY <1>2, <1>7, <3>2, <4>1, Queued
        <4>2. CASE r # p.port
          BY <1>2, <1>7, <3>2, <4>2, Queued
        <4> QED
          BY <4>1, <4>2
      <3> QED
        BY <1>5, <3>1, <3>2
    <2> QED
      BY <1>2, <2>1 DEF HopInv
  <1> QED
    BY <1>6, <1>7 DEF HopInv

LEMMA HopRank ==
  ASSUME CInv, AroundTheRing, HopInv, NEW q \in Rank, RankStep(q) \/ Timeout(q)
  PROVE  HopInv'
  <1>0. TypeOK /\ N > 2 /\ Opcode = "MPI_SEND" /\ Target(q) = next(q) /\ next(q) \in Rank
    BY RingRegime, NextRank
  <1>1. CASE SendFragment(q)
    <2>1. SendTo("MPI_SEND", q, next(q))
      BY <1>0, <1>1 DEF SendFragment
    <2>2. PICK d : d = Datagram("MPI_SEND", q, next(q))
      OBVIOUS
    <2>3. net' = net \cup {d} /\ sock' = sock
      BY <2>1, <2>2 DEF SendTo
    <2>4. d.op = "MPI_SEND" /\ d.port = d.dst /\ d.root = q /\ d.dst = next(q)
      BY <2>2 DEF Datagram
    <2>5. prev(next(q)) = q
      BY <1>0, RingOfThree
    <2> QED
      BY <2>3, <2>4, <2>5 DEF HopInv
  <1>2. CASE Recvfrom(q)
    <2>1. /\ net' = net /\ sock' = [sock EXCEPT ![q] = Tail(@)] /\ sock[q] # <<>>
          /\ sock \in [Rank -> Seq(Packet)] /\ sock[q] \in Seq(Packet)
      BY <1>0, <1>2 DEF Recvfrom, TypeOK
    <2>2. ASSUME NEW r \in Rank, NEW i \in DOMAIN sock'[r]
          PROVE  sock'[r][i].root = prev(r)
      <3>1. CASE r = q
        <4>1. sock'[r] = Tail(sock[q])
          BY <2>1, <3>1
        <4>2. i + 1 \in DOMAIN sock[q] /\ Tail(sock[q])[i] = sock[q][i+1]
          BY <2>1, <2>2, <4>1, HeadTailProperties, LenProperties
        <4> QED
          BY <3>1, <4>1, <4>2 DEF HopInv
      <3>2. CASE r # q
        BY <2>1, <2>2, <3>2 DEF HopInv
      <3> QED
        BY <3>1, <3>2
    <2> QED
      BY <2>1, <2>2 DEF HopInv
  <1>3. CASE ~SendFragment(q) /\ ~Recvfrom(q)
    <2>1. net' = net /\ sock' = sock
      BY <1>3 DEF RankStep, EnterBarrier, SendToken, RecvToken, Garble, RecvAnswer, RecvFallback,
         SendAck, Timeout, netVars
    <2> QED
      BY <2>1 DEF HopInv
  <1> QED
    BY <1>1, <1>2, <1>3

-----------------------------------------------------------------------------
(* Every read fits.                                                        *)

\* A head is a message of its stream.
LEMMA HeadOfStream ==
  ASSUME NEW s \in StreamType, NEW q \in Rank, NEW r \in Rank, s[Link(q, r)] # <<>>
  PROVE  /\ s[Link(q, r)] \in Seq(Message) /\ 1 \in DOMAIN s[Link(q, r)]
         /\ Head(s[Link(q, r)]) = s[Link(q, r)][1] /\ Head(s[Link(q, r)]) \in Message
  <1>1. s[Link(q, r)] \in Seq(Message)
    BY DEF StreamType, Link
  <1> QED
    BY <1>1, HeadTailProperties, LenProperties, EmptySeq

\* Nothing is on the stream down to a rank that has asked a rank still busy: that
\* rank's token has been taken, and it has sent no other.
LEMMA NothingDown ==
  ASSUME CInv, AroundTheRing, RingInv, NEW r \in Receiver, pc[r] = "fallback",
         round[prev(r)] = 0
  PROVE  stream[Link(prev(r), r)] = <<>>
  <1>0. /\ r \in Rank /\ stream \in StreamType /\ N > 2 /\ CTypeOK
        /\ round[r] = 0 /\ Barrier!IInv /\ WayInv
    BY RingRegime, TheRoot DEF RingInv, InBcast
  <1>1. PICK s \in Rank : s = prev(r) /\ next(s) = r /\ prev(s) # r /\ round[s] = 0
    BY <1>0, RingOfThree
  <1>2. CountOn(stream, s, r, "TOKEN") = 0
    <2>1. barrierPc[r] = "out" /\ barrierEntered[r] = 1
      <3>1. /\ barrierEntered[r] = round[r] + (IF pc[r] = "out" THEN 0 ELSE 1)
            /\ pc[r] \notin {"barrier send", "barrier recv"} => barrierPc[r] = "out"
        BY <1>0, BarrierValues
      <3> QED
        BY <1>0, <3>1
    <2>2. barrierEntered[s] <= 1
      <3>1. barrierEntered[s] = round[s] + (IF pc[s] = "out" THEN 0 ELSE 1)
        BY BarrierValues
      <3> QED
        BY <1>1, <3>1
    <2>3. s \in Barrier!Rank /\ r \in Barrier!Rank /\ Barrier!next(s) = r
      BY <1>0, <1>1, SameBarrierRing
    <2>4. Barrier!recvd[r] = 1
      BY <2>1, <2>3 DEF Barrier!recvd
    <2>5. Barrier!sent[s] \in Nat /\ Barrier!sent[s] <= 1
      BY <1>0, <2>2, <2>3, BarrierCounters DEF Barrier!IInv
    <2>6. barrierChan[s] = Barrier!sent[s] - Barrier!recvd[r]
      BY <1>0, <2>3 DEF Barrier!IInv, Barrier!StreamsCount
    <2>7. barrierChan[s] \in Nat
      BY <1>0, ChanNat
    <2>8. barrierChan[s] = CountOn(stream, s, r, "TOKEN")
      BY <1>1, BarrierValues
    <2>9. barrierChan[s] = 0
      BY <2>4, <2>5, <2>6, <2>7
    <2> QED
      BY <2>8, <2>9
  <1> SUFFICES ASSUME stream[Link(s, r)] # <<>>
               PROVE  FALSE
    BY <1>1
  <1>3. stream[Link(s, r)] \in Seq(Message) /\ 1 \in DOMAIN stream[Link(s, r)]
    BY <1>0, HeadOfStream
  <1>4. stream[Link(s, r)][1].kind = "TOKEN"
    BY <1>0, <1>1, <1>3 DEF WayInv
  <1>5. CountOn(stream, s, r, "TOKEN") >= 1
    BY <1>3, <1>4, CountIs DEF CountOn
  <1> QED
    BY <1>2, <1>5

\* So whoever reads, and finds something, finds what it wants.
LEMMA EveryReadFits ==
  ASSUME CInv, AroundTheRing, RingInv, NEW q \in Rank, Reading(q), Incoming(q) # <<>>
  PROVE  Fits(q)
  <1>0. /\ CTypeOK /\ stream \in StreamType /\ N > 2 /\ WayInv /\ FirstHeaderInv /\ AskInv
        /\ Program(q) /\ Source(q) = prev(q) /\ NaiveRing
    BY RingRegime DEF RingInv, CInv
  <1>1. PICK a \in Rank : a = Peer(q)
    BY <1>0, Reads
  <1>2. PICK m \in Message : m = Head(Incoming(q)) /\ m = stream[Link(a, q)][1]
    BY <1>0, <1>1, HeadOfStream DEF Incoming
  <1>3. 1 \in DOMAIN stream[Link(a, q)] /\ stream[Link(a, q)] \in Seq(Message)
    BY <1>0, <1>1, HeadOfStream DEF Incoming
  <1>4. \/ m.kind = "TOKEN" /\ q = next(a)
        \/ m.kind = "DATA" /\ q = next(a) /\ round[a] = 1
        \/ m.kind \in {"ACK", "NACK"} /\ q = prev(a)
    BY <1>0, <1>2, <1>3 DEF WayInv
  <1>5. CASE pc[q] = "barrier recv"
    <2>1. a = prev(q) /\ Want(q) = TokenLength
      BY <1>0, <1>1, <1>5, Reads DEF Want
    <2>2. q # prev(a)
      BY <1>0, <2>1, RingOfThree
    <2>3. m.kind # "DATA"
      <3> SUFFICES ASSUME m.kind = "DATA"
                   PROVE  FALSE
        OBVIOUS
      <3>1. Count(stream[Link(a, q)], "DATA") >= 1 /\ Count(stream[Link(a, q)], "DATA") \in Nat
        BY <1>2, <1>3, CountIs
      <3>2. Count(stream[Link(q, a)], "NACK") \in Nat
        BY <1>0, CountOnType DEF CountOn
      <3>3. Asked(q, a) > 0
        BY <3>1, <3>2 DEF Asked
      <3> QED
        BY <1>0, <1>5, <3>3 DEF AskInv
    <2>4. Length(m) = TokenLength
      BY <1>4, <2>2, <2>3, Lengths
    <2> QED
      BY <1>2, <2>1, <2>4 DEF Fits
  <1>6. CASE pc[q] = "answers"
    <2>1. a = next(q) /\ Want(q) = MPI_HEADER
      BY <1>0, <1>1, <1>6, Reads DEF Want, Program
    <2>2. q # next(a)
      BY <1>0, <2>1, RingOfThree
    <2>3. Length(m) = MPI_HEADER
      BY <1>4, <2>2, Lengths
    <2> QED
      BY <1>2, <2>1, <2>3 DEF Fits
  <1>7. CASE pc[q] = "fallback"
    <2>1. a = prev(q) /\ Want(q) = DataLength
      BY <1>0, <1>1, <1>7, Reads DEF Want
    <2>2. q \in Receiver
      BY <1>0, <1>7, TheRoot DEF Program
    <2>3. stream[Link(prev(q), q)] # <<>>
      BY <1>1, <2>1 DEF Incoming
    <2>4. round[prev(q)] # 0
      BY <1>7, <2>2, <2>3, NothingDown
    <2>5. Head(stream[Link(prev(q), q)]).kind = "DATA"
      BY <1>0, <1>7, <2>2, <2>4 DEF FirstHeaderInv
    <2>6. Length(m) = DataLength
      BY <1>1, <1>2, <2>1, <2>5, Lengths DEF Incoming
    <2> QED
      BY <1>2, <2>1, <2>6 DEF Fits
  <1> QED
    BY <1>5, <1>6, <1>7 DEF Reading

LEMMA RingFramed ==
  ASSUME CInv, AroundTheRing, RingInv, [CNext]_vars
  PROVE  StreamsFramed'
  <1>0. StreamsFramed /\ CTypeOK /\ ControlType
    BY RingRegime DEF RingInv
  <1>1. CASE UNCHANGED vars
    BY <1>0, <1>1 DEF vars, rankVars, StreamsFramed
  <1>2. CASE DataPlane
    BY <1>0, <1>2 DEF DataPlane, rankVars, StreamsFramed
  <1>3. ASSUME NEW q \in Rank, RankStep(q) \/ Timeout(q)
        PROVE  StreamsFramed'
    <2>1. ~Garble(q)
      BY EveryReadFits DEF Garble
    <2>2. pc'[q] # "garbled"
      BY <1>0, <1>3, <2>1 DEF RankStep, EnterBarrier, SendToken, RecvToken, SendFragment,
         RecvAnswer, Recvfrom, RecvFallback, SendAck, Timeout, AfterSend, Return, GoOn,
         ControlType, AfterToken, AfterBarrier, StreamsFramed
    <2>3. \A r \in Rank : r # q => pc'[r] = pc[r]
      BY <1>0, <1>3, Elsewhere
    <2> QED
      BY <1>0, <2>2, <2>3 DEF StreamsFramed
  <1> QED
    BY <1>1, <1>2, <1>3 DEF CNext

-----------------------------------------------------------------------------
(* What the steps of a rank do to its streams, up and down.                 *)

Idle == {"out", "barrier send", "barrier recv", "recv", "done"}
Busy == {"ack", "send", "answers"}

LEMMA RingMoves ==
  ASSUME CInv, AroundTheRing, RingInv, NEW q \in Rank, RankStep(q) \/ Timeout(q)
  PROVE  \/ /\ stream' = stream /\ round'[q] = round[q]
            /\ q # root => \/ pc[q] \in Idle /\ pc'[q] \in Idle \cup {"ack"}
                           \/ pc[q] \in Busy /\ pc'[q] \in Busy
         \/ /\ stream' = Queue(stream, q, next(q), Token(q)) /\ round'[q] = round[q]
            /\ q # root => pc[q] \in Idle /\ pc'[q] \in Idle
         \/ /\ stream' = Dequeue(stream, prev(q), q) /\ stream[Link(prev(q), q)] # <<>>
            /\ round'[q] = round[q]
            /\ q # root => (pc[q] \in Idle /\ pc'[q] \in Idle) \/ pc'[q] = "ack"
         \/ /\ pc[q] = "answers" /\ pc'[q] = "out" /\ round[q] = 0 /\ round'[q] = 1
            /\ stream[Link(next(q), q)] # <<>>
            /\ stream' = IF Head(stream[Link(next(q), q)]).kind = "NACK"
                         THEN Queue(Dequeue(stream, next(q), q), q, next(q), Data(q))
                         ELSE Dequeue(stream, next(q), q)
         \/ /\ stream' = Queue(stream, q, prev(q), Header("ACK", q))
            /\ \/ round'[q] = round[q] /\ pc'[q] \in Busy
               \/ round'[q] = 1 /\ pc'[q] = "out" /\ next(q) = root
         \/ /\ stream' = Queue(stream, q, prev(q), Header("NACK", q))
            /\ pc[q] = "recv" /\ pc'[q] = "fallback" /\ round[q] = 0 /\ round'[q] = 0
  <1>0. /\ CTypeOK /\ ControlType /\ TypeOK /\ ProgramInv /\ LogInv /\ FromInv /\ HopInv
        /\ NaiveRing /\ ~Eager /\ N > 2 /\ StreamsFramed
        /\ round[q] \in {0, 1} /\ (InBcast(q) => round[q] = 0) /\ Program(q)
        /\ Source(q) = prev(q) /\ AckTo(q) = prev(q) /\ LastAnswer(q)
    BY RingRegime DEF RingInv
  <1>a. /\ AfterBarrier(q) \in {"done", "send", "recv"} /\ (q # root => AfterBarrier(q) # "send")
    BY DEF AfterBarrier
  <1>1. CASE EnterBarrier(q)
    <2>1. /\ stream' = stream /\ round' = round /\ pc[q] = "out"
          /\ pc'[q] \in {"barrier send", "barrier recv"}
      BY <1>0, <1>1 DEF EnterBarrier, ControlType
    <2> QED
      BY <2>1 DEF Idle
  <1>2. CASE SendToken(q)
    <2>1. /\ stream' = Queue(stream, q, next(q), Token(q)) /\ round' = round
          /\ pc[q] = "barrier send" /\ pc'[q] = AfterToken(q)
      BY <1>0, <1>2 DEF SendToken, ControlType
    <2>2. q # root => pc'[q] \in {"done", "recv"}
      BY <1>a, <2>1 DEF AfterToken, root
    <2> QED
      BY <2>1, <2>2 DEF Idle
  <1>3. CASE RecvToken(q)
    <2>1. /\ stream' = Taken(q) /\ round' = round /\ Fits(q) /\ pc[q] = "barrier recv"
          /\ pc'[q] = IF q = 0 THEN AfterBarrier(q) ELSE "barrier send"
      BY <1>0, <1>3 DEF RecvToken, ControlType
    <2>2. Peer(q) = prev(q)
      BY <1>0, <2>1, Reads DEF Reading
    <2>3. stream' = Dequeue(stream, prev(q), q) /\ stream[Link(prev(q), q)] # <<>>
      BY <2>1, <2>2 DEF Taken, Fits, Incoming
    <2> QED
      BY <2>1, <2>3 DEF Idle, root
  <1>4. CASE SendFragment(q)
    <2>1. /\ stream' = stream /\ pc[q] = "send"
          /\ AfterSend(q) \/ GoOn(q, "send")
      BY <1>4 DEF SendFragment
    <2>2. round'[q] = round[q] /\ pc'[q] \in {"send", "answers"}
      BY <1>0, <2>1 DEF AfterSend, GoOn, ControlType
    <2> QED
      BY <2>1, <2>2 DEF Busy
  <1>5. CASE RecvAnswer(q)
    <2>1. /\ pc[q] = "answers" /\ Fits(q) /\ Reading(q) /\ Return(q)
          /\ stream' = Reply(q, Head(Incoming(q)), Taken(q))
      BY <1>0, <1>5 DEF RecvAnswer, Reading
    <2>2. pc'[q] = "out" /\ round'[q] = round[q] + 1 /\ round[q] = 0
      BY <1>0, <2>1, OwnReturn DEF InBcast
    <2>3. Peer(q) = next(q)
      BY <1>0, <2>1, Reads DEF Program
    <2>4. Head(Incoming(q)).from = next(q)
      BY <1>0, <2>1, <2>3, HeadFrom
    <2>5. /\ Incoming(q) = stream[Link(next(q), q)] /\ stream[Link(next(q), q)] # <<>>
          /\ Taken(q) = Dequeue(stream, next(q), q)
      BY <2>1, <2>3 DEF Taken, Fits, Incoming
    <2>6. stream' = IF Head(stream[Link(next(q), q)]).kind = "NACK"
                    THEN Queue(Dequeue(stream, next(q), q), q, next(q), Data(q))
                    ELSE Dequeue(stream, next(q), q)
      BY <2>1, <2>4, <2>5 DEF Reply
    <2>7. round'[q] = 1
      BY <2>2
    <2> QED
      BY <2>1, <2>2, <2>5, <2>6, <2>7
  <1>6. CASE Recvfrom(q)
    <2>p. PICK ids : ids = Append(frag[q], Head(sock[q]).id)
      OBVIOUS
    <2>1. pc[q] = "recv"
      BY <1>6 DEF Recvfrom
    <2>2. CASE Complete(ids)
      <3>1. /\ GoOn(q, "ack")
            /\ stream' = IF RecvAcks THEN Queue(stream, q, Head(sock[q]).root, Header("ACK", q))
                         ELSE stream
        BY <1>0, <1>6, <2>2, <2>p DEF Recvfrom
      <3>2. pc'[q] = "ack" /\ round'[q] = round[q]
        BY <1>0, <3>1, OwnGoOn
      <3>3. Head(sock[q]).root = prev(q)
        <4>1. sock[q] \in Seq(Packet) /\ sock[q] # <<>>
          BY <1>0, <1>6 DEF Recvfrom, TypeOK
        <4>2. 1 \in DOMAIN sock[q] /\ Head(sock[q]) = sock[q][1]
          BY <4>1, HeadTailProperties, LenProperties, EmptySeq
        <4> QED
          BY <1>0, <4>2 DEF HopInv
      <3> QED
        BY <2>1, <3>1, <3>2, <3>3 DEF Idle, Busy
    <2>3. CASE ~Complete(ids)
      <3>1. stream' = stream /\ pc' = pc /\ round' = round
        BY <1>6, <2>3, <2>p DEF Recvfrom
      <3> QED
        BY <2>1, <3>1 DEF Idle
    <2> QED
      BY <2>2, <2>3
  <1>7. CASE RecvFallback(q)
    <2>1. /\ stream' = Taken(q) /\ Fits(q) /\ pc[q] = "fallback" /\ GoOn(q, "ack")
      BY <1>7 DEF RecvFallback
    <2>2. Peer(q) = prev(q)
      BY <1>0, <2>1, Reads DEF Reading
    <2>3. stream' = Dequeue(stream, prev(q), q) /\ stream[Link(prev(q), q)] # <<>>
      BY <2>1, <2>2 DEF Taken, Fits, Incoming
    <2>4. pc'[q] = "ack" /\ round'[q] = round[q]
      BY <1>0, <2>1, OwnGoOn
    <2> QED
      BY <2>3, <2>4
  <1>8. CASE SendAck(q)
    <2>1. /\ pc[q] = "ack" /\ stream' = Queue(stream, q, prev(q), Header("ACK", q))
          /\ IF Forwards(q) THEN GoOn(q, "send") ELSE Return(q)
      BY <1>0, <1>8 DEF SendAck
    <2>2. CASE Forwards(q)
      BY <1>0, <2>1, <2>2, OwnGoOn DEF Busy
    <2>3. CASE ~Forwards(q)
      <3>1. pc'[q] = "out" /\ round'[q] = round[q] + 1 /\ round[q] = 0 /\ next(q) = root
        BY <1>0, <2>1, <2>3, OwnReturn DEF InBcast, Forwards
      <3>2. round'[q] = 1
        BY <3>1
      <3> QED
        BY <2>1, <3>1, <3>2
    <2> QED
      BY <2>2, <2>3
  <1>9. CASE Timeout(q)
    <2>1. /\ pc[q] = "recv" /\ GoOn(q, "fallback")
          /\ stream' = Queue(stream, q, prev(q), Header("NACK", q))
      BY <1>0, <1>9 DEF Timeout
    <2>2. pc'[q] = "fallback" /\ round'[q] = round[q] /\ round[q] = 0
      BY <1>0, <2>1, OwnGoOn DEF InBcast
    <2> QED
      BY <2>1, <2>2
  <1>10. CASE Garble(q)
    BY <1>10, EveryReadFits DEF Garble
  <1> QED
    BY <1>1, <1>2, <1>3, <1>4, <1>5, <1>6, <1>7, <1>8, <1>9, <1>10 DEF RankStep

\* WayInv of a message, and of all, where n[q] is how often q has returned.
Goes(q, r, message, n) ==
  \/ message.kind = "TOKEN" /\ r = next(q)
  \/ message.kind = "DATA" /\ r = next(q) /\ n[q] = 1
  \/ message.kind \in {"ACK", "NACK"} /\ r = prev(q)
AllGo(s, n) ==
  \A q, r \in Rank : \A i \in DOMAIN s[Link(q, r)] : Goes(q, r, s[Link(q, r)][i], n)

LEMMA WayParts ==
  (WayInv <=> AllGo(stream, round)) /\ (WayInv' <=> AllGo(stream', round'))
  BY DEF WayInv, AllGo, Goes

LEMMA WayQueue ==
  ASSUME NEW s \in StreamType, NEW n, AllGo(s, n), NEW q \in Rank, NEW r \in Rank,
         NEW m \in Message, Goes(q, r, m, n)
  PROVE  Queue(s, q, r, m) \in StreamType /\ AllGo(Queue(s, q, r, m), n)
  <1> SUFFICES ASSUME NEW a \in Rank, NEW c \in Rank,
                      NEW i \in DOMAIN Queue(s, q, r, m)[Link(a, c)]
               PROVE  Goes(a, c, Queue(s, q, r, m)[Link(a, c)][i], n)
    BY QueueAt DEF AllGo
  <1>1. PICK old : old = s[Link(a, c)]
    OBVIOUS
  <1>2. old \in Seq(Message) /\ \A j \in DOMAIN old : Goes(a, c, old[j], n)
    BY <1>1 DEF StreamType, Link, AllGo
  <1>3. CASE a = q /\ c = r
    <2>1. Queue(s, q, r, m)[Link(a, c)] = Append(old, m)
      <3>1. Queue(s, q, r, m)[Link(a, c)]
              = IF a = q /\ c = r THEN Append(s[Link(q, r)], m) ELSE s[Link(a, c)]
        BY QueueAt
      <3> QED
        BY <1>1, <1>3, <3>1
    <2>2. (i \in DOMAIN old /\ Append(old, m)[i] = old[i]) \/ Append(old, m)[i] = m
      <3>1. i \in DOMAIN Append(old, m)
        BY <2>1
      <3> QED
        BY <1>2, <3>1, AppendProperties, LenProperties
    <2> QED
      BY <1>2, <1>3, <2>1, <2>2
  <1>4. CASE ~(a = q /\ c = r)
    <2>1. Queue(s, q, r, m)[Link(a, c)] = old
      BY <1>1, <1>4, QueueAt
    <2> QED
      BY <1>2, <2>1
  <1> QED
    BY <1>3, <1>4

LEMMA WayDequeue ==
  ASSUME NEW s \in StreamType, NEW n, AllGo(s, n), NEW q \in Rank, NEW r \in Rank,
         s[Link(q, r)] # <<>>
  PROVE  Dequeue(s, q, r) \in StreamType /\ AllGo(Dequeue(s, q, r), n)
  <1> SUFFICES ASSUME NEW a \in Rank, NEW c \in Rank,
                      NEW i \in DOMAIN Dequeue(s, q, r)[Link(a, c)]
               PROVE  Goes(a, c, Dequeue(s, q, r)[Link(a, c)][i], n)
    BY DequeueAt DEF AllGo
  <1>1. PICK old : old = s[Link(a, c)]
    OBVIOUS
  <1>2. old \in Seq(Message) /\ \A j \in DOMAIN old : Goes(a, c, old[j], n)
    BY <1>1 DEF StreamType, Link, AllGo
  <1>3. CASE a = q /\ c = r
    <2>1. Dequeue(s, q, r)[Link(a, c)] = Tail(old) /\ old # <<>>
      BY <1>1, <1>3, DequeueAt
    <2>2. i + 1 \in DOMAIN old /\ Tail(old)[i] = old[i+1]
      BY <1>2, <2>1, HeadTailProperties, LenProperties
    <2> QED
      BY <1>2, <2>1, <2>2
  <1>4. CASE ~(a = q /\ c = r)
    <2>1. Dequeue(s, q, r)[Link(a, c)] = old
      BY <1>1, <1>4, DequeueAt
    <2> QED
      BY <1>2, <2>1
  <1> QED
    BY <1>3, <1>4

LEMMA WayStep ==
  ASSUME CInv, AroundTheRing, RingInv, NEW q \in Rank, RankStep(q) \/ Timeout(q)
  PROVE  WayInv'
  <1>0. /\ stream \in StreamType /\ CTypeOK /\ AllGo(stream, round) /\ N > 2
        /\ prev(q) \in Rank /\ next(q) \in Rank /\ buf[q] \in -1 .. MaxBcasts
    BY RingRegime, RingOfThree, WayParts DEF RingInv
  <1>1. round'[q] = round[q] \/ round'[q] = 1
    BY RingMoves
  <1>2. AllGo(stream, round')
    <2>1. \A a \in Rank : round[a] = 1 => round'[a] = 1
      BY <1>0, <1>1, Elsewhere
    <2> QED
      BY <1>0, <2>1 DEF AllGo, Goes
  <1>3. /\ Token(q) \in Message /\ Goes(q, next(q), Token(q), round')
        /\ Header("ACK", q) \in Message /\ Goes(q, prev(q), Header("ACK", q), round')
        /\ Header("NACK", q) \in Message /\ Goes(q, prev(q), Header("NACK", q), round')
        /\ Data(q) \in Message /\ (round'[q] = 1 => Goes(q, next(q), Data(q), round'))
    BY <1>0, MessageTypes DEF Goes
  <1>4. CASE stream' = stream
    BY <1>2, <1>4, WayParts
  <1>5. CASE stream' = Queue(stream, q, next(q), Token(q))
    BY <1>0, <1>2, <1>3, <1>5, WayQueue, WayParts
  <1>6. CASE \/ stream' = Queue(stream, q, prev(q), Header("ACK", q))
             \/ stream' = Queue(stream, q, prev(q), Header("NACK", q))
    BY <1>0, <1>2, <1>3, <1>6, WayQueue, WayParts
  <1>7. CASE stream' = Dequeue(stream, prev(q), q) /\ stream[Link(prev(q), q)] # <<>>
    BY <1>0, <1>2, <1>7, WayDequeue, WayParts
  <1>8. CASE /\ round'[q] = 1 /\ stream[Link(next(q), q)] # <<>>
             /\ \/ stream' = Queue(Dequeue(stream, next(q), q), q, next(q), Data(q))
                \/ stream' = Dequeue(stream, next(q), q)
    <2>1. PICK t : t = Dequeue(stream, next(q), q)
      OBVIOUS
    <2>2. t \in StreamType /\ AllGo(t, round')
      BY <1>0, <1>2, <1>8, <2>1, WayDequeue
    <2>3. PICK m \in Message : m = Data(q) /\ Goes(q, next(q), m, round')
      BY <1>3, <1>8
    <2>4. AllGo(Queue(t, q, next(q), m), round')
      BY <1>0, <2>2, <2>3, WayQueue
    <2> QED
      BY <1>8, <2>1, <2>2, <2>3, <2>4, WayParts
  <1> QED
    BY <1>4, <1>5, <1>6, <1>7, <1>8, RingMoves

\* The streams of other ranks are left alone.
LEMMA LinksElsewhere ==
  ASSUME NEW s \in StreamType, NEW q \in Rank, NEW r \in Rank, NEW a \in Rank, NEW c \in Rank,
         ~(a = q /\ c = r)
  PROVE  /\ \A m \in Message : Queue(s, q, r, m)[Link(a, c)] = s[Link(a, c)]
         /\ s[Link(q, r)] # <<>> => Dequeue(s, q, r)[Link(a, c)] = s[Link(a, c)]
  BY QueueAt, DequeueAt

\* What is sent goes to the end of its stream.
LEMMA LinkQueued ==
  ASSUME NEW s \in StreamType, NEW q \in Rank, NEW r \in Rank, NEW m \in Message
  PROVE  /\ Queue(s, q, r, m)[Link(q, r)] # <<>>
         /\ Head(Queue(s, q, r, m)[Link(q, r)])
              = IF s[Link(q, r)] = <<>> THEN m ELSE Head(s[Link(q, r)])
  <1>1. PICK old \in Seq(Message) : old = s[Link(q, r)]
    BY DEF StreamType, Link
  <1>2. Queue(s, q, r, m)[Link(q, r)] = Append(old, m)
    <2>1. \A a, b \in Rank : Queue(s, q, r, m)[Link(a, b)] =
            IF a = q /\ b = r THEN Append(s[Link(q, r)], m) ELSE s[Link(a, b)]
      BY QueueAt
    <2>2. PICK a \in Rank, b \in Rank : a = q /\ b = r
      OBVIOUS
    <2>3. Queue(s, q, r, m)[Link(a, b)] =
            IF a = q /\ b = r THEN Append(s[Link(q, r)], m) ELSE s[Link(a, b)]
      BY <2>1
    <2> QED
      BY <1>1, <2>2, <2>3
  <1>3. Append(old, m) # <<>> /\ Head(Append(old, m)) = IF old = <<>> THEN m ELSE Head(old)
    <2>1. PICK new \in Seq(Message) : new = Append(old, m)
      BY AppendProperties
    <2>2. /\ Len(old) \in Nat /\ Len(new) = Len(old) + 1 /\ new[Len(old) + 1] = m
          /\ \A i \in 1 .. Len(old) : new[i] = old[i]
          /\ old = <<>> <=> Len(old) = 0
      BY <2>1, AppendProperties, LenProperties, EmptySeq
    <2>3. new # <<>> /\ Head(new) = new[1]
      BY <2>2, EmptySeq, HeadTailProperties
    <2>4. old # <<>> => new[1] = old[1] /\ Head(old) = old[1]
      BY <2>2, HeadTailProperties
    <2>5. old = <<>> => new[1] = m
      BY <2>2
    <2> QED
      BY <2>1, <2>3, <2>4, <2>5
  <1> QED
    BY <1>1, <1>2, <1>3

\* FirstHeaderInv of one rank.
Answering(r) == pc[r] \in {"fallback", "ack", "send", "answers"}
FirstHeader(r) ==
  LET up == stream[Link(r, prev(r))]
      down == stream[Link(prev(r), r)]
  IN  IF round[prev(r)] = 0
      THEN /\ pc[r] = "fallback" => up # <<>> /\ Head(up).kind = "NACK"
           /\ round[r] = 0 /\ ~Answering(r) => up = <<>>
      ELSE /\ pc[r] = "fallback" => down # <<>> /\ Head(down).kind = "DATA"
           /\ round[r] = 0 => Answering(r)

LEMMA FirstParts ==
  /\ FirstHeaderInv <=> \A r \in Receiver : FirstHeader(r)
  /\ FirstHeaderInv' <=> \A r \in Receiver : FirstHeader(r)'
  BY DEF FirstHeaderInv, FirstHeader, Answering

\* A step of the rank itself.
LEMMA FirstOwn ==
  ASSUME CInv, AroundTheRing, RingInv, NEW r \in Receiver, RankStep(r) \/ Timeout(r)
  PROVE  FirstHeader(r)'
  <1>0. /\ r \in Rank /\ r # root /\ stream \in StreamType /\ CTypeOK /\ N > 2
        /\ FirstHeader(r) /\ Token(r) \in Message /\ Header("NACK", r) \in Message
        /\ Header("NACK", r).kind = "NACK" /\ next(r) \in Rank
    BY RingRegime, TheRoot, FirstParts, MessageTypes, NextRank DEF RingInv
  <1>1. PICK s \in Rank : s = prev(r) /\ s # r /\ s # next(r)
    BY <1>0, RingOfThree
  <1>2. round'[s] = round[s]
    BY <1>0, <1>1, Elsewhere
  <1>3. CASE /\ stream' = stream /\ round'[r] = round[r]
             /\ \/ pc[r] \in Idle /\ pc'[r] \in Idle \cup {"ack"}
                \/ pc[r] \in Busy /\ pc'[r] \in Busy
    BY <1>0, <1>2, <1>1, <1>3 DEF FirstHeader, Answering, Idle, Busy
  <1>4. CASE /\ stream' = Queue(stream, r, next(r), Token(r)) /\ round'[r] = round[r]
             /\ pc[r] \in Idle /\ pc'[r] \in Idle
    <2>1. stream'[Link(r, s)] = stream[Link(r, s)] /\ stream'[Link(s, r)] = stream[Link(s, r)]
      BY <1>0, <1>1, <1>4, LinksElsewhere
    <2> QED
      BY <1>0, <1>1, <1>2, <1>4, <2>1 DEF FirstHeader, Answering, Idle
  <1>5. CASE /\ stream' = Dequeue(stream, s, r) /\ stream[Link(s, r)] # <<>>
             /\ round'[r] = round[r]
             /\ (pc[r] \in Idle /\ pc'[r] \in Idle) \/ pc'[r] = "ack"
    <2>1. stream'[Link(r, s)] = stream[Link(r, s)]
      BY <1>0, <1>1, <1>5, LinksElsewhere
    <2> QED
      BY <1>0, <1>1, <1>2, <1>5, <2>1 DEF FirstHeader, Answering, Idle
  <1>6. CASE round'[r] = 1 /\ pc'[r] = "out"
    BY <1>6 DEF FirstHeader
  <1>7. CASE pc'[r] \in Busy
    BY <1>7 DEF FirstHeader, Answering, Busy
  <1>8. CASE /\ stream' = Queue(stream, r, s, Header("NACK", r))
             /\ pc[r] = "recv" /\ pc'[r] = "fallback" /\ round[r] = 0 /\ round'[r] = 0
    <2>1. round[s] = 0 /\ stream[Link(r, s)] = <<>>
      BY <1>0, <1>1, <1>8 DEF FirstHeader, Answering
    <2>2. stream'[Link(r, s)] # <<>> /\ Head(stream'[Link(r, s)]) = Header("NACK", r)
      BY <1>0, <1>1, <1>8, <2>1, LinkQueued
    <2> QED
      BY <1>0, <1>1, <1>2, <1>8, <2>1, <2>2 DEF FirstHeader, Answering
  <1> QED
    BY <1>0, <1>1, <1>3, <1>4, <1>5, <1>6, <1>7, <1>8, RingMoves

\* A step of the rank before it, whose one header this is.
LEMMA FirstBefore ==
  ASSUME CInv, AroundTheRing, RingInv, NEW r \in Receiver, NEW s \in Rank, s = prev(r),
         RankStep(s) \/ Timeout(s)
  PROVE  FirstHeader(r)'
  <1>0. /\ r \in Rank /\ r # root /\ stream \in StreamType /\ CTypeOK /\ N > 2
        /\ FirstHeader(r) /\ round[s] \in {0, 1} /\ r # s /\ next(s) = r /\ prev(s) # r
        /\ prev(s) \in Rank /\ buf[s] \in -1 .. MaxBcasts /\ ControlType
    BY RingRegime, TheRoot, FirstParts, RingOfThree DEF RingInv
  <1>1. /\ Token(s) \in Message /\ Header("ACK", s) \in Message /\ Header("NACK", s) \in Message
        /\ Data(s) \in Message /\ Data(s).kind = "DATA"
    BY <1>0, MessageTypes
  <1>2. pc'[r] = pc[r] /\ round'[r] = round[r]
    BY <1>0, Elsewhere
  <1>3. CASE stream' = stream /\ round'[s] = round[s]
    BY <1>0, <1>2, <1>3 DEF FirstHeader, Answering
  <1>4. CASE stream' = Queue(stream, s, r, Token(s)) /\ round'[s] = round[s]
    <2>1. stream'[Link(r, s)] = stream[Link(r, s)]
      BY <1>0, <1>1, <1>4, LinksElsewhere
    <2>2. /\ stream'[Link(s, r)] # <<>>
          /\ stream[Link(s, r)] # <<>> => Head(stream'[Link(s, r)]) = Head(stream[Link(s, r)])
      BY <1>0, <1>1, <1>4, LinkQueued
    <2> QED
      BY <1>0, <1>2, <1>4, <2>1, <2>2 DEF FirstHeader, Answering
  <1>5. CASE /\ \/ stream' = Dequeue(stream, prev(s), s) /\ stream[Link(prev(s), s)] # <<>>
                \/ stream' = Queue(stream, s, prev(s), Header("ACK", s))
                \/ stream' = Queue(stream, s, prev(s), Header("NACK", s))
             /\ round'[s] = round[s]
    <2>1. stream'[Link(r, s)] = stream[Link(r, s)] /\ stream'[Link(s, r)] = stream[Link(s, r)]
      BY <1>0, <1>1, <1>5, LinksElsewhere
    <2> QED
      BY <1>0, <1>2, <1>5, <2>1 DEF FirstHeader, Answering
  <1>6. CASE /\ round[s] = 0 /\ round'[s] = 1 /\ stream[Link(r, s)] # <<>>
             /\ stream' = IF Head(stream[Link(r, s)]).kind = "NACK"
                          THEN Queue(Dequeue(stream, r, s), s, r, Data(s))
                          ELSE Dequeue(stream, r, s)
    <2>1. round[r] = 0 => Answering(r)
      BY <1>0, <1>6 DEF FirstHeader
    <2>2. ASSUME pc[r] = "fallback"
          PROVE  stream'[Link(s, r)] # <<>> /\ Head(stream'[Link(s, r)]).kind = "DATA"
      <3>1. Head(stream[Link(r, s)]).kind = "NACK"
        BY <1>0, <1>6, <2>2 DEF FirstHeader
      <3>2. stream[Link(s, r)] = <<>>
        BY <1>6, <2>2, NothingDown
      <3>3. PICK t : t = Dequeue(stream, r, s)
        OBVIOUS
      <3>4. t \in StreamType /\ t[Link(s, r)] = <<>>
        BY <1>0, <1>6, <3>2, <3>3, DequeueAt, LinksElsewhere
      <3>5. stream' = Queue(t, s, r, Data(s))
        BY <1>6, <3>1, <3>3
      <3> QED
        BY <1>0, <1>1, <3>4, <3>5, LinkQueued
    <2> QED
      BY <1>2, <1>6, <2>1, <2>2 DEF FirstHeader, Answering
  <1> QED
    BY <1>0, <1>3, <1>4, <1>5, <1>6, RingMoves

\* A step of any other rank.
LEMMA FirstOther ==
  ASSUME CInv, AroundTheRing, RingInv, NEW r \in Receiver, NEW q \in Rank, q # r, q # prev(r),
         RankStep(q) \/ Timeout(q)
  PROVE  FirstHeader(r)'
  <1>0. /\ r \in Rank /\ stream \in StreamType /\ CTypeOK /\ N > 2 /\ FirstHeader(r)
        /\ prev(q) \in Rank /\ next(q) \in Rank /\ buf[q] \in -1 .. MaxBcasts
    BY RingRegime, TheRoot, FirstParts, RingOfThree DEF RingInv
  <1>1. PICK s \in Rank : s = prev(r) /\ q # s
    BY <1>0, RingOfThree
  <1>2. pc'[r] = pc[r] /\ round'[r] = round[r] /\ round'[s] = round[s]
    BY <1>0, <1>1, Elsewhere
  <1>3. /\ Token(q) \in Message /\ Header("ACK", q) \in Message /\ Header("NACK", q) \in Message
        /\ Data(q) \in Message
    BY <1>0, MessageTypes
  <1>4. stream'[Link(r, s)] = stream[Link(r, s)] /\ stream'[Link(s, r)] = stream[Link(s, r)]
    <2>1. CASE \/ stream' = stream
               \/ stream' = Queue(stream, q, next(q), Token(q))
               \/ stream' = Dequeue(stream, prev(q), q) /\ stream[Link(prev(q), q)] # <<>>
               \/ stream' = Queue(stream, q, prev(q), Header("ACK", q))
               \/ stream' = Queue(stream, q, prev(q), Header("NACK", q))
               \/ stream' = Dequeue(stream, next(q), q) /\ stream[Link(next(q), q)] # <<>>
      BY <1>0, <1>1, <1>3, <2>1, LinksElsewhere
    <2>2. CASE /\ stream' = Queue(Dequeue(stream, next(q), q), q, next(q), Data(q))
               /\ stream[Link(next(q), q)] # <<>>
      <3>1. PICK t : t = Dequeue(stream, next(q), q)
        OBVIOUS
      <3>2. /\ t \in StreamType
            /\ t[Link(r, s)] = stream[Link(r, s)] /\ t[Link(s, r)] = stream[Link(s, r)]
        BY <1>0, <1>1, <2>2, <3>1, DequeueAt, LinksElsewhere
      <3>3. stream' = Queue(t, q, next(q), Data(q))
        BY <2>2, <3>1
      <3> QED
        BY <1>0, <1>1, <1>3, <3>2, <3>3, LinksElsewhere
    <2> QED
      BY <2>1, <2>2, RingMoves
  <1> QED
    BY <1>0, <1>1, <1>2, <1>4 DEF FirstHeader, Answering

-----------------------------------------------------------------------------

LEMMA RingInit == CInit => RingInv
  <1> SUFFICES ASSUME CInit, AroundTheRing
               PROVE  StreamsFramed /\ Barrier!IInv /\ HopInv /\ WayInv /\ FirstHeaderInv
    BY DEF RingInv
  <1>1. /\ net = {} /\ sock = [r \in Rank |-> <<>>] /\ pc = [r \in Rank |-> "out"]
        /\ stream = [link \in Rank \X Rank |-> <<>>] /\ round = [r \in Rank |-> 0]
    BY DEF CInit, NetInit
  <1>2. StreamsFramed /\ HopInv
    BY <1>1 DEF StreamsFramed, HopInv
  <1>3. \A q, r \in Rank : stream[Link(q, r)] = <<>>
    BY <1>1 DEF Link
  <1>4. WayInv
    BY <1>3 DEF WayInv
  <1>5. ASSUME NEW r \in Receiver
        PROVE  FirstHeader(r)
    <2>1. r \in Rank /\ prev(r) \in Rank
      BY TheRoot, PrevRank
    <2> QED
      BY <1>1, <1>3, <2>1 DEF FirstHeader, Answering
  <1>6. Barrier!IInv
    BY BarrierInit, BarrierInitInv
  <1> QED
    BY <1>2, <1>4, <1>5, <1>6, FirstParts

LEMMA RingStep ==
  ASSUME CInv, RingInv, [CNext]_vars
  PROVE  RingInv'
  <1> SUFFICES ASSUME AroundTheRing'
               PROVE  RingInv'
    BY DEF RingInv
  <1>0. CTypeOK
    BY DEF CInv
  <1>1. algo' = algo
    BY <1>0, Elsewhere DEF CNext, DataPlane, rankVars, vars
  <1>2. AroundTheRing
    BY <1>1 DEF AroundTheRing, NaiveRing
  <1>3. /\ StreamsFramed /\ Barrier!IInv /\ HopInv /\ WayInv /\ FirstHeaderInv /\ TypeOK
    BY <1>2, RingRegime DEF RingInv
  <1>4. StreamsFramed'
    BY <1>2, RingFramed
  <1>5. Barrier!IInv'
    BY <1>3, <1>4, BarrierStepInv
  <1>6. CASE UNCHANGED vars
    <2>1. HopInv' /\ WayInv' /\ FirstHeaderInv'
      BY <1>3, <1>6 DEF vars, netVars, rankVars, HopInv, WayInv, FirstHeaderInv
    <2> QED
      BY <1>4, <1>5, <2>1 DEF RingInv
  <1>7. CASE DataPlane
    <2>1. HopInv'
      BY <1>3, <1>7, HopPlane DEF DataPlane
    <2>2. WayInv' /\ FirstHeaderInv'
      BY <1>3, <1>7 DEF DataPlane, rankVars, WayInv, FirstHeaderInv
    <2> QED
      BY <1>4, <1>5, <2>1, <2>2 DEF RingInv
  <1>8. ASSUME NEW q \in Rank, RankStep(q) \/ Timeout(q)
        PROVE  RingInv'
    <2>1. HopInv' /\ WayInv'
      BY <1>2, <1>3, <1>8, HopRank, WayStep
    <2>2. ASSUME NEW r \in Receiver
          PROVE  FirstHeader(r)'
      BY <1>2, <1>8, FirstOwn, FirstBefore, FirstOther
    <2>3. FirstHeaderInv'
      BY <2>2, FirstParts
    <2> QED
      BY <1>4, <1>5, <2>1, <2>3 DEF RingInv
  <1> QED
    BY <1>6, <1>7, <1>8 DEF CNext

\* THEOREM.  In one broadcast around the naive ring of three ranks or more, a NACK
\* is read as the answer it stands in for, and its payload goes down the ring
\* before the next barrier token does.
THEOREM RingInvariance == CSpec => []RingInv
  <1>1. CInit => RingInv
    BY RingInit
  <1>2. CInv /\ RingInv /\ [CNext]_vars => RingInv'
    BY RingStep
  <1> QED
    BY <1>1, <1>2, CInvariance, PTL DEF CSpec, CSafety

\* THEOREM.  So its streams are framed, over either data plane, with any number of
\* fragments, losses and timeouts.
THEOREM RingFrames == CSpec => [](AroundTheRing => StreamsFramed)
  <1>1. RingInv => (AroundTheRing => StreamsFramed)
    BY DEF RingInv
  <1> QED
    BY <1>1, RingInvariance, PTL

\* THEOREM.  The same, for the constants of a run of the two broadcasts that do not
\* wait: what times out in them disturbs no barrier.
THEOREM RelaxedFramesCorrect ==
  ASSUME MaxBcasts = 1, N > 2, Algorithms \subseteq {"mpi_bcast_ring_xdp_eager", "mpi_bcast_ring"}
  PROVE  CSpec => []StreamsFramed /\ RunsTheBarriers
  <1>1. CInv /\ RingInv => StreamsFramed
    <2> SUFFICES ASSUME CInv, RingInv
                 PROVE  StreamsFramed
      OBVIOUS
    <2>1. algo \in Algorithms
      BY TypeParts DEF CInv
    <2>2. CASE Eager
      BY <2>2 DEF CInv, FrameInv, Quiet
    <2>3. CASE NaiveRing
      BY <2>3 DEF RingInv, AroundTheRing
    <2> QED
      BY <2>1, <2>2, <2>3 DEF Eager, NaiveRing
  <1>2. CSpec => []StreamsFramed
    BY <1>1, CInvariance, RingInvariance, PTL
  <1> QED
    BY <1>2, BarriersRun, PTL
=============================================================================
