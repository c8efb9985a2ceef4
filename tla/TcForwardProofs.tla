-------------------------- MODULE TcForwardProofs --------------------------
(***************************************************************************)
(* Theorems about the TC data plane, for every number of ranks N >= 2, any *)
(* roots and opcodes, any contents of the address map, and any number of   *)
(* datagrams and losses.                                                   *)
(***************************************************************************)
EXTENDS TcForward, XdpForwardProofs, FiniteSetTheorems

-----------------------------------------------------------------------------

\* The fields of what the program makes of a packet.
LEMMA MarkedFields ==
  ASSUME NEW p \in Packet
  PROVE  /\ Marked(p) \in Packet
         /\ Marked(p).op = p.op /\ Marked(p).root = p.root /\ Marked(p).src = p.src
         /\ Marked(p).dst = p.dst /\ Marked(p).id = p.id /\ Marked(p).port = p.port
         /\ Marked(p).at = "copy"
  <1>1. Append(p.path, 0) \in Seq(0 .. N)
    BY Fields, NAssumption
  <1> QED
    BY <1>1 DEF Marked, Packet, Places

LEMMA TcRewrittenFields ==
  ASSUME NEW p \in Packet
  PROVE  /\ TcRewritten(p) \in Packet
         /\ TcRewritten(p).op = p.op /\ TcRewritten(p).root = p.root
         /\ TcRewritten(p).src = p.dst /\ TcRewritten(p).dst = next(p.dst)
         /\ TcRewritten(p).port = next(p.dst) /\ TcRewritten(p).id = p.id
         /\ TcRewritten(p).at = "cable"
  <1>1. Append(p.path, 1) \in Seq(0 .. N) /\ p.dst \in Rank /\ next(p.dst) \in Rank
    BY Fields, NextRank, NAssumption
  <1> QED
    BY <1>1 DEF TcRewritten, Packet, Places, Addresses

\* The places.
LEMMA PlaceOf ==
  ASSUME NEW p \in Packet
  PROVE  /\ Place(p) \in Rank \X {1, 2}
         /\ Place(p)[1] = p.dst
         /\ p.at # "copy" => Place(p)[2] = 1
         /\ Place(p)[2] = 2 <=> p.at = "copy" /\ RingEnd(p.root, p.dst)
  BY Fields DEF Place

LEMMA ClaimsItsPlace ==
  ASSUME NEW p \in Packet
  PROVE  Place(p) \in TcClaim(p)
  <1>1. Distance(p.root, p.dst) \in Int
    BY Fields, Distances, InRank
  <1> QED
    BY <1>1, PlaceOf DEF TcClaim

LEMMA TcClaimOfMirrored ==
  ASSUME NEW p \in Packet, p.at = "cable"
  PROVE  TcClaim(Mirrored(p)) = TcClaim(p)
  BY MirroredFields, Fields DEF TcClaim, Place

\* The marked clone claims a place its packet claims, a second one where the
\* ring ends.
LEMMA ClaimOfMarked ==
  ASSUME NEW p \in Packet, p.op # "MPI_SEND", p.at = "nic"
  PROVE  /\ TcClaim(Marked(p)) \subseteq TcClaim(p)
         /\ RingEnd(p.root, p.dst) => Place(p) \notin TcClaim(Marked(p))
  <1> DEFINE c == Marked(p)
  <1>1. c \in Packet /\ c.op = p.op /\ c.root = p.root /\ c.dst = p.dst /\ c.at = "copy"
    BY MarkedFields
  <1>2. TcClaim(c) = {Place(c)}
    BY <1>1 DEF TcClaim
  <1>3. /\ Place(c) \in Rank \X {1, 2} /\ Place(c)[1] = p.dst
        /\ Place(c)[2] = 2 <=> RingEnd(p.root, p.dst)
    BY <1>1, PlaceOf
  <1>4. Distance(p.root, p.dst) \in Int
    BY Fields, Distances, InRank
  <1>5. Place(c) \in TcClaim(p)
    BY <1>3, <1>4 DEF TcClaim
  <1>6. RingEnd(p.root, p.dst) => Place(p) # Place(c)
    BY <1>3, PlaceOf
  <1> QED
    BY <1>2, <1>5, <1>6

\* What goes on to the next rank claims the places from there on.
LEMMA ClaimOfRewritten ==
  ASSUME NEW p \in Packet, p.op # "MPI_SEND", p.at = "nic", ~RingEnd(p.root, p.dst)
  PROVE  /\ TcClaim(TcRewritten(p)) \subseteq TcClaim(p)
         /\ TcClaim(TcRewritten(p)) \cap TcClaim(Marked(p)) = {}
  <1>1. /\ p.root \in Rank /\ p.dst \in Rank /\ next(p.dst) \in Rank
        /\ next(p.dst) # p.root
    BY Fields, NextRank DEF RingEnd
  <1>2. Distance(p.root, next(p.dst)) = Distance(p.root, p.dst) + 1
    BY <1>1, Further
  <1>3. \A q \in Rank : Distance(p.root, q) \in Int
    BY <1>1, Distances, InRank
  <1>4. TcClaim(TcRewritten(p)) =
          {place \in Rank \X {1, 2} :
             /\ Distance(p.root, place[1]) >= Distance(p.root, p.dst) + 1
             /\ place[2] = 2 => RingEnd(p.root, place[1])}
    BY <1>2, TcRewrittenFields DEF TcClaim
  <1>5. TcClaim(p) =
          {place \in Rank \X {1, 2} :
             /\ Distance(p.root, place[1]) >= Distance(p.root, p.dst)
             /\ place[2] = 2 => RingEnd(p.root, place[1])}
    BY DEF TcClaim
  <1>6. TcClaim(TcRewritten(p)) \subseteq TcClaim(p)
    BY <1>1, <1>3, <1>4, <1>5
  <1>7. TcClaim(Marked(p)) = {Place(Marked(p))} /\ Place(Marked(p))[1] = p.dst
    BY MarkedFields, PlaceOf DEF TcClaim
  <1>8. Place(Marked(p)) \notin TcClaim(TcRewritten(p))
    BY <1>1, <1>3, <1>4, <1>7
  <1> QED
    BY <1>6, <1>7, <1>8

-----------------------------------------------------------------------------

\* One packet becomes others, and may be delivered.  If each of them claims a
\* part of what it claimed, no place twice, and the place it was delivered to no
\* more, then no place is claimed or taken twice.
LEMMA TcReplace ==
  ASSUME TcInv,
         NEW p \in net, NEW S, net' = (net \ {p}) \cup S,
         \A s \in S : s.id = p.id /\ TcClaim(s) \subseteq TcClaim(p),
         \A s, t \in S : s # t => TcClaim(s) \cap TcClaim(t) = {},
         \/ sock' = sock
         \/ /\ sock' = [sock EXCEPT ![p.port] = Append(@, p)]
            /\ \A s \in S : Place(p) \notin TcClaim(s)
  PROVE  PlacesApart' /\ PlacesOpen' /\ OncePerPlace'
  <1>1. /\ p \in Packet /\ p.port \in Rank /\ p.id \in Int
        /\ sock \in [Rank -> Seq(Packet)] /\ Place(p) \in TcClaim(p)
    BY Fields, ClaimsItsPlace DEF TcInv, TypeOK
  <1>2. PlacesApart'
    <2> SUFFICES ASSUME NEW a \in net', NEW b \in net', a # b, a.id = b.id
                 PROVE  TcClaim(a) \cap TcClaim(b) = {}
      BY DEF PlacesApart
    <2>1. CASE a \in S /\ b \in S
      BY <2>1
    <2>2. CASE a \in S /\ b \in net \ {p}
      BY <2>2 DEF TcInv, PlacesApart
    <2>3. CASE a \in net \ {p} /\ b \in S
      BY <2>3 DEF TcInv, PlacesApart
    <2>4. CASE a \in net \ {p} /\ b \in net \ {p}
      BY <2>4 DEF TcInv, PlacesApart
    <2> QED
      BY <2>1, <2>2, <2>3, <2>4
  <1>3. ASSUME sock' = [sock EXCEPT ![p.port] = Append(@, p)],
               NEW r \in Rank, NEW i \in DOMAIN sock'[r]
        PROVE  \/ i \in DOMAIN sock[r] /\ sock'[r][i] = sock[r][i]
               \/ r = p.port /\ i = Len(sock[r]) + 1 /\ sock'[r][i] = p
    <2>1. CASE r # p.port
      BY <1>1, <1>3, <2>1, Queued
    <2>2. CASE r = p.port
      BY <1>1, <1>3, <2>2, Queued
    <2> QED
      BY <2>1, <2>2
  <1>4. PlacesOpen'
    <2> SUFFICES ASSUME NEW q \in net', NEW place \in TcClaim(q),
                        NEW r \in Rank, NEW i \in DOMAIN sock'[r],
                        sock'[r][i].id = q.id, Place(sock'[r][i]) = place
                 PROVE  FALSE
      BY DEF PlacesOpen, TakenBy
    <2>1. PICK o \in net : o.id = q.id /\ place \in TcClaim(o) /\ (o = p \/ o = q)
      <3>1. CASE q \in S
        BY <3>1
      <3>2. CASE q \in net \ {p}
        BY <3>2
      <3> QED
        BY <3>1, <3>2
    <2>2. \A j \in DOMAIN sock[r] : ~(sock[r][j].id = q.id /\ Place(sock[r][j]) = place)
      BY <2>1 DEF TcInv, PlacesOpen, TakenBy
    <2>3. CASE sock' = sock
      BY <2>2, <2>3
    <2>4. CASE /\ sock' = [sock EXCEPT ![p.port] = Append(@, p)]
               /\ \A s \in S : Place(p) \notin TcClaim(s)
      <3>1. p.id = q.id /\ Place(p) = place
        BY <1>3, <2>2, <2>4
      <3>2. q \in net /\ q # p
        BY <2>4, <3>1
      <3> QED
        BY <1>1, <3>1, <3>2 DEF TcInv, PlacesApart
    <2> QED
      BY <2>3, <2>4
  <1>5. OncePerPlace'
    <2>1. CASE sock' = sock
      BY <2>1 DEF TcInv, OncePerPlace
    <2>2. CASE sock' = [sock EXCEPT ![p.port] = Append(@, p)]
      <3> SUFFICES ASSUME NEW r \in Rank,
                          NEW i \in DOMAIN sock'[r], NEW j \in DOMAIN sock'[r],
                          sock'[r][i].id = sock'[r][j].id,
                          Place(sock'[r][i]) = Place(sock'[r][j])
                   PROVE  i = j
        BY DEF OncePerPlace
      <3>1. \A k \in DOMAIN sock[r] : ~(sock[r][k].id = p.id /\ Place(sock[r][k]) = Place(p))
        BY <1>1 DEF TcInv, PlacesOpen, TakenBy
      <3>2. CASE i \in DOMAIN sock[r] /\ sock'[r][i] = sock[r][i]
        <4>1. j \in DOMAIN sock[r] /\ sock'[r][j] = sock[r][j]
          BY <1>3, <2>2, <3>1, <3>2
        <4> QED
          BY <3>2, <4>1 DEF TcInv, OncePerPlace
      <3>3. CASE i = Len(sock[r]) + 1 /\ sock'[r][i] = p
        BY <1>3, <2>2, <3>1, <3>3
      <3> QED
        BY <1>3, <2>2, <3>2, <3>3
    <2> QED
      BY <2>1, <2>2
  <1> QED
    BY <1>2, <1>4, <1>5

\* What has become true of a packet stays true.
LEMMA TcPacketStays ==
  ASSUME NEW p \in Packet, TcWellFormed(p), TcBehind(p),
         Len(log) \in Int, Len(log') \in Int, Len(log) <= Len(log'),
         \A id \in 1 .. Len(log) : log'[id] = log[id],
         losses' = 0 => losses = 0,
         losses' = 0 => \A q \in Rank : \A id \in Int : HasOrWill(q, id) => HasOrWill(q, id)'
  PROVE  TcWellFormed(p)' /\ TcBehind(p)'
  <1>1. p.id \in Int /\ p.id \in 1 .. Len(log)
    BY Fields, MaxSendsAssumption DEF TcWellFormed
  <1>2. TcWellFormed(p)'
    BY <1>1 DEF TcWellFormed
  <1>3. TcBehind(p)'
    BY <1>1 DEF TcBehind
  <1> QED
    BY <1>2, <1>3

\* While nothing is lost, who has a datagram or will have it does so from then on.
LEMMA HasOrWillStays ==
  ASSUME TcInv, NEW p \in net, NEW S, net' = (net \ {p}) \cup S,
         \/ sock' = sock /\ p.at # "copy"
         \/ sock' = [sock EXCEPT ![p.port] = Append(@, p)]
  PROVE  \A q \in Rank : \A id \in Int : HasOrWill(q, id) => HasOrWill(q, id)'
  <1> SUFFICES ASSUME NEW q \in Rank, NEW id \in Int, HasOrWill(q, id)
               PROVE  HasOrWill(q, id)'
    OBVIOUS
  <1>1. p \in Packet /\ p.port \in Rank /\ p.port = p.dst /\ sock \in [Rank -> Seq(Packet)]
    BY Fields DEF TcInv, TypeOK, TcNetInv, TcWellFormed
  <1>2. CASE Delivered(q, id)
    <2>1. Delivered(q, id)'
      <3>1. CASE sock' = sock
        BY <1>2, <3>1 DEF Delivered
      <3>2. CASE sock' = [sock EXCEPT ![p.port] = Append(@, p)]
        BY <1>1, <1>2, <3>2, DeliveredBy
      <3> QED
        BY <3>1, <3>2
    <2> QED
      BY <2>1 DEF HasOrWill
  <1>3. ASSUME NEW c \in net, c.id = id, c.dst = q, c.at = "copy"
        PROVE  HasOrWill(q, id)'
    <2>1. CASE c = p
      <3>1. Delivered(q, id)'
        BY <1>1, <1>3, <2>1, DeliveredBy
      <3> QED
        BY <3>1 DEF HasOrWill
    <2>2. CASE c # p
      BY <1>3, <2>2 DEF HasOrWill
    <2> QED
      BY <2>1, <2>2
  <1> QED
    BY <1>2, <1>3 DEF HasOrWill

\* A step that replaces one packet, and may deliver it, preserves the invariant
\* when what replaces it is as it should be.
LEMMA TcMoves ==
  ASSUME TcInv,
         NEW p \in net, NEW S, net' = (net \ {p}) \cup S,
         \A s \in S : s \in Packet /\ s.id = p.id /\ TcClaim(s) \subseteq TcClaim(p),
         \A s, t \in S : s # t => TcClaim(s) \cap TcClaim(t) = {},
         \/ sock' = sock
         \/ /\ sock' = [sock EXCEPT ![p.port] = Append(@, p)]
            /\ \A s \in S : Place(p) \notin TcClaim(s),
         log' = log, losses' \in 0 .. MaxLoss, losses <= losses',
         full' \subseteq Rank \X (1 .. MaxSends),
         sock' = sock /\ p.at = "copy" => losses' # 0,
         \A s \in S : TcWellFormed(s) /\ TcBehind(s)'
  PROVE  TcInv'
  <1>1. /\ p \in Packet /\ p.port \in Rank /\ TcWellFormed(p) /\ TcBehind(p)
        /\ sock \in [Rank -> Seq(Packet)] /\ net \subseteq Packet
        /\ log \in Seq(Packet) /\ Len(log) <= MaxSends /\ losses \in Nat
    BY Fields, MaxLossAssumption DEF TcInv, TypeOK, TcNetInv
  <1>2. losses' = 0 => losses = 0
    BY <1>1, MaxLossAssumption
  <1>3. losses' = 0 => \A q \in Rank : \A id \in Int : HasOrWill(q, id) => HasOrWill(q, id)'
    BY HasOrWillStays
  <1>4. Len(log) \in Int /\ Len(log') \in Int /\ Len(log) <= Len(log')
    BY <1>1
  <1>5. \A q \in Packet : TcWellFormed(q) /\ TcBehind(q) => TcWellFormed(q)' /\ TcBehind(q)'
    BY <1>2, <1>3, <1>4, TcPacketStays
  <1>6. TypeOK'
    <2>1. net' \subseteq Packet
      BY <1>1
    <2>2. sock' \in [Rank -> Seq(Packet)]
      BY <1>1, Queued
    <2> QED
      BY <1>1, <2>1, <2>2 DEF TypeOK
  <1>7. TcNetInv'
    <2>1. \A s \in S : TcWellFormed(s)'
      BY DEF TcWellFormed
    <2>2. \A q \in net \ {p} : TcWellFormed(q)' /\ TcBehind(q)'
      BY <1>1, <1>5 DEF TcInv, TcNetInv
    <2> QED
      BY <2>1, <2>2 DEF TcNetInv
  <1>8. TcSockInv'
    <2> SUFFICES ASSUME NEW r \in Rank, NEW i \in DOMAIN sock'[r],
                        NEW d, d = sock'[r][i]
                 PROVE  TcWellFormed(d)' /\ TcBehind(d)' /\ d.dst = r
      BY DEF TcSockInv
    <2>1. \/ i \in DOMAIN sock[r] /\ d = sock[r][i]
          \/ r = p.port /\ d = p
      <3>1. CASE sock' = sock
        BY <3>1
      <3>2. CASE r # p.port /\ sock' = [sock EXCEPT ![p.port] = Append(@, p)]
        BY <1>1, <3>2, Queued
      <3>3. CASE r = p.port /\ sock' = [sock EXCEPT ![p.port] = Append(@, p)]
        BY <1>1, <3>3, Queued
      <3> QED
        BY <3>1, <3>2, <3>3
    <2>2. CASE i \in DOMAIN sock[r] /\ d = sock[r][i]
      <3>1. d \in Packet
        BY <1>1, <2>2
      <3> QED
        BY <1>5, <2>2, <3>1 DEF TcInv, TcSockInv
    <2>3. CASE r = p.port /\ d = p
      <3>1. TcWellFormed(p)' /\ TcBehind(p)'
        BY <1>1, <1>5
      <3>2. p.dst = p.port
        BY <1>1 DEF TcWellFormed
      <3> QED
        BY <2>3, <3>1, <3>2
    <2> QED
      BY <2>1, <2>2, <2>3
  <1>9. PlacesApart' /\ PlacesOpen' /\ OncePerPlace'
    <2>1. \A s \in S : s.id = p.id /\ TcClaim(s) \subseteq TcClaim(p)
      OBVIOUS
    <2>2. \/ sock' = sock
          \/ /\ sock' = [sock EXCEPT ![p.port] = Append(@, p)]
             /\ \A s \in S : Place(p) \notin TcClaim(s)
      OBVIOUS
    <2>3. \A s, t \in S : s # t => TcClaim(s) \cap TcClaim(t) = {}
      OBVIOUS
    <2>4. net' = (net \ {p}) \cup S
      OBVIOUS
    <2> QED
      BY ONLY TcInv, <2>1, <2>2, <2>3, <2>4, TcReplace
  <1> QED
    BY <1>6, <1>7, <1>8, <1>9 DEF TcInv

-----------------------------------------------------------------------------

\* The actions.
LEMMA TcMirrorStep ==
  ASSUME TcInv, NEW p \in net, Mirror(p)
  PROVE  TcInv'
  <1> DEFINE S == IF p.saddr = "MAESTRALE_IP" THEN {Mirrored(p)} ELSE {}
  <1>1. p \in Packet /\ TcWellFormed(p) /\ TcBehind(p) /\ p.at = "cable"
    BY DEF TcInv, TypeOK, TcNetInv, Mirror
  <1>2. /\ net' = (net \ {p}) \cup S /\ sock' = sock /\ log' = log
        /\ losses' = losses /\ full' = full
    BY DEF Mirror
  <1>3. losses' \in 0 .. MaxLoss /\ losses <= losses' /\ full' \subseteq Rank \X (1 .. MaxSends)
    BY <1>2, MaxLossAssumption DEF TcInv, TypeOK
  <1>4. TcClaim(Mirrored(p)) = TcClaim(p)
    BY <1>1, TcClaimOfMirrored
  <1>5. TcWellFormed(Mirrored(p))
    BY <1>1, MirroredFields DEF TcWellFormed
  <1>6. TcBehind(p)'
    <2>1. \A q \in Rank : \A id \in Int : HasOrWill(q, id) => HasOrWill(q, id)'
      BY <1>1, <1>2, HasOrWillStays
    <2> QED
      BY <1>1, <1>2, <2>1, Fields DEF TcBehind
  <1>7. TcBehind(Mirrored(p))'
    BY <1>1, <1>6, MirroredFields DEF TcBehind
  <1>8. \A s \in S : s = Mirrored(p)
    OBVIOUS
  <1> HIDE DEF S
  <1>9. \A s \in S : s \in Packet /\ s.id = p.id /\ TcClaim(s) \subseteq TcClaim(p)
    BY <1>1, <1>4, <1>8, MirroredFields
  <1> QED
    BY <1>1, <1>2, <1>3, <1>5, <1>7, <1>8, <1>9, TcMoves

LEMMA TcLoseStep ==
  ASSUME TcInv, NEW p \in net, Lose(p)
  PROVE  TcInv'
  <1> DEFINE S == {}
  <1>1. /\ net' = (net \ {p}) \cup S /\ sock' = sock /\ log' = log /\ full' = full
        /\ losses' = losses + 1 /\ losses < MaxLoss
    BY DEF Lose
  <1>2. /\ losses' \in 0 .. MaxLoss /\ losses <= losses' /\ losses' # 0
        /\ full' \subseteq Rank \X (1 .. MaxSends)
    BY <1>1, MaxLossAssumption DEF TcInv, TypeOK
  <1>3. \A s \in S : FALSE
    OBVIOUS
  <1> HIDE DEF S
  <1> QED
    BY <1>1, <1>2, <1>3, TcMoves

\* A packet is delivered, or dropped at a full socket.
LEMMA ToSocketStep ==
  ASSUME TcInv, NEW p \in net, ToSocket(p)
  PROVE  /\ \/ /\ sock' = [sock EXCEPT ![p.port] = Append(@, p)]
               /\ losses' = losses
            \/ sock' = sock /\ losses' = losses + 1
         /\ losses' \in 0 .. MaxLoss /\ losses <= losses'
         /\ sock' = sock => losses' # 0
         /\ full' \subseteq Rank \X (1 .. MaxSends)
  <1>1. /\ p.port \in Rank /\ p.id \in 1 .. MaxSends
        /\ losses \in 0 .. MaxLoss /\ full \subseteq Rank \X (1 .. MaxSends)
        /\ sock \in [Rank -> Seq(Packet)] /\ p \in Packet
    BY Fields DEF TcInv, TypeOK
  <1>2. CASE sock' = [sock EXCEPT ![p.port] = Append(@, p)] /\ UNCHANGED <<losses, full>>
    <2>1. Len(sock'[p.port]) = Len(sock[p.port]) + 1 /\ Len(sock[p.port]) \in Nat
      BY <1>1, <1>2, Queued
    <2>2. sock' # sock
      BY <2>1
    <2> QED
      BY <1>1, <1>2, <2>2, MaxLossAssumption
  <1>3. CASE /\ losses < MaxLoss /\ losses' = losses + 1
             /\ full' = full \cup {<<p.port, p.id>>} /\ UNCHANGED sock
    BY <1>1, <1>3, MaxLossAssumption
  <1> QED
    BY <1>2, <1>3 DEF ToSocket

\* A packet goes up the stack, and nothing becomes of it.
LEMMA TcUpStep ==
  ASSUME TcInv, NEW p \in net, net' = net \ {p}, log' = log,
         \/ sock' = sock
         \/ sock' = [sock EXCEPT ![p.port] = Append(@, p)],
         losses' \in 0 .. MaxLoss, losses <= losses', sock' = sock => losses' # 0,
         full' \subseteq Rank \X (1 .. MaxSends)
  PROVE  TcInv'
  <1> DEFINE S == {}
  <1>1. net' = (net \ {p}) \cup S
    OBVIOUS
  <1>2. \A s \in S : FALSE
    OBVIOUS
  <1> HIDE DEF S
  <1> QED
    BY <1>1, <1>2, TcMoves

LEMMA TcPassStep ==
  ASSUME TcInv, NEW p \in net, TcPass(p)
  PROVE  TcInv'
  BY ToSocketStep, TcUpStep DEF TcPass

LEMMA TcMarkedStep ==
  ASSUME TcInv, NEW p \in net, TcMarked(p)
  PROVE  TcInv'
  BY ToSocketStep, TcUpStep DEF TcMarked

LEMMA TcCloneFailsStep ==
  ASSUME TcInv, NEW p \in net, TcCloneFails(p)
  PROVE  TcInv'
  <1>1. /\ losses' \in 0 .. MaxLoss /\ losses <= losses' /\ losses' # 0
        /\ full' \subseteq Rank \X (1 .. MaxSends)
    BY MaxLossAssumption DEF TcCloneFails, TcInv, TypeOK
  <1> QED
    BY <1>1, TcUpStep DEF TcCloneFails

\* Where the ring ends the packet and its clone go up the stack.
LEMMA TcEndStep ==
  ASSUME TcInv, NEW p \in net, TcEnd(p)
  PROVE  TcInv'
  <1> DEFINE S == {Marked(p)}
  <1>1. p \in Packet /\ TcWellFormed(p) /\ TcBehind(p) /\ p.at = "nic" /\ p.op # "MPI_SEND"
    BY DEF TcInv, TypeOK, TcNetInv, TcEnd, TcArrived, Cloned
  <1>2. /\ net' = (net \ {p}) \cup S /\ log' = log
        /\ ToSocket(p)
    BY DEF TcEnd
  <1>3. /\ TcClaim(Marked(p)) \subseteq TcClaim(p)
        /\ Place(p) \notin TcClaim(Marked(p))
    BY <1>1, ClaimOfMarked DEF TcEnd, SentOn, RingEnd
  <1>4. TcWellFormed(Marked(p))
    BY <1>1, MarkedFields DEF TcWellFormed
  <1>5. TcBehind(Marked(p))'
    <2> SUFFICES ASSUME losses' = 0, NEW q \in Rank,
                        0 < Distance(p.root, q), Distance(p.root, q) < Distance(p.root, p.dst)
                 PROVE  HasOrWill(q, p.id)'
      BY <1>1, MarkedFields DEF TcBehind
    <2>1. losses = 0
      BY <1>2, ToSocketStep, MaxLossAssumption DEF TcInv, TypeOK
    <2>2. HasOrWill(q, p.id)
      BY <1>1, <2>1 DEF TcBehind
    <2> QED
      <3>1. \A r \in Rank : \A id \in Int : HasOrWill(r, id) => HasOrWill(r, id)'
        BY <1>1, <1>2, ToSocketStep, HasOrWillStays
      <3> QED
        BY <1>1, <2>2, <3>1, Fields
  <1>6. \A s \in S : s = Marked(p)
    OBVIOUS
  <1> HIDE DEF S
  <1>7. \A s \in S : s \in Packet /\ s.id = p.id /\ TcClaim(s) \subseteq TcClaim(p)
    BY <1>1, <1>3, <1>6, MarkedFields
  <1> QED
    BY <1>1, <1>2, <1>3, <1>4, <1>5, <1>6, <1>7, ToSocketStep, TcMoves

\* The packet goes on to the next rank, which has this rank's clone behind it.
LEMMA TcSendOnStep ==
  ASSUME TcInv, NEW p \in net, TcSendOn(p)
  PROVE  TcInv'
  <1> DEFINE S == {Marked(p), TcRewritten(p)}
  <1>1. p \in Packet /\ TcWellFormed(p) /\ TcBehind(p) /\ p.at = "nic" /\ p.op # "MPI_SEND"
    BY DEF TcInv, TypeOK, TcNetInv, TcSendOn, TcArrived, Cloned
  <1>2. /\ net' = (net \ {p}) \cup S /\ sock' = sock /\ log' = log
        /\ losses' = losses /\ full' = full
    BY DEF TcSendOn
  <1>3. losses' \in 0 .. MaxLoss /\ losses <= losses' /\ full' \subseteq Rank \X (1 .. MaxSends)
    BY <1>2, MaxLossAssumption DEF TcInv, TypeOK
  <1>4. ~RingEnd(p.root, p.dst)
    BY DEF TcSendOn, SentOn, RingEnd
  <1>5. /\ p.root \in Rank /\ p.dst \in Rank /\ next(p.dst) \in Rank /\ next(p.dst) # p.root
    BY <1>1, <1>4, Fields, NextRank DEF RingEnd
  <1>6. TcWellFormed(Marked(p)) /\ TcWellFormed(TcRewritten(p))
    BY <1>1, <1>5, MarkedFields, TcRewrittenFields, PrevNext DEF TcWellFormed
  <1>7. \A q \in Rank : \A id \in Int : HasOrWill(q, id) => HasOrWill(q, id)'
    BY <1>1, <1>2, HasOrWillStays
  <1>8. ASSUME losses = 0, NEW q \in Rank,
               0 < Distance(p.root, q), Distance(p.root, q) < Distance(p.root, p.dst)
        PROVE  HasOrWill(q, p.id)'
    BY <1>1, <1>7, <1>8, Fields DEF TcBehind
  <1>9. TcBehind(Marked(p))'
    BY <1>1, <1>2, <1>8, MarkedFields DEF TcBehind
  <1>10. TcBehind(TcRewritten(p))'
    <2> SUFFICES ASSUME losses = 0, NEW q \in Rank, 0 < Distance(p.root, q),
                        Distance(p.root, q) < Distance(p.root, next(p.dst))
                 PROVE  HasOrWill(q, p.id)'
      BY <1>1, <1>2, TcRewrittenFields DEF TcBehind
    <2>1. Distance(p.root, q) \in Int /\ Distance(p.root, p.dst) \in Int
      BY <1>5, Distances, InRank
    <2>2. \/ Distance(p.root, q) < Distance(p.root, p.dst)
          \/ Distance(p.root, q) = Distance(p.root, p.dst)
      BY <1>5, <2>1, Further
    <2>3. CASE Distance(p.root, q) = Distance(p.root, p.dst)
      <3>1. q = p.dst
        BY <1>5, <2>3, Apart
      <3>2. Marked(p) \in net' /\ Marked(p).id = p.id /\ Marked(p).dst = q /\ Marked(p).at = "copy"
        BY <1>1, <1>2, <3>1, MarkedFields
      <3> QED
        BY <3>2 DEF HasOrWill
    <2> QED
      BY <1>8, <2>2, <2>3
  <1>11. \A s \in S : s = Marked(p) \/ s = TcRewritten(p)
    OBVIOUS
  <1> HIDE DEF S
  <1>12. \A s \in S : s \in Packet /\ s.id = p.id /\ TcClaim(s) \subseteq TcClaim(p)
    BY <1>1, <1>4, <1>11, MarkedFields, TcRewrittenFields, ClaimOfMarked, ClaimOfRewritten
  <1>13. \A s, t \in S : s # t => TcClaim(s) \cap TcClaim(t) = {}
    BY <1>1, <1>4, <1>11, ClaimOfRewritten
  <1>14. \A s \in S : TcWellFormed(s) /\ TcBehind(s)'
    BY <1>6, <1>9, <1>10, <1>11
  <1> QED
    BY <1>1, <1>2, <1>3, <1>12, <1>13, <1>14, TcMoves

\* A datagram that is sent has a new number, and so claims what nobody claims.
LEMMA TcSendStep ==
  ASSUME TcInv, Send
  PROVE  TcInv'
  <1>1. PICK op \in Opcodes, root \in Roots, dest \in Rank :
          /\ IF op = "MPI_SEND" THEN dest # root ELSE dest = FirstHop(root)
          /\ SendTo(op, root, dest)
    BY DEF Send
  <1>0. PICK d : d = Datagram(op, root, dest)
    OBVIOUS
  <1>2. /\ net' = net \cup {d} /\ log' = Append(log, d) /\ Len(log) < MaxSends
        /\ sock' = sock /\ losses' = losses /\ full' = full
    BY <1>0, <1>1 DEF SendTo
  <1>3. /\ log \in Seq(Packet) /\ Len(log) \in Nat /\ net \subseteq Packet
        /\ sock \in [Rank -> Seq(Packet)]
    BY DEF TcInv, TypeOK
  <1>4. /\ d.op = op /\ d.root = root /\ d.src = root /\ d.dst = dest /\ d.port = dest
        /\ d.id = Len(log) + 1 /\ d.at = "cable"
    BY <1>0 DEF Datagram
  <1>5. d \in Packet
    <2>1. /\ root \in Rank /\ Len(log) + 1 \in 1 .. MaxSends /\ 0 \in 0 .. N
          /\ <<>> \in Seq(0 .. N)
      BY <1>2, <1>3, RootsAssumption, MaxSendsAssumption, NAssumption
    <2> QED
      BY <1>0, <2>1 DEF Datagram, Packet, Addresses, Places
  <1>6. /\ Len(log') = Len(log) + 1 /\ log' \in Seq(Packet) /\ log'[Len(log) + 1] = d
        /\ \A id \in 1 .. Len(log) : log'[id] = log[id]
    BY <1>2, <1>3, <1>5
  <1>7. root \in Rank /\ (op # "MPI_SEND" => dest = next(root)) /\ dest # root
    BY <1>1, RootsAssumption, NextRank DEF FirstHop
  <1>8. \A p \in Packet : TcWellFormed(p) /\ TcBehind(p) => TcWellFormed(p)' /\ TcBehind(p)'
    <2>1. \A q \in Rank : \A id \in Int : HasOrWill(q, id) => HasOrWill(q, id)'
      BY <1>2 DEF HasOrWill, Delivered
    <2> QED
      BY <1>2, <1>3, <1>6, <2>1, TcPacketStays
  <1>9. TcWellFormed(d)'
    BY <1>3, <1>4, <1>6, <1>7, PrevNext DEF TcWellFormed
  <1>10. TcBehind(d)'
    <2>1. ASSUME op # "MPI_SEND", NEW q \in Rank,
                 0 < Distance(root, q), Distance(root, q) < Distance(root, dest)
          PROVE  FALSE
      <3>1. Distance(root, dest) = 1 /\ Distance(root, q) \in Int
        BY <1>7, <2>1, NAssumption, Distances, NextRank, InRank
      <3> QED
        BY <2>1, <3>1
    <2> QED
      BY <1>4, <2>1 DEF TcBehind
  <1>11. TypeOK'
    <2>1. Len(log') <= MaxSends
      BY <1>2, <1>3, <1>6, MaxSendsAssumption
    <2>2. net' \subseteq Packet
      BY <1>2, <1>3, <1>5
    <2>3. losses' \in 0 .. MaxLoss /\ full' \subseteq Rank \X (1 .. MaxSends)
      BY <1>2 DEF TcInv, TypeOK
    <2> QED
      BY <1>2, <1>3, <1>6, <2>1, <2>2, <2>3 DEF TypeOK
  <1>12. TcNetInv'
    BY <1>2, <1>3, <1>8, <1>9, <1>10 DEF TcInv, TcNetInv
  <1>13. TcSockInv'
    <2> SUFFICES ASSUME NEW r \in Rank, NEW i \in DOMAIN sock[r],
                        NEW p, p = sock[r][i]
                 PROVE  TcWellFormed(p)' /\ TcBehind(p)' /\ p.dst = r
      BY <1>2 DEF TcSockInv
    <2>1. p \in Packet
      BY <1>3
    <2>2. TcWellFormed(p) /\ TcBehind(p) /\ p.dst = r
      BY DEF TcInv, TcSockInv
    <2> QED
      BY <1>8, <2>1, <2>2
  <1>14. \A p \in net : p.id # d.id
    <2> SUFFICES ASSUME NEW p \in net
                 PROVE  p.id # d.id
      OBVIOUS
    <2>1. p.id \in Int /\ p.id <= Len(log)
      BY <1>3, Fields DEF TcInv, TcNetInv, TcWellFormed
    <2> QED
      BY <1>3, <1>4, <2>1
  <1>15. PlacesApart'
    BY <1>2, <1>14 DEF TcInv, PlacesApart
  <1>16. PlacesOpen'
    <2>1. ASSUME NEW r \in Rank, NEW i \in DOMAIN sock[r]
          PROVE  sock[r][i].id # d.id
      <3>1. sock[r][i] \in Packet
        BY <1>3
      <3>2. sock[r][i].id \in Int /\ sock[r][i].id <= Len(log)
        BY <3>1, Fields DEF TcInv, TcSockInv, TcWellFormed
      <3> QED
        BY <1>3, <1>4, <3>2
    <2> QED
      BY <1>2, <2>1 DEF TcInv, PlacesOpen, TakenBy
  <1>17. OncePerPlace'
    BY <1>2 DEF TcInv, OncePerPlace
  <1> QED
    BY <1>11, <1>12, <1>13, <1>15, <1>16, <1>17 DEF TcInv

-----------------------------------------------------------------------------

LEMMA TcInitInv == Init => TcInv
  <1> SUFFICES ASSUME Init
               PROVE  TcInv
    OBVIOUS
  <1>1. TypeOK
    BY InitInv DEF ForwardInv
  <1>2. TcNetInv /\ PlacesApart /\ PlacesOpen
    BY DEF Init, NetInit, TcNetInv, PlacesApart, PlacesOpen
  <1>3. \A r \in Rank : DOMAIN sock[r] = {}
    BY DEF Init, NetInit
  <1>4. TcSockInv /\ OncePerPlace
    BY <1>3 DEF TcSockInv, OncePerPlace
  <1> QED
    BY <1>1, <1>2, <1>4 DEF TcInv

LEMMA TcStutterStep ==
  ASSUME TcInv, UNCHANGED netVars
  PROVE  TcInv'
  <1>1. net' = net /\ sock' = sock /\ log' = log /\ losses' = losses /\ full' = full
    BY DEF netVars
  <1>2. TypeOK' /\ PlacesApart' /\ PlacesOpen' /\ OncePerPlace'
    BY <1>1 DEF TcInv, TypeOK, PlacesApart, PlacesOpen, TakenBy, OncePerPlace
  <1>3. \A p \in Packet : TcWellFormed(p) /\ TcBehind(p) => TcWellFormed(p)' /\ TcBehind(p)'
    BY <1>1 DEF TcWellFormed, TcBehind, HasOrWill, Delivered
  <1>4. TcNetInv'
    BY <1>1, <1>3 DEF TcInv, TypeOK, TcNetInv
  <1>5. TcSockInv'
    <2> SUFFICES ASSUME NEW r \in Rank, NEW i \in DOMAIN sock[r],
                        NEW p, p = sock[r][i]
                 PROVE  TcWellFormed(p)' /\ TcBehind(p)' /\ p.dst = r
      BY <1>1 DEF TcSockInv
    <2>1. p \in Packet
      BY DEF TcInv, TypeOK
    <2>2. TcWellFormed(p) /\ TcBehind(p) /\ p.dst = r
      BY DEF TcInv, TcSockInv
    <2> QED
      BY <1>3, <2>1, <2>2
  <1> QED
    BY <1>2, <1>4, <1>5 DEF TcInv

LEMMA TcStepInv == TcInv /\ [TcNext]_netVars => TcInv'
  <1> SUFFICES ASSUME TcInv, [TcNext]_netVars
               PROVE  TcInv'
    OBVIOUS
  <1>1. CASE Send
    BY <1>1, TcSendStep
  <1>2. ASSUME NEW p \in net, TcWorking(p) \/ TcCloneFails(p) \/ Lose(p)
        PROVE  TcInv'
    BY <1>2, TcMirrorStep, TcPassStep, TcSendOnStep, TcEndStep, TcMarkedStep,
       TcCloneFailsStep, TcLoseStep DEF TcWorking
  <1>3. CASE UNCHANGED netVars
    BY <1>3, TcStutterStep
  <1> QED
    BY <1>1, <1>2, <1>3 DEF TcNext, TcStep

\* Every state the TC data plane reaches satisfies the inductive invariant.
THEOREM TcInvariance == TcSpec => []TcInv
  BY TcInitInv, TcStepInv, PTL DEF TcSpec

\* What the root sends never comes back to it, over TC either.
THEOREM TcRootCorrect == TcSpec => []NeverToRoot
  <1>1. TcInv => NeverToRoot
    BY DEF TcInv, TcSockInv, TcWellFormed, NeverToRoot
  <1> QED
    BY <1>1, TcInvariance, PTL

\* Whatever the broadcast, a rank has a datagram from its predecessor.
THEOREM PredecessorCorrect == TcSpec => []FromPredecessor
  <1>1. TcInv => FromPredecessor
    BY DEF TcInv, TcSockInv, TcWellFormed, FromPredecessor
  <1> QED
    BY <1>1, TcInvariance, PTL

\* While nothing is lost, whoever has a datagram has no rank before it that has
\* neither the datagram nor its clone to come.
THEOREM HandedDownCorrect == TcSpec => []HandedDown
  <1>1. TcInv => HandedDown
    <2> SUFFICES ASSUME TcInv, losses = 0, NEW r \in Rank, NEW i \in DOMAIN sock[r],
                        NEW p, p = sock[r][i], p.op # "MPI_SEND",
                        NEW q \in Rank, 0 < Distance(p.root, q),
                        Distance(p.root, q) < Distance(p.root, r)
                 PROVE  HasOrWill(q, p.id)
      BY DEF HandedDown, HasOrWill
    <2>1. TcBehind(p) /\ p.dst = r
      BY DEF TcInv, TcSockInv
    <2> QED
      BY <2>1 DEF TcBehind
  <1> QED
    BY <1>1, TcInvariance, PTL

\* Indices of a socket are as many as the places of their packets.
LEMMA AtMostTwo ==
  ASSUME NEW S, NEW f, \A i \in S : f[i] \in {1, 2}, \A i, j \in S : f[i] = f[j] => i = j
  PROVE  Cardinality(S) <= 2 /\ ((\A i \in S : f[i] = 1) => Cardinality(S) <= 1)
  <1>1. IsFiniteSet({}) /\ Cardinality({}) = 0
    BY FS_EmptySet
  <1>2. \A a : IsFiniteSet({a}) /\ Cardinality({a}) = 1
    BY FS_Singleton
  <1>3. CASE S = {}
    BY <1>1, <1>3
  <1>4. ASSUME NEW a \in S
        PROVE  Cardinality(S) <= 2 /\ ((\A i \in S : f[i] = 1) => Cardinality(S) <= 1)
    <2>1. CASE S = {a}
      BY <1>2, <2>1
    <2>2. ASSUME NEW b \in S, b # a
          PROVE  Cardinality(S) <= 2 /\ f[a] # f[b]
      <3>1. f[a] # f[b] /\ \A c \in S : f[c] = f[a] \/ f[c] = f[b]
        BY <2>2
      <3>2. S = {a} \cup {b}
        BY <2>2, <3>1
      <3>3. Cardinality({a} \cup {b}) = Cardinality({a}) + 1
        <4>1. IsFiniteSet({a}) /\ b \notin {a}
          BY <1>2, <2>2
        <4> QED
          BY <4>1, FS_AddElement
      <3> QED
        BY <1>2, <3>1, <3>2, <3>3
    <2> QED
      BY <2>1, <2>2
  <1> QED
    BY <1>3, <1>4

\* With the pairs of the ring registered, only the last rank receives a datagram
\* of a broadcast twice, and nobody receives one three times.
THEOREM TwiceCorrect ==
  ASSUME \A r \in Rank : <<r, next(r)>> \in Known
  PROVE  TcSpec => []TwiceAtTheEnd
  <1>1. TcInv => TwiceAtTheEnd
    <2> SUFFICES ASSUME TcInv, NEW r \in Rank, NEW i \in DOMAIN sock[r],
                        NEW p, p = sock[r][i]
                 PROVE  Times(r, p.id) <= IF p.op # "MPI_SEND" /\ r = prev(p.root) THEN 2 ELSE 1
      BY DEF TwiceAtTheEnd
    <2> DEFINE S == {j \in DOMAIN sock[r] : sock[r][j].id = p.id}
               f == [j \in S |-> Place(sock[r][j])[2]]
    <2>1. \A j \in DOMAIN sock[r] : sock[r][j] \in Packet /\ sock[r][j].dst = r
      BY DEF TcInv, TypeOK, TcSockInv
    <2>2. \A j \in S : /\ sock[r][j] \in Packet /\ sock[r][j].dst = r
                       /\ sock[r][j].op = p.op /\ sock[r][j].root = p.root
      <3>1. \A j \in DOMAIN sock[r] : TcWellFormed(sock[r][j])
        BY DEF TcInv, TcSockInv
      <3> QED
        BY <2>1, <3>1 DEF TcWellFormed
    <2>3. \A j \in S : f[j] \in {1, 2}
      BY <2>2, PlaceOf
    <2>4. \A j, k \in S : f[j] = f[k] => j = k
      <3> SUFFICES ASSUME NEW j \in S, NEW k \in S, f[j] = f[k]
                   PROVE  j = k
        OBVIOUS
      <3>1. Place(sock[r][j]) = Place(sock[r][k])
        BY <2>2 DEF Place
      <3> QED
        BY <3>1 DEF TcInv, OncePerPlace
    <2>5. ~(p.op # "MPI_SEND" /\ r = prev(p.root)) => \A j \in S : f[j] = 1
      <3> SUFFICES ASSUME NEW j \in S, f[j] # 1
                   PROVE  p.op # "MPI_SEND" /\ r = prev(p.root)
        OBVIOUS
      <3>1. sock[r][j].at = "copy" /\ RingEnd(p.root, r)
        BY <2>2, PlaceOf
      <3>2. p.op # "MPI_SEND"
        BY <2>2, <3>1 DEF TcInv, TcSockInv, TcWellFormed
      <3>3. r = prev(p.root)
        BY <3>1, PrevNext DEF RingEnd
      <3> QED
        BY <3>2, <3>3
    <2>6. Times(r, p.id) = Cardinality(S)
      BY DEF Times
    <2> HIDE DEF S, f
    <2>7. /\ Cardinality(S) <= 2
          /\ (\A j \in S : f[j] = 1) => Cardinality(S) <= 1
      BY <2>3, <2>4, AtMostTwo
    <2> QED
      BY <2>5, <2>6, <2>7
  <1> QED
    BY <1>1, TcInvariance, PTL
=============================================================================
