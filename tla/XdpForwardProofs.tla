-------------------------- MODULE XdpForwardProofs --------------------------
(***************************************************************************)
(* Theorems about the XDP data plane, for every number of ranks N >= 2,    *)
(* any roots and opcodes, any contents of the address map, and any number  *)
(* of datagrams and losses.                                                *)
(***************************************************************************)
EXTENDS XdpForward, TLAPS

\* What a rank is, where the definition of Rank would be expanded too often.
LEMMA InRank == \A i : i \in Rank <=> i \in Int /\ 0 <= i /\ i < N
  BY NAssumption DEF Rank

\* Ring arithmetic without the remainder.
LEMMA NextRank ==
  ASSUME NEW r \in Rank
  PROVE  next(r) \in Rank /\ next(r) # r /\ next(r) = IF r = N-1 THEN 0 ELSE r + 1
  BY NAssumption DEF next, Rank

LEMMA PrevRank ==
  ASSUME NEW r \in Rank
  PROVE  prev(r) \in Rank /\ prev(r) = IF r = 0 THEN N-1 ELSE r - 1
  BY NAssumption DEF prev, Rank

LEMMA PrevNext ==
  ASSUME NEW r \in Rank
  PROVE  prev(next(r)) = r
  BY NextRank, PrevRank, InRank, NAssumption

LEMMA Distances ==
  ASSUME NEW root \in Rank, NEW r \in Rank
  PROVE  /\ Distance(root, r) \in Rank
         /\ Distance(root, r) = IF r >= root THEN r - root ELSE r - root + N
  BY NAssumption DEF Distance, Rank

\* The ring from the root on: distances tell ranks apart, and the next rank is
\* one further away.
LEMMA Apart ==
  ASSUME NEW root \in Rank, NEW q \in Rank, NEW r \in Rank,
         Distance(root, q) = Distance(root, r)
  PROVE  q = r
  BY Distances, InRank, NAssumption

LEMMA Further ==
  ASSUME NEW root \in Rank, NEW r \in Rank, next(r) # root
  PROVE  Distance(root, next(r)) = Distance(root, r) + 1
  BY Distances, NextRank, InRank, NAssumption

\* The hops of different copies of one packet are different.
LEMMA Hops ==
  ASSUME NEW d \in Rank, NEW k \in 1 .. N
  PROVE  /\ (d + k) % N \in Rank
         /\ \A l \in 1 .. N : (d + k) % N = (d + l) % N => k = l
         /\ (d + 1) % N = next(d)
  <1>1. \A l \in 1 .. N : (d + l) % N = IF d + l < N THEN d + l ELSE d + l - N
    BY NAssumption DEF Rank
  <1>2. (d + k) % N \in Rank
    BY <1>1, InRank, NAssumption
  <1>3. \A l \in 1 .. N : (d + k) % N = (d + l) % N => k = l
    BY <1>1, InRank, NAssumption
  <1> QED
    BY <1>2, <1>3 DEF next

-----------------------------------------------------------------------------

\* The fields of a packet.
LEMMA Fields ==
  ASSUME NEW p \in Packet
  PROVE  /\ p.op \in {"MPI_SEND", "MPI_BCAST_RING", "MPI_BCAST_LINEAR"}
         /\ p.root \in Rank /\ p.src \in Rank /\ p.dst \in Rank /\ p.port \in Rank
         /\ p.id \in 1 .. MaxSends /\ p.copy \in 0 .. N /\ p.path \in Seq(0 .. N)
         /\ p.at \in Places
  BY OpcodesAssumption DEF Packet

LEMMA MirroredFields ==
  ASSUME NEW p \in Packet
  PROVE  /\ Mirrored(p) \in Packet
         /\ Mirrored(p).op = p.op /\ Mirrored(p).root = p.root /\ Mirrored(p).src = p.src
         /\ Mirrored(p).dst = p.dst /\ Mirrored(p).id = p.id /\ Mirrored(p).port = p.port
         /\ Mirrored(p).copy = p.copy /\ Mirrored(p).at = "nic"
  BY DEF Mirrored, Packet, Addresses, Places

LEMMA CopyFields ==
  ASSUME NEW p \in Packet, NEW k \in 1 .. N
  PROVE  /\ Copy(p, k) \in Packet
         /\ Copy(p, k).op = p.op /\ Copy(p, k).root = p.root /\ Copy(p, k).src = p.src
         /\ Copy(p, k).dst = p.dst /\ Copy(p, k).id = p.id /\ Copy(p, k).port = p.port
         /\ Copy(p, k).copy = k /\ Copy(p, k).at = "copy"
  <1>1. k \in 0 .. N
    BY NAssumption
  <1>2. Append(p.path, k) \in Seq(0 .. N)
    BY <1>1, Fields
  <1> QED
    BY <1>1, <1>2 DEF Copy, Packet, Places

LEMMA RewrittenFields ==
  ASSUME NEW c \in Packet, NEW hop \in Rank
  PROVE  /\ Rewritten(c, hop) \in Packet
         /\ Rewritten(c, hop).op = c.op /\ Rewritten(c, hop).root = c.root
         /\ Rewritten(c, hop).src = c.dst /\ Rewritten(c, hop).dst = hop
         /\ Rewritten(c, hop).port = hop /\ Rewritten(c, hop).id = c.id
         /\ Rewritten(c, hop).copy = 0 /\ Rewritten(c, hop).at = "cable"
  <1>1. 0 \in 0 .. N
    BY NAssumption
  <1>2. c.dst \in Rank
    BY Fields
  <1> QED
    BY <1>1, <1>2 DEF Rewritten, Packet, Places, Addresses

-----------------------------------------------------------------------------

\* The claims.  A packet that is not a copy claims the rank it is addressed to.
LEMMA ClaimsItsRank ==
  ASSUME NEW p \in Packet, WellFormed(p), p.at # "copy"
  PROVE  p.dst \in Claim(p)
  BY Fields DEF WellFormed, Claim

LEMMA ClaimInRank ==
  ASSUME NEW p \in Packet, WellFormed(p)
  PROVE  Claim(p) \subseteq Rank
  <1>1. p.at = "copy" => Hop(p) \in Rank
    BY Fields, Hops DEF WellFormed, Hop
  <1> QED
    BY <1>1, Fields DEF Claim

LEMMA ClaimOfMirrored ==
  ASSUME NEW p \in Packet, p.at = "cable"
  PROVE  Claim(Mirrored(p)) = Claim(p)
  BY MirroredFields, Fields DEF Claim

\* What the driver makes of the verdict of handle_original.
LEMMA CopyOf ==
  ASSUME NEW p \in Packet, NEW s \in Copies(p, handle_original(p))
  PROVE  /\ handle_original(p) # 0
         /\ \E k \in 1 .. N : /\ k <= handle_original(p)
                              /\ s = Copy(p, k)
  <1>1. handle_original(p) \in 0 .. N
    BY NAssumption DEF handle_original
  <1>2. PICK k \in 1 .. handle_original(p) :
          s = Copy(p, k)
    BY DEF Copies
  <1>3. k \in 1 .. N /\ k <= handle_original(p) /\ handle_original(p) # 0
    BY <1>1, NAssumption
  <1> QED
    BY <1>2, <1>3

\* A copy claims what its packet does, without the rank the packet is for.
LEMMA ClaimOfCopy ==
  ASSUME NEW p \in Packet, WellFormed(p), p.at = "nic",
         NEW s \in Copies(p, handle_original(p))
  PROVE  /\ s \in Packet /\ s.id = p.id /\ s.at = "copy"
         /\ Claim(s) \subseteq Claim(p) /\ p.dst \notin Claim(s)
  <1>1. PICK k \in 1 .. N : s = Copy(p, k)
    BY CopyOf
  <1>2. /\ s \in Packet /\ s.op = p.op /\ s.root = p.root /\ s.src = p.src
        /\ s.dst = p.dst /\ s.id = p.id /\ s.copy = k /\ s.at = "copy"
    BY <1>1, CopyFields
  <1>3. handle_original(p) # 0
    BY CopyOf
  <1>4. CASE p.op = "MPI_SEND"
    BY <1>3, <1>4 DEF handle_original
  <1>5. CASE p.op = "MPI_BCAST_RING"
    <2>1. Claim(s) = {q \in Rank : Distance(p.root, p.dst) < Distance(p.root, q)}
      BY <1>2, <1>5 DEF Claim
    <2>2. Claim(s) \subseteq Claim(p)
      BY <2>1, <1>5 DEF Claim
    <2>3. p.dst \notin Claim(s)
      <3>1. Distance(p.root, p.dst) \in Int
        BY Fields, Distances, InRank
      <3> QED
        BY <2>1, <3>1
    <2> QED
      BY <1>2, <2>2, <2>3
  <1>6. CASE p.op = "MPI_BCAST_LINEAR"
    <2>1. p.src = p.root
      BY <1>3, <1>6 DEF handle_original
    <2>2. Claim(s) = {Hop(s)} \ {p.root, p.dst}
      BY <1>2, <1>6 DEF Claim
    <2>3. Hop(s) \in Rank
      BY <1>2, Fields, Hops DEF Hop
    <2>4. Claim(p) = Rank \ {p.root}
      BY <2>1, <1>6 DEF Claim
    <2> QED
      BY <1>2, <2>2, <2>3, <2>4
  <1> QED
    BY <1>4, <1>5, <1>6, Fields

\* Two copies of one packet claim different ranks.
LEMMA CopiesApart ==
  ASSUME NEW p \in Packet, WellFormed(p), p.at = "nic",
         NEW s \in Copies(p, handle_original(p)),
         NEW t \in Copies(p, handle_original(p)), s # t
  PROVE  Claim(s) \cap Claim(t) = {}
  <1>1. PICK k \in 1 .. N :
          /\ k <= handle_original(p)
          /\ s = Copy(p, k)
    BY CopyOf
  <1>2. PICK l \in 1 .. N :
          /\ l <= handle_original(p)
          /\ t = Copy(p, l)
    BY CopyOf
  <1>3. k # l
    BY <1>1, <1>2
  <1>4. handle_original(p) # 0 /\ handle_original(p) # 1
    <2>1. k \in Int /\ l \in Int /\ 1 <= k /\ 1 <= l
      BY NAssumption
    <2> QED
      BY <1>1, <1>2, <1>3, <2>1
  <1>5. p.op = "MPI_BCAST_LINEAR"
    BY <1>4 DEF handle_original
  <1>6. /\ s.op = p.op /\ s.dst = p.dst /\ s.copy = k /\ s.at = "copy"
        /\ t.op = p.op /\ t.dst = p.dst /\ t.copy = l /\ t.at = "copy"
    BY <1>1, <1>2, CopyFields
  <1>7. Hop(s) # Hop(t)
    BY <1>3, <1>6, Fields, Hops DEF Hop
  <1> QED
    BY <1>5, <1>6, <1>7 DEF Claim

\* A copy that is transmitted claims no more than before.
LEMMA ClaimOfHop ==
  ASSUME NEW c \in Packet, WellFormed(c), c.at = "copy", NEW s \in handle_clone(c)
  PROVE  /\ s \in Packet /\ s.id = c.id /\ s = Rewritten(c, Hop(c))
         /\ Hop(c) \in Rank /\ Continues(c, Hop(c))
         /\ Claim(s) \subseteq Claim(c)
  <1>1. s = Rewritten(c, Hop(c)) /\ Continues(c, Hop(c))
    BY DEF handle_clone
  <1>2. c.copy \in 1 .. N
    BY DEF WellFormed
  <1>3. Hop(c) \in Rank
    BY <1>2, Fields, Hops DEF Hop
  <1>4. /\ s \in Packet /\ s.op = c.op /\ s.root = c.root /\ s.src = c.dst
        /\ s.dst = Hop(c) /\ s.id = c.id /\ s.at = "cable"
    BY <1>1, <1>3, RewrittenFields
  <1>5. c.root # Hop(c) /\ Hop(c) # c.dst
    BY <1>1, KnownAssumption DEF Continues
  <1>6. CASE c.op = "MPI_BCAST_RING"
    <2>1. Hop(c) = next(c.dst)
      <3>1. c.copy = 1
        BY <1>2, <1>6, NAssumption DEF WellFormed
      <3> QED
        BY <3>1, Fields DEF Hop, next
    <2>2. Distance(c.root, Hop(c)) = Distance(c.root, c.dst) + 1
      BY <1>5, <2>1, Fields, Further
    <2>3. \A q \in Rank : Distance(c.root, q) \in Int
      BY Fields, Distances, InRank
    <2>4. \A q \in Claim(s) : q \in Rank /\ Distance(c.root, c.dst) < Distance(c.root, q)
      <3>1. Claim(s) = {q \in Rank : \/ Distance(c.root, Hop(c)) < Distance(c.root, q)
                                    \/ q = Hop(c)}
        BY <1>4, <1>6 DEF Claim
      <3>2. c.dst \in Rank
        BY Fields
      <3> QED
        BY <1>3, <2>2, <2>3, <3>1, <3>2
    <2>5. Claim(c) = {q \in Rank : Distance(c.root, c.dst) < Distance(c.root, q)}
      BY <1>6 DEF Claim
    <2> QED
      BY <1>1, <1>3, <1>4, <2>4, <2>5
  <1>7. CASE c.op = "MPI_BCAST_LINEAR"
    <2>1. c.src = c.root /\ c.dst = next(c.root)
      BY <1>7 DEF WellFormed
    <2>2. c.dst # c.root
      BY <2>1, Fields, NextRank
    <2>3. Claim(s) = {Hop(c)}
      BY <1>4, <1>7, <2>2 DEF Claim
    <2>4. Claim(c) = {Hop(c)} \ {c.root, c.dst}
      BY <1>7 DEF Claim
    <2> QED
      BY <1>1, <1>3, <1>4, <1>5, <2>3, <2>4
  <1> QED
    BY <1>1, <1>6, <1>7 DEF Continues

-----------------------------------------------------------------------------

\* The sockets.  What a socket has after packet p was queued in it.
LEMMA Queued ==
  ASSUME sock \in [Rank -> Seq(Packet)], NEW d \in Rank, NEW p \in Packet,
         sock' = [sock EXCEPT ![d] = Append(@, p)]
  PROVE  /\ sock' \in [Rank -> Seq(Packet)]
         /\ \A r \in Rank : r # d => sock'[r] = sock[r]
         /\ Len(sock'[d]) = Len(sock[d]) + 1
         /\ sock'[d][Len(sock[d]) + 1] = p
         /\ \A i \in DOMAIN sock[d] : sock'[d][i] = sock[d][i]
         /\ DOMAIN sock'[d] = DOMAIN sock[d] \cup {Len(sock[d]) + 1}
         /\ Len(sock[d]) + 1 \notin DOMAIN sock[d]
  <1>1. sock[d] \in Seq(Packet) /\ sock'[d] = Append(sock[d], p)
    OBVIOUS
  <1>2. sock' \in [Rank -> Seq(Packet)]
    <2>1. Append(sock[d], p) \in Seq(Packet)
      BY <1>1
    <2> QED
      BY <2>1
  <1>3. \A r \in Rank : r # d => sock'[r] = sock[r]
    OBVIOUS
  <1>4. Len(sock'[d]) = Len(sock[d]) + 1 /\ sock'[d][Len(sock[d]) + 1] = p
    BY <1>1
  <1>5. \A i \in DOMAIN sock[d] : sock'[d][i] = sock[d][i]
    BY <1>1
  <1>6. /\ DOMAIN sock'[d] = DOMAIN sock[d] \cup {Len(sock[d]) + 1}
        /\ Len(sock[d]) + 1 \notin DOMAIN sock[d]
    BY <1>1, <1>4
  <1> QED
    BY <1>2, <1>3, <1>4, <1>5, <1>6

LEMMA DeliveredBy ==
  ASSUME sock \in [Rank -> Seq(Packet)], NEW d \in Rank, NEW p \in Packet,
         sock' = [sock EXCEPT ![d] = Append(@, p)]
  PROVE  \A r \in Rank : \A id \in Int :
           Delivered(r, id)' <=> Delivered(r, id) \/ (r = d /\ p.id = id)
  <1> SUFFICES ASSUME NEW r \in Rank, NEW id \in Int
               PROVE  Delivered(r, id)' <=> Delivered(r, id) \/ (r = d /\ p.id = id)
    OBVIOUS
  <1>1. CASE r # d
    BY <1>1, Queued DEF Delivered
  <1>2. CASE r = d
    <2>1. ASSUME Delivered(d, id)'
          PROVE  Delivered(d, id) \/ p.id = id
      <3>1. PICK i \in DOMAIN sock'[d] : sock'[d][i].id = id
        BY <2>1 DEF Delivered
      <3>2. CASE i \in DOMAIN sock[d]
        BY <3>1, <3>2, Queued DEF Delivered
      <3>3. CASE i = Len(sock[d]) + 1
        BY <3>1, <3>3, Queued
      <3> QED
        BY <3>2, <3>3, Queued
    <2>2. ASSUME Delivered(d, id)
          PROVE  Delivered(d, id)'
      <3>1. PICK i \in DOMAIN sock[d] : sock[d][i].id = id
        BY <2>2 DEF Delivered
      <3>2. i \in DOMAIN sock'[d] /\ sock'[d][i] = sock[d][i]
        BY Queued
      <3> QED
        BY <3>1, <3>2 DEF Delivered
    <2>3. ASSUME p.id = id
          PROVE  Delivered(d, id)'
      <3>1. /\ Len(sock[d]) + 1 \in DOMAIN sock'[d]
            /\ sock'[d][Len(sock[d]) + 1] = p
        BY Queued
      <3> QED
        BY <2>3, <3>1 DEF Delivered
    <2> QED
      BY <1>2, <2>1, <2>2, <2>3
  <1> QED
    BY <1>1, <1>2

\* What a rank has had it has had for good.
LEMMA HadStays ==
  ASSUME sock \in [Rank -> Seq(Packet)], full \subseteq full',
         \/ sock' = sock
         \/ \E p \in Packet : sock' = [sock EXCEPT ![p.port] = Append(@, p)]
  PROVE  \A r \in Rank : \A id \in Int : Had(r, id) => Had(r, id)'
  <1>1. CASE sock' = sock
    BY <1>1 DEF Had, Delivered
  <1>2. ASSUME NEW p \in Packet, sock' = [sock EXCEPT ![p.port] = Append(@, p)]
        PROVE  \A r \in Rank : \A id \in Int : Had(r, id) => Had(r, id)'
    <2>1. p.port \in Rank
      BY Fields
    <2> QED
      BY <1>2, <2>1, DeliveredBy DEF Had
  <1> QED
    BY <1>1, <1>2

-----------------------------------------------------------------------------

\* One packet becomes others.  If each of them claims a part of what it claimed,
\* no rank twice, and the rank it was delivered to, if it was, no more, the
\* claims stay apart and open and no socket has a datagram twice.
LEMMA Replace ==
  ASSUME TypeOK, \A p \in net : WellFormed(p), ClaimsApart, ClaimsOpen, AtMostOnce,
         NEW p \in net, NEW S, net' = (net \ {p}) \cup S,
         \A s \in S : s.id = p.id /\ Claim(s) \subseteq Claim(p),
         \A s, t \in S : s # t => Claim(s) \cap Claim(t) = {},
         \/ sock' = sock
         \/ /\ sock' = [sock EXCEPT ![p.port] = Append(@, p)]
            /\ p.port \in Claim(p)
            /\ \A s \in S : p.port \notin Claim(s)
  PROVE  ClaimsApart' /\ ClaimsOpen' /\ AtMostOnce'
  <1>1. /\ p \in Packet /\ p.port \in Rank /\ p.id \in Int
        /\ sock \in [Rank -> Seq(Packet)]
    BY Fields DEF TypeOK
  <1>2. ClaimsApart'
    <2> SUFFICES ASSUME NEW a \in net', NEW b \in net', a # b, a.id = b.id
                 PROVE  Claim(a) \cap Claim(b) = {}
      BY DEF ClaimsApart
    <2>1. CASE a \in S /\ b \in S
      BY <2>1
    <2>2. CASE a \in S /\ b \in net \ {p}
      BY <2>2 DEF ClaimsApart
    <2>3. CASE a \in net \ {p} /\ b \in S
      BY <2>3 DEF ClaimsApart
    <2>4. CASE a \in net \ {p} /\ b \in net \ {p}
      BY <2>4 DEF ClaimsApart
    <2> QED
      BY <2>1, <2>2, <2>3, <2>4
  <1>3. ClaimsOpen'
    <2> SUFFICES ASSUME NEW q \in net', NEW r \in Claim(q), Delivered(r, q.id)'
                 PROVE  FALSE
      BY DEF ClaimsOpen
    <2>1. PICK o \in net : o.id = q.id /\ r \in Claim(o) /\ (o = p \/ o = q)
      <3>1. CASE q \in S
        BY <3>1
      <3>2. CASE q \in net \ {p}
        BY <3>2
      <3> QED
        BY <3>1, <3>2
    <2>2. o \in Packet /\ WellFormed(o) /\ o.id \in Int
      BY Fields DEF TypeOK
    <2>3. r \in Rank
      BY <2>1, <2>2, ClaimInRank
    <2>4. ~Delivered(r, q.id)
      BY <2>1 DEF ClaimsOpen
    <2>5. CASE sock' = sock
      BY <2>4, <2>5 DEF Delivered
    <2>6. CASE /\ sock' = [sock EXCEPT ![p.port] = Append(@, p)]
               /\ p.port \in Claim(p)
               /\ \A s \in S : p.port \notin Claim(s)
      <3>1. r = p.port /\ p.id = q.id
        BY <1>1, <2>1, <2>2, <2>3, <2>4, <2>6, DeliveredBy
      <3>2. q \notin S
        BY <2>6, <3>1
      <3>3. q \in net /\ q # p /\ q.id = p.id
        BY <3>1, <3>2
      <3> QED
        BY <2>1, <2>6, <3>1, <3>3 DEF ClaimsApart
    <2> QED
      BY <2>5, <2>6
  <1>4. AtMostOnce'
    <2>1. CASE sock' = sock
      BY <2>1 DEF AtMostOnce
    <2>2. CASE /\ sock' = [sock EXCEPT ![p.port] = Append(@, p)]
               /\ p.port \in Claim(p)
      <3>1. \A i \in DOMAIN sock[p.port] : sock[p.port][i].id # p.id
        BY <2>2 DEF ClaimsOpen, Delivered
      <3> SUFFICES ASSUME NEW r \in Rank,
                          NEW i \in DOMAIN sock'[r], NEW j \in DOMAIN sock'[r],
                          sock'[r][i].id = sock'[r][j].id
                   PROVE  i = j
        BY DEF AtMostOnce
      <3>2. CASE r # p.port
        <4>1. sock'[r] = sock[r]
          BY <1>1, <2>2, <3>2, Queued
        <4> QED
          BY <4>1 DEF AtMostOnce
      <3>3. CASE r = p.port
        <4> DEFINE last == Len(sock[p.port]) + 1
        <4>1. /\ DOMAIN sock'[r] = DOMAIN sock[r] \cup {last}
              /\ sock'[r][last] = p
              /\ \A k \in DOMAIN sock[r] : sock'[r][k] = sock[r][k]
          BY <1>1, <2>2, <3>3, Queued
        <4> HIDE DEF last
        <4>2. CASE i \in DOMAIN sock[r] /\ j \in DOMAIN sock[r]
          BY <4>1, <4>2 DEF AtMostOnce
        <4>3. CASE i = last /\ j \in DOMAIN sock[r]
          BY <3>1, <3>3, <4>1, <4>3
        <4>4. CASE i \in DOMAIN sock[r] /\ j = last
          BY <3>1, <3>3, <4>1, <4>4
        <4> QED
          BY <4>1, <4>2, <4>3, <4>4
      <3> QED
        BY <3>2, <3>3
    <2> QED
      BY <2>1, <2>2
  <1> QED
    BY <1>2, <1>3, <1>4

-----------------------------------------------------------------------------

\* What has become true of a packet stays true.
LEMMA PacketStays ==
  ASSUME NEW p \in Packet, WellFormed(p), Behind(p),
         Len(log) \in Int, Len(log') \in Int, Len(log) <= Len(log'),
         \A r \in Rank : \A id \in Int : Had(r, id) => Had(r, id)'
  PROVE  WellFormed(p)' /\ Behind(p)'
  <1>1. p.id \in Int /\ p.root \in Rank /\ next(p.root) \in Rank
    BY Fields, NextRank
  <1>2. WellFormed(p)'
    BY <1>1 DEF WellFormed
  <1>3. Behind(p)'
    BY <1>1 DEF Behind
  <1> QED
    BY <1>2, <1>3

\* A step that replaces one packet, and may deliver it, preserves the invariant
\* when what replaces it is as it should be.
LEMMA Moves ==
  ASSUME ForwardInv,
         NEW p \in net, NEW S, net' = (net \ {p}) \cup S,
         \A s \in S : s \in Packet /\ s.id = p.id /\ Claim(s) \subseteq Claim(p),
         \A s, t \in S : s # t => Claim(s) \cap Claim(t) = {},
         \/ sock' = sock
         \/ /\ sock' = [sock EXCEPT ![p.port] = Append(@, p)]
            /\ p.at # "copy"
            /\ p.port \in Claim(p)
            /\ \A s \in S : p.port \notin Claim(s),
         log' = log, losses' \in 0 .. MaxLoss,
         full' \subseteq Rank \X (1 .. MaxSends), full \subseteq full',
         \A s \in S : WellFormed(s) /\ Behind(s)'
  PROVE  ForwardInv'
  <1>1. /\ p \in Packet /\ p.port \in Rank /\ WellFormed(p) /\ Behind(p)
        /\ sock \in [Rank -> Seq(Packet)] /\ net \subseteq Packet
        /\ log \in Seq(Packet) /\ Len(log) <= MaxSends
    BY Fields DEF ForwardInv, TypeOK, NetInv
  <1>2. \A r \in Rank : \A id \in Int : Had(r, id) => Had(r, id)'
    BY <1>1, HadStays
  <1>3. Len(log) \in Int /\ Len(log') \in Int /\ Len(log) <= Len(log')
    BY <1>1
  <1>4. \A q \in Packet : WellFormed(q) /\ Behind(q) => WellFormed(q)' /\ Behind(q)'
    BY <1>2, <1>3, PacketStays
  <1>5. TypeOK'
    <2>1. net' \subseteq Packet
      BY <1>1
    <2>2. sock' \in [Rank -> Seq(Packet)]
      BY <1>1, Queued
    <2> QED
      BY <1>1, <2>1, <2>2 DEF TypeOK
  <1>6. NetInv'
    <2>1. \A s \in S : WellFormed(s)'
      BY DEF WellFormed
    <2>2. \A q \in net \ {p} : WellFormed(q)' /\ Behind(q)'
      BY <1>1, <1>4 DEF ForwardInv, NetInv
    <2> QED
      BY <2>1, <2>2 DEF NetInv
  <1>7. SockInv'
    <2>1. CASE sock' = sock
      <3> SUFFICES ASSUME NEW r \in Rank, NEW i \in DOMAIN sock[r],
                          NEW d, d = sock[r][i]
                   PROVE  WellFormed(d)' /\ Behind(d)' /\ d.at # "copy" /\ d.dst = r
        BY <2>1 DEF SockInv
      <3>1. d \in Packet
        BY <1>1
      <3>2. WellFormed(d) /\ Behind(d) /\ d.at # "copy" /\ d.dst = r
        BY DEF ForwardInv, SockInv
      <3> QED
        BY <1>4, <3>1, <3>2
    <2>2. CASE /\ sock' = [sock EXCEPT ![p.port] = Append(@, p)]
               /\ p.at # "copy"
      <3> SUFFICES ASSUME NEW r \in Rank, NEW i \in DOMAIN sock'[r],
                          NEW d, d = sock'[r][i]
                   PROVE  WellFormed(d)' /\ Behind(d)' /\ d.at # "copy" /\ d.dst = r
        BY DEF SockInv
      <3>1. \/ i \in DOMAIN sock[r] /\ d = sock[r][i]
            \/ r = p.port /\ d = p
        <4>1. CASE r # p.port
          BY <1>1, <2>2, <4>1, Queued
        <4>2. CASE r = p.port
          BY <1>1, <2>2, <4>2, Queued
        <4> QED
          BY <4>1, <4>2
      <3>2. CASE i \in DOMAIN sock[r] /\ d = sock[r][i]
        <4>1. d \in Packet
          BY <1>1, <3>2
        <4> QED
          BY <1>4, <3>2, <4>1 DEF ForwardInv, SockInv
      <3>3. CASE r = p.port /\ d = p
        <4>1. WellFormed(p)' /\ Behind(p)'
          BY <1>1, <1>4
        <4>2. p.dst = p.port
          BY <1>1 DEF WellFormed
        <4> QED
          BY <2>2, <3>3, <4>1, <4>2
      <3> QED
        BY <3>1, <3>2, <3>3
    <2> QED
      BY <2>1, <2>2
  <1>8. ClaimsApart' /\ ClaimsOpen' /\ AtMostOnce'
    BY Replace DEF ForwardInv, NetInv
  <1> QED
    BY <1>5, <1>6, <1>7, <1>8 DEF ForwardInv

-----------------------------------------------------------------------------

\* The actions.
\* What the header of a packet looks like on its way: mirrored, copied, sent on.
LEMMA MirroredWellFormed ==
  ASSUME NEW p \in Packet, WellFormed(p), p.at = "cable"
  PROVE  WellFormed(Mirrored(p))
  BY MirroredFields DEF WellFormed

LEMMA CopyWellFormed ==
  ASSUME NEW p \in Packet, WellFormed(p), p.at = "nic", NEW s \in Copies(p, handle_original(p))
  PROVE  /\ WellFormed(s) /\ s.op = p.op /\ s.root = p.root /\ s.dst = p.dst
         /\ p.op = "MPI_BCAST_RING" \/ (p.op = "MPI_BCAST_LINEAR" /\ p.dst = next(p.root))
  <1>1. PICK k \in 1 .. N : k <= handle_original(p) /\ s = Copy(p, k)
    BY CopyOf
  <1>2. handle_original(p) # 0
    BY CopyOf
  <1>3. /\ s.op = p.op /\ s.root = p.root /\ s.src = p.src /\ s.dst = p.dst
        /\ s.id = p.id /\ s.port = p.port /\ s.copy = k /\ s.at = "copy"
    BY <1>1, CopyFields
  <1>4. CASE p.op = "MPI_BCAST_RING"
    <2>1. k <= 1
      BY <1>1, <1>4, NAssumption DEF handle_original
    <2> QED
      BY <1>3, <1>4, <2>1 DEF WellFormed
  <1>5. CASE p.op = "MPI_BCAST_LINEAR"
    <2>1. p.src = p.root
      BY <1>2, <1>5 DEF handle_original
    <2>2. p.dst = next(p.root)
      BY <1>5, <2>1 DEF WellFormed
    <2> QED
      BY <1>3, <1>5, <2>1, <2>2 DEF WellFormed
  <1> QED
    BY <1>2, <1>4, <1>5 DEF handle_original

LEMMA HopWellFormed ==
  ASSUME NEW c \in Packet, WellFormed(c), c.at = "copy", NEW s \in handle_clone(c)
  PROVE  /\ WellFormed(s) /\ s.op = c.op /\ s.root = c.root /\ s.dst = Hop(c) /\ s.id = c.id
         /\ s.at = "cable" /\ c.root # Hop(c) /\ c.root \in Rank /\ c.dst \in Rank
         /\ \/ c.op = "MPI_BCAST_RING" /\ Hop(c) = next(c.dst)
            \/ c.op = "MPI_BCAST_LINEAR" /\ c.dst = next(c.root)
  <1>1. /\ s = Rewritten(c, Hop(c)) /\ Hop(c) \in Rank /\ Continues(c, Hop(c))
    BY ClaimOfHop
  <1>2. /\ s.op = c.op /\ s.root = c.root /\ s.src = c.dst /\ s.dst = Hop(c)
        /\ s.port = Hop(c) /\ s.id = c.id /\ s.copy = 0 /\ s.at = "cable"
    BY <1>1, RewrittenFields
  <1>3. Hop(c) \in Rank /\ c.root # Hop(c) /\ Hop(c) # c.dst /\ c.dst # c.root
    BY <1>1, KnownAssumption DEF Continues
  <1>4. c.root \in Rank /\ c.dst \in Rank /\ c.copy \in 1 .. N
    BY Fields DEF WellFormed
  <1>5. CASE c.op = "MPI_BCAST_RING"
    <2>1. c.copy = 1
      BY <1>4, <1>5, NAssumption DEF WellFormed
    <2>2. Hop(c) = next(c.dst)
      BY <2>1 DEF Hop, next
    <2> QED
      BY <1>2, <1>3, <1>4, <1>5, <2>2, PrevNext DEF WellFormed
  <1>6. CASE c.op = "MPI_BCAST_LINEAR"
    <2>1. c.dst = next(c.root)
      BY <1>6 DEF WellFormed
    <2> QED
      BY <1>2, <1>3, <1>4, <1>6, <2>1 DEF WellFormed
  <1> QED
    BY <1>1, <1>5, <1>6 DEF Continues

LEMMA MirrorStep ==
  ASSUME ForwardInv, NEW p \in net, Mirror(p)
  PROVE  ForwardInv'
  <1> DEFINE S == IF p.saddr = "MAESTRALE_IP" THEN {Mirrored(p)} ELSE {}
  <1>1. p \in Packet /\ WellFormed(p) /\ Behind(p) /\ p.at = "cable"
    BY DEF ForwardInv, TypeOK, NetInv, Mirror
  <1>2. /\ net' = (net \ {p}) \cup S /\ sock' = sock /\ log' = log
        /\ losses' = losses /\ full' = full
    BY DEF Mirror
  <1>3. losses' \in 0 .. MaxLoss /\ full' \subseteq Rank \X (1 .. MaxSends)
    BY <1>2 DEF ForwardInv, TypeOK
  <1>4. Claim(Mirrored(p)) = Claim(p)
    BY <1>1, ClaimOfMirrored
  <1>5. WellFormed(Mirrored(p))
    BY <1>1, MirroredWellFormed
  <1>6. Behind(p)'
    BY <1>1, <1>2 DEF Behind, Had, Delivered
  <1>7. Behind(Mirrored(p))'
    BY <1>1, <1>6, MirroredFields DEF Behind
  <1>8. \A s \in S : s = Mirrored(p)
    OBVIOUS
  <1> HIDE DEF S
  <1> QED
    BY <1>1, <1>2, <1>3, <1>4, <1>5, <1>7, <1>8, MirroredFields, Moves

LEMMA LoseStep ==
  ASSUME ForwardInv, NEW p \in net, Lose(p)
  PROVE  ForwardInv'
  <1> DEFINE S == {}
  <1>1. /\ net' = (net \ {p}) \cup S /\ sock' = sock /\ log' = log /\ full' = full
        /\ losses' = losses + 1 /\ losses < MaxLoss
    BY DEF Lose
  <1>2. losses' \in 0 .. MaxLoss /\ full' \subseteq Rank \X (1 .. MaxSends)
    BY <1>1, MaxLossAssumption DEF ForwardInv, TypeOK
  <1>3. \A s \in S : FALSE
    OBVIOUS
  <1> HIDE DEF S
  <1> QED
    BY <1>1, <1>2, <1>3, Moves

\* The copies the driver makes are where their packet was, which this very step
\* delivers or drops at the socket.
LEMMA HandleOriginalStep ==
  ASSUME ForwardInv, NEW p \in net, HandleOriginal(p)
  PROVE  ForwardInv'
  <1> DEFINE S == Copies(p, handle_original(p))
  <1>1. p \in Packet /\ WellFormed(p) /\ Behind(p) /\ p.at = "nic"
    BY DEF ForwardInv, TypeOK, NetInv, HandleOriginal
  <1>2. p.port \in Rank /\ p.port = p.dst /\ p.id \in 1 .. MaxSends /\ p.id \in Int
    BY <1>1, Fields DEF WellFormed
  <1>3. net' = (net \ {p}) \cup S /\ log' = log
    BY DEF HandleOriginal
  <1>4. \/ /\ sock' = [sock EXCEPT ![p.port] = Append(@, p)]
           /\ losses' = losses /\ full' = full
        \/ /\ sock' = sock /\ losses < MaxLoss /\ losses' = losses + 1
           /\ full' = full \cup {<<p.port, p.id>>}
    BY DEF HandleOriginal, ToSocket
  <1>5. /\ losses' \in 0 .. MaxLoss /\ full' \subseteq Rank \X (1 .. MaxSends)
        /\ full \subseteq full'
    BY <1>2, <1>4, MaxLossAssumption DEF ForwardInv, TypeOK
  <1>6. sock \in [Rank -> Seq(Packet)]
    BY DEF ForwardInv, TypeOK
  <1>7. \A r \in Rank : \A id \in Int : Had(r, id) => Had(r, id)'
    BY <1>1, <1>4, <1>5, <1>6, HadStays
  <1>8. Had(p.dst, p.id)'
    <2>1. CASE sock' = [sock EXCEPT ![p.port] = Append(@, p)]
      BY <1>1, <1>2, <1>6, <2>1, DeliveredBy DEF Had
    <2>2. CASE full' = full \cup {<<p.port, p.id>>}
      BY <1>2, <2>2 DEF Had
    <2> QED
      BY <1>4, <2>1, <2>2
  <1>9. ASSUME NEW s \in S
        PROVE  WellFormed(s) /\ Behind(s)'
    <2>1. /\ WellFormed(s) /\ s.op = p.op /\ s.root = p.root /\ s.dst = p.dst
          /\ s.id = p.id /\ s.at = "copy"
          /\ p.op = "MPI_BCAST_RING" \/ (p.op = "MPI_BCAST_LINEAR" /\ p.dst = next(p.root))
      BY <1>1, CopyWellFormed, ClaimOfCopy
    <2>2. Behind(p)'
      BY <1>1, <1>2, <1>7, Fields, NextRank DEF Behind
    <2> QED
      BY <1>8, <2>1, <2>2 DEF Behind
  <1>10. \A s \in S : s \in Packet /\ s.id = p.id /\ Claim(s) \subseteq Claim(p)
                      /\ p.dst \notin Claim(s)
    BY <1>1, ClaimOfCopy
  <1>11. \A s, t \in S : s # t => Claim(s) \cap Claim(t) = {}
    BY <1>1, CopiesApart
  <1>12. p.port \in Claim(p)
    BY <1>1, <1>2, ClaimsItsRank
  <1> HIDE DEF S
  <1> QED
    BY <1>1, <1>2, <1>3, <1>4, <1>5, <1>9, <1>10, <1>11, <1>12, Moves

LEMMA HandleCloneStep ==
  ASSUME ForwardInv, NEW c \in net, HandleClone(c)
  PROVE  ForwardInv'
  <1>1. c \in Packet /\ WellFormed(c) /\ Behind(c) /\ c.at = "copy"
    BY DEF ForwardInv, TypeOK, NetInv, HandleClone
  <1>2. /\ net' = (net \ {c}) \cup handle_clone(c) /\ log' = log /\ sock' = sock
        /\ losses' = losses /\ full' = full
    BY DEF HandleClone
  <1>3. losses' \in 0 .. MaxLoss /\ full' \subseteq Rank \X (1 .. MaxSends)
    BY <1>2 DEF ForwardInv, TypeOK
  <1>4. \A s \in handle_clone(c) :
          /\ s \in Packet /\ s.id = c.id /\ s = Rewritten(c, Hop(c))
          /\ Hop(c) \in Rank /\ Continues(c, Hop(c)) /\ Claim(s) \subseteq Claim(c)
    BY <1>1, ClaimOfHop
  <1>5. ASSUME NEW s \in handle_clone(c)
        PROVE  WellFormed(s) /\ Behind(s)'
    <2>1. /\ WellFormed(s) /\ s.op = c.op /\ s.root = c.root /\ s.dst = Hop(c) /\ s.id = c.id
          /\ s.at = "cable" /\ c.root # Hop(c) /\ c.root \in Rank /\ c.dst \in Rank
          /\ \/ c.op = "MPI_BCAST_RING" /\ Hop(c) = next(c.dst)
             \/ c.op = "MPI_BCAST_LINEAR" /\ c.dst = next(c.root)
      BY <1>1, HopWellFormed
    <2>2. Behind(c)'
      BY <1>1, <1>2 DEF Behind, Had, Delivered
    <2>3. CASE c.op = "MPI_BCAST_RING"
      <3>1. Distance(c.root, Hop(c)) = Distance(c.root, c.dst) + 1
        BY <2>1, <2>3, Further
      <3> SUFFICES ASSUME NEW q \in Rank, 0 < Distance(c.root, q),
                          Distance(c.root, q) < Distance(c.root, Hop(c))
                   PROVE  Had(q, c.id)'
        BY <2>1, <2>3 DEF Behind
      <3>2. Distance(c.root, q) \in Int /\ Distance(c.root, c.dst) \in Int
        BY <2>1, Distances, InRank
      <3>3. \/ Distance(c.root, q) < Distance(c.root, c.dst)
            \/ q = c.dst
        <4>1. \/ Distance(c.root, q) < Distance(c.root, c.dst)
              \/ Distance(c.root, q) = Distance(c.root, c.dst)
          BY <3>1, <3>2
        <4> QED
          BY <2>1, <4>1, Apart
      <3> QED
        BY <1>1, <2>2, <2>3, <3>3 DEF Behind
    <2>4. CASE c.op = "MPI_BCAST_LINEAR"
      BY <1>1, <2>1, <2>2, <2>4 DEF Behind
    <2> QED
      BY <2>1, <2>3, <2>4
  <1>6. \A s, t \in handle_clone(c) : s = t
    BY <1>4
  <1> QED
    BY <1>2, <1>3, <1>4, <1>5, <1>6, Moves

\* A datagram that is sent has a new number, and so claims what nobody claims.
LEMMA SendStep ==
  ASSUME ForwardInv, Send
  PROVE  ForwardInv'
  <1>1. PICK op \in Opcodes, root \in Roots, dest \in Rank :
          /\ IF op = "MPI_SEND" THEN dest # root ELSE dest = FirstHop(root)
          /\ SendTo(op, root, dest)
    BY DEF Send
  <1>0. PICK d : d = Datagram(op, root, dest)
    OBVIOUS
  <1>2. /\ net' = net \cup {d} /\ log' = Append(log, d) /\ Len(log) < MaxSends
        /\ sock' = sock /\ losses' = losses /\ full' = full
    BY <1>0, <1>1 DEF SendTo
  <1>3. /\ log \in Seq(Packet) /\ Len(log) \in Nat /\ net \subseteq Packet
        /\ sock \in [Rank -> Seq(Packet)]
    BY DEF ForwardInv, TypeOK
  <1>4. /\ d.op = op /\ d.root = root /\ d.src = root /\ d.dst = dest /\ d.port = dest
        /\ d.id = Len(log) + 1 /\ d.copy = 0 /\ d.at = "cable"
    BY <1>0 DEF Datagram
  <1>5. d \in Packet
    <2>1. /\ root \in Rank /\ Len(log) + 1 \in 1 .. MaxSends /\ 0 \in 0 .. N
          /\ <<>> \in Seq(0 .. N)
      BY <1>2, <1>3, RootsAssumption, MaxSendsAssumption, NAssumption
    <2> QED
      BY <1>0, <2>1 DEF Datagram, Packet, Addresses, Places
  <1>6. Len(log') = Len(log) + 1 /\ log' \in Seq(Packet)
    BY <1>2, <1>3, <1>5
  <1>7. root \in Rank /\ (op # "MPI_SEND" => dest = next(root)) /\ dest # root
    BY <1>1, RootsAssumption, NextRank DEF FirstHop
  <1>8. \A p \in Packet : WellFormed(p) /\ Behind(p) => WellFormed(p)' /\ Behind(p)'
    <2>1. \A r \in Rank : \A id \in Int : Had(r, id) => Had(r, id)'
      BY <1>2, <1>3, HadStays
    <2> QED
      BY <1>3, <1>6, <2>1, PacketStays
  <1>9. WellFormed(d)'
    BY <1>3, <1>4, <1>6, <1>7, PrevNext DEF WellFormed
  <1>10. Behind(d)'
    <2>1. ASSUME op = "MPI_BCAST_RING", NEW q \in Rank,
                 0 < Distance(root, q), Distance(root, q) < Distance(root, dest)
          PROVE  FALSE
      <3>1. Distance(root, dest) = 1 /\ Distance(root, q) \in Int
        BY <1>7, <2>1, NAssumption, Distances, NextRank, InRank
      <3> QED
        BY <2>1, <3>1
    <2> QED
      BY <1>4, <2>1 DEF Behind
  <1>11. TypeOK'
    <2>1. Len(log') <= MaxSends
      BY <1>2, <1>3, <1>6, MaxSendsAssumption
    <2>2. net' \subseteq Packet
      BY <1>2, <1>3, <1>5
    <2>3. losses' \in 0 .. MaxLoss /\ full' \subseteq Rank \X (1 .. MaxSends)
      BY <1>2 DEF ForwardInv, TypeOK
    <2> QED
      BY <1>2, <1>3, <1>6, <2>1, <2>2, <2>3 DEF TypeOK
  <1>12. NetInv'
    BY <1>2, <1>3, <1>8, <1>9, <1>10 DEF ForwardInv, NetInv
  <1>13. SockInv'
    <2> SUFFICES ASSUME NEW r \in Rank, NEW i \in DOMAIN sock[r],
                        NEW p, p = sock[r][i]
                 PROVE  WellFormed(p)' /\ Behind(p)' /\ p.at # "copy" /\ p.dst = r
      BY <1>2 DEF SockInv
    <2>1. p \in Packet
      BY <1>3
    <2>2. WellFormed(p) /\ Behind(p) /\ p.at # "copy" /\ p.dst = r
      BY DEF ForwardInv, SockInv
    <2> QED
      BY <1>8, <2>1, <2>2
  <1>14. \A p \in net : p.id \in Int /\ p.id <= Len(log) /\ p.id # d.id
    <2> SUFFICES ASSUME NEW p \in net
                 PROVE  p.id \in Int /\ p.id <= Len(log) /\ p.id # d.id
      OBVIOUS
    <2>1. p.id \in Int /\ p.id <= Len(log)
      BY <1>3, Fields DEF ForwardInv, NetInv, WellFormed
    <2> QED
      BY <1>3, <1>4, <2>1
  <1>15. ClaimsApart'
    BY <1>2, <1>14 DEF ForwardInv, ClaimsApart
  <1>16. ClaimsOpen'
    <2>1. \A r \in Rank : ~Delivered(r, d.id)
      <3> SUFFICES ASSUME NEW r \in Rank, NEW i \in DOMAIN sock[r]
                   PROVE  sock[r][i].id # d.id
        BY DEF Delivered
      <3>1. sock[r][i] \in Packet
        BY <1>3
      <3>2. sock[r][i].id \in Int /\ sock[r][i].id <= Len(log)
        BY <3>1, Fields DEF ForwardInv, SockInv, WellFormed
      <3> QED
        BY <1>3, <1>4, <3>2
    <2>2. Claim(d) \subseteq Rank
      BY <1>4, <1>5, Fields DEF Claim
    <2>3. \A p \in net : \A r \in Claim(p) : ~Delivered(r, p.id)
      BY DEF ForwardInv, ClaimsOpen
    <2> QED
      BY <1>2, <2>1, <2>2, <2>3 DEF ClaimsOpen, Delivered
  <1>17. AtMostOnce'
    BY <1>2 DEF ForwardInv, AtMostOnce
  <1> QED
    BY <1>11, <1>12, <1>13, <1>15, <1>16, <1>17 DEF ForwardInv

-----------------------------------------------------------------------------

LEMMA InitInv == Init => ForwardInv
  <1> SUFFICES ASSUME Init
               PROVE  ForwardInv
    OBVIOUS
  <1>1. TypeOK
    <2>1. <<>> \in Seq(Packet) /\ Len(<<>>) <= MaxSends /\ 0 \in 0 .. MaxLoss
      BY MaxSendsAssumption, MaxLossAssumption
    <2> QED
      BY <2>1 DEF Init, NetInit, TypeOK
  <1>2. NetInv /\ ClaimsApart /\ ClaimsOpen
    BY DEF Init, NetInit, NetInv, ClaimsApart, ClaimsOpen
  <1>3. \A r \in Rank : DOMAIN sock[r] = {}
    BY DEF Init, NetInit
  <1>4. SockInv /\ AtMostOnce
    BY <1>3 DEF SockInv, AtMostOnce
  <1> QED
    BY <1>1, <1>2, <1>4 DEF ForwardInv

LEMMA StepInv == ForwardInv /\ [Next]_netVars => ForwardInv'
  <1> SUFFICES ASSUME ForwardInv, [Next]_netVars
               PROVE  ForwardInv'
    OBVIOUS
  <1>1. CASE Send
    BY <1>1, SendStep
  <1>2. ASSUME NEW p \in net, Mirror(p)
        PROVE  ForwardInv'
    BY <1>2, MirrorStep
  <1>3. ASSUME NEW p \in net, HandleOriginal(p)
        PROVE  ForwardInv'
    BY <1>3, HandleOriginalStep
  <1>4. ASSUME NEW p \in net, HandleClone(p)
        PROVE  ForwardInv'
    BY <1>4, HandleCloneStep
  <1>5. ASSUME NEW p \in net, Lose(p)
        PROVE  ForwardInv'
    BY <1>5, LoseStep
  <1>6. CASE UNCHANGED netVars
    <2>1. net' = net /\ sock' = sock /\ log' = log /\ losses' = losses /\ full' = full
      BY <1>6 DEF netVars
    <2>2. TypeOK' /\ AtMostOnce'
      BY <2>1 DEF ForwardInv, TypeOK, AtMostOnce
    <2>3. \A p \in Packet : WellFormed(p) /\ Behind(p) => WellFormed(p)' /\ Behind(p)'
      BY <2>1 DEF WellFormed, Behind, Had, Delivered
    <2>4. NetInv'
      BY <2>1, <2>3 DEF ForwardInv, TypeOK, NetInv
    <2>5. SockInv'
      <3> SUFFICES ASSUME NEW r \in Rank, NEW i \in DOMAIN sock[r],
                          NEW p, p = sock[r][i]
                   PROVE  WellFormed(p)' /\ Behind(p)' /\ p.at # "copy" /\ p.dst = r
        BY <2>1 DEF SockInv
      <3>1. p \in Packet
        BY DEF ForwardInv, TypeOK
      <3>2. WellFormed(p) /\ Behind(p) /\ p.at # "copy" /\ p.dst = r
        BY DEF ForwardInv, SockInv
      <3> QED
        BY <2>3, <3>1, <3>2
    <2>6. ClaimsApart' /\ ClaimsOpen'
      BY <2>1 DEF ForwardInv, ClaimsApart, ClaimsOpen, Delivered
    <2> QED
      BY <2>2, <2>4, <2>5, <2>6 DEF ForwardInv
  <1> QED
    BY <1>1, <1>2, <1>3, <1>4, <1>5, <1>6 DEF Next, Forward

\* Every state the data plane reaches satisfies the inductive invariant.
THEOREM Invariance == Spec => []ForwardInv
  BY InitInv, StepInv, PTL DEF Spec

\* The variables stay in their types.
THEOREM TypeCorrect == Spec => []TypeOK
  <1>1. ForwardInv => TypeOK
    BY DEF ForwardInv
  <1> QED
    BY <1>1, Invariance, PTL

\* No socket receives a datagram twice: the copies the driver makes, the ranks
\* handle_original and handle_clone send them to and the ranks they stop at
\* make exactly one packet for each rank, on the ring and in the fan-out.
THEOREM OnceCorrect == Spec => []AtMostOnce
  <1>1. ForwardInv => AtMostOnce
    BY DEF ForwardInv
  <1> QED
    BY <1>1, Invariance, PTL

\* What the root sends never comes back to it.
THEOREM RootCorrect == Spec => []NeverToRoot
  <1>1. ForwardInv => NeverToRoot
    BY DEF ForwardInv, SockInv, WellFormed, NeverToRoot
  <1> QED
    BY <1>1, Invariance, PTL

\* A datagram ends in the socket its header names, with the source it really
\* came through.
THEOREM SocketCorrect == Spec => []RightSocket
  <1>1. ForwardInv => RightSocket
    <2> SUFFICES ASSUME ForwardInv, NEW r \in Rank, NEW i \in DOMAIN sock[r],
                        NEW p, p = sock[r][i]
                 PROVE  /\ p.dst = r
                        /\ p.op = "MPI_BCAST_RING" => p.src = prev(r)
                        /\ p.op = "MPI_BCAST_LINEAR" =>
                             p.src = IF r = next(p.root) THEN p.root ELSE next(p.root)
      BY DEF RightSocket
    <2>1. WellFormed(p) /\ p.dst = r
      BY DEF ForwardInv, SockInv
    <2> QED
      BY <2>1 DEF WellFormed
  <1> QED
    BY <1>1, Invariance, PTL

\* The ring hands a datagram down in order, and leaves nobody out before whoever
\* has it.
THEOREM PrefixCorrect == Spec => []RingPrefix
  <1>1. ForwardInv => RingPrefix
    <2> SUFFICES ASSUME ForwardInv, NEW r \in Rank, NEW i \in DOMAIN sock[r],
                        NEW p, p = sock[r][i], p.op = "MPI_BCAST_RING",
                        NEW q \in Rank, 0 < Distance(p.root, q),
                        Distance(p.root, q) < Distance(p.root, r)
                 PROVE  Had(q, p.id)
      BY DEF RingPrefix, Had
    <2>1. Behind(p) /\ p.dst = r
      BY DEF ForwardInv, SockInv
    <2> QED
      BY <2>1 DEF Behind
  <1> QED
    BY <1>1, Invariance, PTL

\* The fan-out happens at the rank after the root, which had the datagram first.
THEOREM FanOutCorrect == Spec => []FanOutFirst
  <1>1. ForwardInv => FanOutFirst
    <2> SUFFICES ASSUME ForwardInv, NEW r \in Rank, NEW i \in DOMAIN sock[r],
                        NEW p, p = sock[r][i], p.op = "MPI_BCAST_LINEAR"
                 PROVE  Had(next(p.root), p.id)
      BY DEF FanOutFirst, Had
    <2>1. WellFormed(p) /\ Behind(p) /\ p.dst = r
      BY DEF ForwardInv, SockInv
    <2>2. CASE p.src = p.root
      <3>1. Delivered(next(p.root), p.id)
        BY <2>1, <2>2 DEF WellFormed, Delivered
      <3> QED
        BY <3>1 DEF Had
    <2>3. CASE p.src # p.root
      BY <2>1, <2>3 DEF Behind
    <2> QED
      BY <2>2, <2>3
  <1> QED
    BY <1>1, Invariance, PTL
=============================================================================
