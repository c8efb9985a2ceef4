----------------------------- MODULE TcForward -----------------------------
(***************************************************************************)
(* The data plane of option -t: the same cable, mirror and sockets as in   *)
(* XdpForward, with the program of bpf/tc at the ingress of the interface. *)
(*                                                                         *)
(*   ingress: kfunc -> handle_original: a marked clone goes to ingress     *)
(*            again, then handle_clone sends the packet itself on          *)
(*            (ring: redirects it; linear: redirects a clone of it)        *)
(*   marked clone: kfunc -> up the stack                                   *)
(*                                                                         *)
(* The verdict TC_ACT_OK passes the packet up the stack as it is by then.  *)
(* One that handle_clone has rewritten names GRECALE_IP as its destination *)
(* and is discarded there, so the two broadcasts do the same; one that     *)
(* handle_clone has left alone is delivered, beside its marked clone.      *)
(***************************************************************************)
EXTENDS XdpForward

\* Mutant: as in the XDP program, only what comes from the root is cloned.
Cloned_FromTheRoot(p) ==
  p.op \in {"MPI_BCAST_RING", "MPI_BCAST_LINEAR"} /\ p.root # p.dst /\ p.root = p.src

\* Whether handle_original clones the packet.
Cloned(p) == p.op \in {"MPI_BCAST_RING", "MPI_BCAST_LINEAR"} /\ p.root # p.dst

\* The clone for the local socket, at the ingress again, with MAGICK_MARK.
Marked(p) == [p EXCEPT !.path = Append(@, 0), !.at = "copy"]

\* Mutant: the test of root_host == next is missing.
SentOn_ToTheRoot(p) == <<p.dst, next(p.dst)>> \in Known

\* Whether handle_clone sends the packet on.
SentOn(p) == p.root # next(p.dst) /\ <<p.dst, next(p.dst)>> \in Known

\* Mutant: the source in the MPI header is left as it was.
TcRewritten_SameSource(p) ==
  [p EXCEPT !.dst = next(p.dst), !.port = next(p.dst), !.saddr = "MAESTRALE_IP",
            !.path = Append(@, 1), !.at = "cable"]

\* The header fields handle_clone writes.
TcRewritten(p) ==
  [p EXCEPT !.src = p.dst, !.dst = next(p.dst), !.port = next(p.dst),
            !.saddr = "MAESTRALE_IP", !.path = Append(@, 1), !.at = "cable"]

-----------------------------------------------------------------------------

TcArrived(p) == p.at = "nic" /\ p.saddr = "GRECALE_IP"

\* TC_ACT_OK at once.
TcPass(p) ==
  /\ TcArrived(p) /\ ~Cloned(p)
  /\ net' = net \ {p}
  /\ ToSocket(p)
  /\ UNCHANGED log

\* Mutants of TcSendOn: the local clone is missing, or the packet itself goes
\* up the stack as well, still addressed to this rank.
TcSendOn_NoClone(p) ==
  /\ TcArrived(p) /\ Cloned(p) /\ SentOn(p)
  /\ net' = (net \ {p}) \cup {TcRewritten(p)}
  /\ UNCHANGED <<sock, log, losses, full>>
TcSendOn_AlsoUp(p) ==
  /\ TcArrived(p) /\ Cloned(p) /\ SentOn(p)
  /\ net' = (net \ {p}) \cup {Marked(p), TcRewritten(p)}
  /\ ToSocket(p)
  /\ UNCHANGED log

\* One clone up, the packet on to the next rank.
TcSendOn(p) ==
  /\ TcArrived(p) /\ Cloned(p) /\ SentOn(p)
  /\ net' = (net \ {p}) \cup {Marked(p), TcRewritten(p)}
  /\ UNCHANGED <<sock, log, losses, full>>

\* There is no next rank: handle_clone returns TC_ACT_OK, and both the clone
\* and the packet itself go up the stack.
TcEnd(p) ==
  /\ TcArrived(p) /\ Cloned(p) /\ ~SentOn(p)
  /\ net' = (net \ {p}) \cup {Marked(p)}
  /\ ToSocket(p)
  /\ UNCHANGED log

\* bpf_clone_redirect fails: handle_original returns TC_ACT_OK, and the
\* broadcast ends at this rank.
TcCloneFails(p) ==
  /\ TcArrived(p) /\ Cloned(p)
  /\ losses < MaxLoss
  /\ losses' = losses + 1
  /\ net' = net \ {p}
  /\ sock' = [sock EXCEPT ![p.port] = Append(@, p)]
  /\ UNCHANGED <<log, full>>

\* kfunc on a marked clone.
TcMarked(c) ==
  /\ c.at = "copy"
  /\ net' = net \ {c}
  /\ ToSocket(c)
  /\ UNCHANGED log

\* What moves the packets in flight.
TcWorking(p) == Mirror(p) \/ TcPass(p) \/ TcSendOn(p) \/ TcEnd(p) \/ TcMarked(p)
TcStep == \E p \in net : TcWorking(p) \/ TcCloneFails(p) \/ Lose(p)

TcNext == Send \/ TcStep
TcFairness == WF_netVars(\E p \in net : TcWorking(p))
TcSpec == Init /\ [][TcNext]_netVars /\ TcFairness

-----------------------------------------------------------------------------

\* How many times the socket of rank r has received datagram id.
Times(r, id) == Cardinality({i \in DOMAIN sock[r] : sock[r][i].id = id})

\* Only the last rank of the ring receives a datagram twice, and none three
\* times.
TwiceAtTheEnd ==
  \A r \in Rank : \A i \in DOMAIN sock[r] :
    LET p == sock[r][i]
    IN  Times(r, p.id) <= IF p.op # "MPI_SEND" /\ r = prev(p.root) THEN 2 ELSE 1

\* In this data plane the linear broadcast is a ring as well: a rank has every
\* broadcast datagram from its predecessor.
FromPredecessor ==
  \A r \in Rank : \A i \in DOMAIN sock[r] :
    LET p == sock[r][i]
    IN  p.dst = r /\ (p.op # "MPI_SEND" => p.src = prev(r))

\* The datagram goes on to the next rank before this one has it, but while
\* nothing is lost the ranks in between have it, or have their clone to come.
HandedDown ==
  losses = 0 =>
    \A r \in Rank : \A i \in DOMAIN sock[r] :
      LET p == sock[r][i]
      IN  p.op # "MPI_SEND" =>
            \A q \in Rank : 0 < Distance(p.root, q) /\ Distance(p.root, q) < Distance(p.root, r)
              => Delivered(q, p.id) \/ \E c \in net : c.id = p.id /\ c.dst = q /\ c.at = "copy"

-----------------------------------------------------------------------------

\* The inductive invariant.  What the header of a packet looks like on its way.
TcWellFormed(p) ==
  /\ p.port = p.dst /\ p.dst # p.root
  /\ p.id <= Len(log) /\ p.op = log[p.id].op /\ p.root = log[p.id].root
  /\ p.at = "copy" => p.op # "MPI_SEND"
  /\ p.op # "MPI_SEND" => p.src = prev(p.dst)

\* Rank q has datagram id, or its clone is at the ingress.
HasOrWill(q, id) ==
  Delivered(q, id) \/ \E c \in net : c.id = id /\ c.dst = q /\ c.at = "copy"

\* While nothing is lost, the ranks that a packet has behind it have its
\* datagram, or will.
TcBehind(p) ==
  losses = 0 /\ p.op # "MPI_SEND" =>
    \A q \in Rank : 0 < Distance(p.root, q) /\ Distance(p.root, q) < Distance(p.root, p.dst)
      => HasOrWill(q, p.id)

\* Where the ring ends: before the root, or before a pair not registered.
RingEnd(root, q) == root = next(q) \/ <<q, next(q)>> \notin Known

\* A rank has one place for each datagram, and a second one for the clone where
\* the ring ends.
Place(p) == <<p.dst, IF p.at = "copy" /\ RingEnd(p.root, p.dst) THEN 2 ELSE 1>>

\* The places a packet claims for itself, its clones and what it becomes.
TcClaim(p) ==
  IF p.op = "MPI_SEND" \/ p.at = "copy" THEN {Place(p)}
  ELSE {place \in Rank \X {1, 2} :
          /\ Distance(p.root, place[1]) >= Distance(p.root, p.dst)
          /\ place[2] = 2 => RingEnd(p.root, place[1])}

\* No two packets claim the same place for the same datagram, none claims a
\* place that is taken, and no place is taken twice.
TakenBy(place, id, r, i) == sock[r][i].id = id /\ Place(sock[r][i]) = place
PlacesApart ==
  \A p, q \in net : p # q /\ p.id = q.id => TcClaim(p) \cap TcClaim(q) = {}
PlacesOpen ==
  \A p \in net : \A place \in TcClaim(p) : \A r \in Rank : \A i \in DOMAIN sock[r] :
    ~TakenBy(place, p.id, r, i)
OncePerPlace ==
  \A r \in Rank : \A i, j \in DOMAIN sock[r] :
    sock[r][i].id = sock[r][j].id /\ Place(sock[r][i]) = Place(sock[r][j]) => i = j

TcNetInv == \A p \in net : TcWellFormed(p) /\ TcBehind(p)
TcSockInv ==
  \A r \in Rank : \A i \in DOMAIN sock[r] :
    LET p == sock[r][i]
    IN  TcWellFormed(p) /\ TcBehind(p) /\ p.dst = r

TcInv == TypeOK /\ TcNetInv /\ TcSockInv /\ PlacesApart /\ PlacesOpen /\ OncePerPlace
=============================================================================
