-------------------------- MODULE RingBarrierProofs --------------------------
(***************************************************************************)
(* Theorems about mpi_barrier_ring, for every number of ranks N >= 2 and   *)
(* every number of barriers.                                               *)
(***************************************************************************)
EXTENDS RingBarrier, TLAPS

\* The successor of a rank on the ring, without the remainder.
LEMMA NextRank ==
  ASSUME NEW r \in Rank
  PROVE  next(r) = IF r = N-1 THEN 0 ELSE r + 1
  BY NAssumption DEF next, Rank

\* The predecessor of a rank on the ring, without the remainder.
LEMMA PrevRank ==
  ASSUME NEW r \in Rank
  PROVE  prev(r) = IF r = 0 THEN N-1 ELSE r - 1
  BY NAssumption DEF prev, Rank

\* How the history counters of one rank are related: a call of the barrier is
\* one receive and one send, in the order of that rank.
LEMMA Counters ==
  ASSUME TypeOK, InCallEntered, NEW r \in Rank
  PROVE  /\ sent[r] \in Nat /\ recvd[r] \in Nat /\ entered[r] \in Nat
         /\ sent[r] <= entered[r] /\ entered[r] <= recvd[r] + 1
         /\ r # 0 => sent[r] <= recvd[r] /\ left[r] = sent[r]
         /\ r = 0 => /\ recvd[r] <= sent[r] /\ sent[r] <= recvd[r] + 1
                     /\ left[r] = recvd[r]
  BY MaxBarriersAssumption DEF TypeOK, InCallEntered, sent, recvd, left

-----------------------------------------------------------------------------

LEMMA InitInvariant == Init => IInv
  <1> SUFFICES ASSUME Init PROVE IInv
    OBVIOUS
  <1>1. TypeOK /\ InCallEntered
    BY MaxBarriersAssumption DEF Init, TypeOK, InCallEntered
  <1>2. \A r \in Rank : sent[r] = 0 /\ recvd[r] = 0
    BY DEF Init, sent, recvd
  <1>3. \A r \in Rank : next(r) \in Rank
    BY NextRank, NAssumption DEF Rank
  <1>4. 0 \in Rank
    BY NAssumption DEF Rank
  <1>5. StreamsCount
    BY <1>2, <1>3 DEF StreamsCount, Init
  <1>6. DownTheRing
    BY <1>2, <1>4 DEF DownTheRing
  <1> QED
    BY <1>1, <1>5, <1>6 DEF IInv

LEMMA EnterPreserves ==
  ASSUME IInv, NEW r \in Rank, Enter(r)
  PROVE  IInv'
  <1> USE DEF IInv
  <1>1. TypeOK' /\ InCallEntered'
    BY MaxBarriersAssumption DEF TypeOK, InCallEntered, Enter
  <1>2. \A q \in Rank : sent'[q] = sent[q] /\ recvd'[q] = recvd[q]
    BY MaxBarriersAssumption DEF TypeOK, Enter, sent, recvd
  <1>3. \A q \in Rank : next(q) \in Rank
    BY NextRank, NAssumption DEF Rank
  <1>4. StreamsCount'
    BY <1>2, <1>3 DEF StreamsCount, Enter
  <1>5. DownTheRing'
    BY <1>2, NAssumption DEF DownTheRing, Rank
  <1> QED
    BY <1>1, <1>4, <1>5

LEMMA SendPreserves ==
  ASSUME IInv, NEW r \in Rank, Send(r)
  PROVE  IInv'
  <1> USE DEF IInv
  <1>1. TypeOK' /\ InCallEntered'
    BY DEF TypeOK, InCallEntered, Send
  <1>2. \A q \in Rank : /\ sent'[q] = IF q = r THEN sent[q] + 1 ELSE sent[q]
                        /\ recvd'[q] = recvd[q]
    BY MaxBarriersAssumption DEF TypeOK, Send, sent, recvd
  <1>3. \A q \in Rank : sent[q] \in Nat /\ recvd[q] \in Nat
    BY Counters
  <1>4. \A q \in Rank : next(q) \in Rank
    BY NextRank, NAssumption DEF Rank
  <1>5. StreamsCount'
    BY <1>2, <1>3, <1>4 DEF StreamsCount, Send, TypeOK
  <1>6. DownTheRing'
    BY <1>2, <1>3, NAssumption DEF DownTheRing, Rank
  <1> QED
    BY <1>1, <1>5, <1>6

LEMMA RecvPreserves ==
  ASSUME IInv, NEW r \in Rank, Recv(r)
  PROVE  IInv'
  <1> USE DEF IInv
  <1>0. /\ \A q \in Rank : next(q) \in Rank /\ (next(q) = r <=> q = prev(r))
        /\ prev(r) \in Rank
    BY NextRank, PrevRank, NAssumption DEF Rank
  <1>1. TypeOK' /\ InCallEntered'
    BY <1>0 DEF TypeOK, InCallEntered, Recv
  <1>2. \A q \in Rank : /\ recvd'[q] = IF q = r THEN recvd[q] + 1 ELSE recvd[q]
                        /\ sent'[q] = sent[q]
    BY MaxBarriersAssumption DEF TypeOK, Recv, sent, recvd
  <1>3. \A q \in Rank : sent[q] \in Nat /\ recvd[q] \in Nat
    BY Counters
  <1>4. StreamsCount'
    BY <1>0, <1>2, <1>3 DEF StreamsCount, Recv, TypeOK
  <1>5. sent[prev(r)] >= recvd[r] + 1
    BY <1>0, <1>3 DEF StreamsCount, Recv, TypeOK
  <1>6. \A q \in Rank : q # 0 => recvd[q] >= sent[q]
    BY Counters
  <1>7. ASSUME NEW q \in Rank, q < r \/ r = 0
        PROVE  sent[q] >= recvd[r] + 1
    <2>1. q = prev(r) \/ (prev(r) # 0 /\ q < prev(r))
      BY <1>7, PrevRank, NAssumption DEF Rank
    <2>2. CASE q = prev(r)
      BY <2>2, <1>5
    <2>3. CASE prev(r) # 0 /\ q < prev(r)
      BY <2>3, <1>0, <1>3, <1>5, <1>6 DEF DownTheRing
    <2> QED
      BY <2>1, <2>2, <2>3
  <1>8. DownTheRing'
    BY <1>2, <1>3, <1>7, NAssumption DEF DownTheRing, Rank
  <1> QED
    BY <1>1, <1>4, <1>8

\* The inductive invariant holds: the streams hold exactly the difference of
\* the counters at their ends, and the counters never increase down the ring.
THEOREM Invariance == Spec => []IInv
  <1>1. IInv /\ [Next]_vars => IInv'
    <2> SUFFICES ASSUME IInv, [Next]_vars PROVE IInv'
      OBVIOUS
    <2>1. CASE Next
      BY <2>1, EnterPreserves, SendPreserves, RecvPreserves DEF Next
    <2>2. CASE UNCHANGED vars
      BY <2>2 DEF vars, IInv, TypeOK, InCallEntered, StreamsCount, DownTheRing,
                  sent, recvd
    <2> QED
      BY <2>1, <2>2
  <1> QED
    BY InitInvariant, <1>1, PTL DEF Spec, Safety

-----------------------------------------------------------------------------

\* The variables keep their types.
THEOREM TypeCorrect == Spec => []TypeOK
  BY Invariance, PTL DEF IInv

\* What the counters say of every rank, whatever the rank: they lie between
\* what rank 0 has received and what it has sent.
LEMMA BetweenRootCounters ==
  ASSUME IInv, NEW r \in Rank
  PROVE  /\ recvd[0] \in Nat /\ sent[0] \in Nat /\ sent[0] <= recvd[0] + 1
         /\ sent[r] \in Nat /\ recvd[r] \in Nat
         /\ recvd[0] <= sent[r] /\ recvd[0] <= recvd[r]
         /\ sent[r] <= sent[0] /\ recvd[r] <= sent[0]
  <1>1. 0 \in Rank
    BY NAssumption DEF Rank
  <1>2. CASE r = 0
    BY <1>1, <1>2, Counters DEF IInv
  <1>3. CASE r # 0
    <2>1. 0 < r
      BY <1>3, NAssumption DEF Rank
    <2>2. recvd[r] <= sent[0] /\ recvd[0] <= sent[r]
      BY <1>1, <2>1, Counters DEF IInv, DownTheRing
    <2> QED
      BY <1>1, <1>3, <2>2, Counters DEF IInv
  <1> QED
    BY <1>2, <1>3

\* Rank 0 is the last to leave a barrier, for every number of ranks.
THEOREM RootLast == Spec => []RootLeavesLast
  <1>1. IInv => RootLeavesLast
    <2> SUFFICES ASSUME IInv, NEW r \in Rank PROVE left[0] <= left[r]
      BY DEF RootLeavesLast
    <2>1. 0 \in Rank
      BY NAssumption DEF Rank
    <2> QED
      BY <2>1, Counters, BetweenRootCounters DEF IInv
  <1> QED
    BY <1>1, Invariance, PTL

\* A rank leaves a barrier only after every rank before it has entered.
THEOREM Predecessors == Spec => []PredecessorsEntered
  <1>1. IInv => PredecessorsEntered
    <2> SUFFICES ASSUME IInv, NEW r \in Rank, NEW q \in 0 .. r
                 PROVE  left[r] <= entered[q]
      BY DEF PredecessorsEntered
    <2>1. q \in Rank
      BY NAssumption DEF Rank
    <2>2. CASE r = 0
      BY <2>1, <2>2, Counters DEF IInv, left, TypeOK
    <2>3. CASE r # 0
      <3>1. left[r] <= recvd[r]
        BY <2>3, Counters DEF IInv
      <3>2. CASE q = r
        BY <2>3, <3>2, Counters DEF IInv
      <3>3. CASE q < r
        BY <2>1, <3>1, <3>3, <2>3, Counters DEF IInv, DownTheRing
      <3> QED
        BY <3>2, <3>3 DEF Rank
    <2> QED
      BY <2>2, <2>3
  <1> QED
    BY <1>1, Invariance, PTL

\* There is never more than one token on the ring, for every number of ranks.
THEOREM SingleToken == Spec => []OneToken
  <1>1. IInv => OneToken
    <2> SUFFICES ASSUME IInv PROVE OneToken
      OBVIOUS
    <2> USE DEF IInv
    <2>1. \A r \in Rank : next(r) \in Rank /\ (next(r) = IF r = N-1 THEN 0 ELSE r+1)
      BY NextRank, NAssumption DEF Rank
    <2>2. ASSUME NEW r \in Rank, NEW q \in Rank, r < q
          PROVE  chan[r] + chan[q] <= 1
      <3>1. /\ chan[r] = sent[r] - recvd[next(r)]
            /\ chan[q] = sent[q] - recvd[next(q)]
        BY DEF StreamsCount
      <3>2. recvd[next(r)] >= sent[q]
        <4>1. next(r) \in Rank /\ next(r) # 0 /\ next(r) <= q
          BY <2>1, <2>2 DEF Rank
        <4>2. recvd[q] >= sent[q] /\ sent[q] \in Nat /\ recvd[q] \in Nat
          BY <2>2, Counters DEF Rank
        <4>3. CASE next(r) = q
          BY <4>2, <4>3
        <4>4. CASE next(r) < q
          BY <4>1, <4>2, <4>4, Counters DEF DownTheRing
        <4> QED
          BY <4>1, <4>3, <4>4 DEF Rank
      <3>3. sent[r] <= recvd[next(q)] + 1
        BY <2>1, BetweenRootCounters
      <3> QED
        BY <2>1, <3>1, <3>2, <3>3, BetweenRootCounters
    <2>3. \A r \in Rank : chan[r] \in Nat
      BY DEF TypeOK
    <2>4. ASSUME NEW r \in Rank
          PROVE  chan[r] <= 1
      BY <2>1, BetweenRootCounters DEF StreamsCount
    <2>5. ASSUME NEW r \in Rank, NEW q \in Rank \ {r}
          PROVE  chan[r] + chan[q] <= 1
      <3>1. CASE r < q
        BY <2>2, <3>1
      <3>2. CASE q < r
        BY <2>2, <2>3, <3>2
      <3> QED
        BY <3>1, <3>2 DEF Rank
    <2> QED
      BY <2>4, <2>5 DEF OneToken
  <1> QED
    BY <1>1, Invariance, PTL

\* No two ranks are more than two barriers apart, for every number of ranks.
THEOREM Skew == Spec => []BoundedSkew
  <1>1. IInv => BoundedSkew
    <2> SUFFICES ASSUME IInv, NEW r \in Rank, NEW q \in Rank
                 PROVE  entered[r] - entered[q] <= 2
      BY DEF BoundedSkew
    <2>1. entered[r] <= recvd[r] + 1 /\ sent[q] <= entered[q]
          /\ entered[r] \in Nat /\ entered[q] \in Nat
      BY Counters DEF IInv
    <2> QED
      BY <2>1, BetweenRootCounters
  <1> QED
    BY <1>1, Invariance, PTL

-----------------------------------------------------------------------------

LEMMA EnterRefines ==
  ASSUME IInv, NEW r \in Rank, Enter(r)
  PROVE  Abstract!Enter(r)
  <1>1. entered[r] = left[r] /\ entered[r] < MaxBarriers
    BY DEF Enter, left
  <1>2. left' = left
    BY MaxBarriersAssumption DEF IInv, TypeOK, Enter, left
  <1> QED
    BY <1>1, <1>2 DEF Abstract!Enter, Enter

LEMMA LeaveRefines ==
  ASSUME IInv, NEW r \in Rank, (Send(r) /\ r # 0) \/ (Recv(r) /\ r = 0)
  PROVE  Abstract!Leave(r)
  <1> USE DEF IInv
  <1>0. 0 \in Rank /\ prev(r) \in Rank
    BY PrevRank, NAssumption DEF Rank
  <1>1. left' = [left EXCEPT ![r] = @ + 1] /\ UNCHANGED entered
    <2>1. UNCHANGED entered /\ \A q \in Rank : q # r => pc'[q] = pc[q]
      BY DEF TypeOK, Send, Recv
    <2>2. pc[r] # "out" /\ pc'[r] = "out"
      BY DEF TypeOK, Send, Recv
    <2>3. entered[r] = (entered[r] - 1) + 1
      BY MaxBarriersAssumption DEF TypeOK
    <2> QED
      BY <2>1, <2>2, <2>3 DEF left
  <1>2. left[r] < entered[r]
    BY MaxBarriersAssumption DEF TypeOK, Send, Recv, left
  <1>3. \A q \in Rank : sent[q] \in Nat /\ recvd[q] \in Nat /\ entered[q] \in Nat
                        /\ (q # 0 => left[q] = sent[q] /\ sent[q] <= recvd[q])
    BY Counters
  <1>4. CASE Send(r) /\ r # 0
    <2>1. entered[r] = recvd[r] /\ 0 < r
      BY <1>4 DEF Send, recvd, Rank
    <2>2. \A q \in Rank : q < r => sent[q] >= entered[r]
      BY <2>1 DEF DownTheRing
    <2>3. entered[0] >= entered[r]
      BY <1>0, <1>3, <2>1, <2>2, Counters
    <2>4. \A q \in 1 .. r-1 : q \in Rank /\ q # 0 /\ q < r
      BY NAssumption DEF Rank
    <2>5. \A q \in Abstract!LeavesBefore(r) : left[q] >= entered[r]
      BY <1>3, <1>4, <2>2, <2>4 DEF Abstract!LeavesBefore
    <2> QED
      BY <1>1, <1>2, <2>3, <2>5 DEF Abstract!Leave
  <1>5. CASE Recv(r) /\ r = 0
    <2>1. entered[r] = recvd[r] + 1
      BY <1>5, MaxBarriersAssumption DEF Recv, recvd, TypeOK
    <2>2. prev(r) = N-1 /\ N-1 \in Rank /\ N-1 # 0 /\ next(N-1) = 0
      BY <1>0, <1>5, PrevRank, NextRank, NAssumption DEF Rank
    <2>3. sent[N-1] >= entered[r]
      <3>1. chan[N-1] > 0 /\ chan[N-1] = sent[N-1] - recvd[0]
        BY <1>5, <2>2 DEF Recv, StreamsCount
      <3>2. entered[r] = recvd[0] + 1
        BY <1>5, <2>1
      <3>3. sent[N-1] \in Nat /\ recvd[0] \in Nat
        BY <1>0, <1>3, <2>2
      <3>4. sent[N-1] - recvd[0] > 0
        BY <3>1
      <3> QED
        BY <3>2, <3>3, <3>4
    <2>4. ASSUME NEW q \in Rank, q # 0
          PROVE  left[q] >= entered[r]
      <3>1. CASE q = N-1
        BY <1>3, <2>2, <2>3, <2>4, <3>1
      <3>2. CASE q < N-1
        <4>1. sent[q] >= recvd[N-1] /\ recvd[N-1] >= sent[N-1]
          BY <1>3, <2>2, <3>2 DEF DownTheRing
        <4> QED
          BY <1>3, <2>2, <2>3, <2>4, <4>1
      <3> QED
        BY <3>1, <3>2, NAssumption DEF Rank
    <2>5. \A q \in Abstract!LeavesBefore(r) : left[q] >= entered[r]
      BY <1>5, <2>4 DEF Abstract!LeavesBefore, Abstract!Rank, Rank
    <2> QED
      BY <1>1, <1>2, <1>3, <1>5, <2>5 DEF Abstract!Leave
  <1> QED
    BY <1>4, <1>5

\* The steps inside a call leave the abstract state as it is.
LEMMA InnerStutters ==
  ASSUME IInv, NEW r \in Rank, (Send(r) /\ r = 0) \/ (Recv(r) /\ r # 0)
  PROVE  UNCHANGED <<entered, left>>
  BY MaxBarriersAssumption DEF IInv, TypeOK, Send, Recv, left

\* mpi_barrier_ring implements the ordered barrier, for every number of ranks.
THEOREM Refinement == Spec => ImplementsOrderedBarrier
  <1>1. Init => Abstract!Init
    BY DEF Init, left, Abstract!Init, Abstract!Rank, Rank
  <1>2. IInv /\ [Next]_vars => [Abstract!Next]_(Abstract!vars)
    <2> SUFFICES ASSUME IInv, [Next]_vars
                 PROVE  Abstract!Next \/ UNCHANGED Abstract!vars
      OBVIOUS
    <2> USE DEF Abstract!Next, Abstract!vars, Abstract!Rank, Rank
    <2>1. ASSUME NEW r \in Rank, Enter(r) PROVE Abstract!Next
      BY <2>1, EnterRefines
    <2>2. ASSUME NEW r \in Rank, Send(r)
          PROVE  Abstract!Next \/ UNCHANGED <<entered, left>>
      BY <2>2, LeaveRefines, InnerStutters
    <2>3. ASSUME NEW r \in Rank, Recv(r)
          PROVE  Abstract!Next \/ UNCHANGED <<entered, left>>
      BY <2>3, LeaveRefines, InnerStutters
    <2>4. CASE UNCHANGED vars
      BY <2>4 DEF vars, left
    <2> QED
      BY <2>1, <2>2, <2>3, <2>4 DEF Next
  <1> QED
    BY <1>1, <1>2, Invariance, PTL DEF Spec, Safety, ImplementsOrderedBarrier, Abstract!Spec
=============================================================================
