--------------------------- MODULE StartupProofs ---------------------------
(***************************************************************************)
(* Theorems about the start-up, for every number of ranks N >= 1, every    *)
(* number of CPUs, every size of the address maps and any failures.        *)
(***************************************************************************)
EXTENDS Startup, Counting

\* What a rank is, where the definition of Rank would be expanded too often.
LEMMA InRank == \A i : i \in Rank <=> i \in Int /\ 0 <= i /\ i < N
  BY NAssumption DEF Rank

\* The successor and the predecessor of a rank on the ring, without the
\* remainder.
LEMMA NextRank ==
  ASSUME NEW r \in Rank
  PROVE  next(r) \in Rank /\ next(r) = IF r = N-1 THEN 0 ELSE r + 1
  BY NAssumption DEF next, Rank

LEMMA PrevRank ==
  ASSUME NEW r \in Rank
  PROVE  prev(r) \in Rank /\ prev(r) = IF r = 0 THEN N-1 ELSE r - 1
  BY NAssumption DEF prev, Rank

\* The loop of a rank over the others stays in its range and passes it by.
LEMMA Loop ==
  ASSUME NEW r \in Rank
  PROVE  /\ First(r) \in 0 .. N /\ First(r) # r
         /\ \A i \in Rank \ {r} : After(r, i) \in 0 .. N /\ After(r, i) # r
         /\ \A i \in Rank \ {r}, j \in Rank \ {r} : j < After(r, i) => j < i \/ j = i
         /\ \A j \in Rank \ {r} : ~(j < First(r))
  BY NAssumption DEF First, After, Rank

\* There are finitely many pairs of ranks.
LEMMA FinitelyManyPairs == IsFiniteSet(Pairs)
  <1>1. IsFiniteSet(Rank)
    BY FS_Interval, NAssumption DEF Rank
  <1>2. IsFiniteSet(Rank \X Rank)
    BY <1>1, FS_Product
  <1> QED
    BY <1>2, FS_Subset DEF Pairs

\* An update of an address map: the key is in, or the map is full.
LEMMA Update ==
  ASSUME NEW map \in SUBSET Pairs, NEW key \in Pairs, entries \in Nat,
         Cardinality(map) <= entries
  PROVE  /\ Updated(map, key) \subseteq Pairs /\ map \subseteq Updated(map, key)
         /\ Cardinality(Updated(map, key)) <= entries
         /\ ~(Cardinality(map) < entries) => Updated(map, key) = map
         /\ key \in Updated(map, key) \/ ~(Cardinality(Updated(map, key)) < entries)
  <1>1. IsFiniteSet(map) /\ Cardinality(map) \in Nat
    BY FinitelyManyPairs, FS_Subset, FS_CardinalityType
  <1>2. key \notin map => Cardinality(map \cup {key}) = Cardinality(map) + 1
    BY <1>1, FS_AddElement
  <1>3. key \in map => map \cup {key} = map
    OBVIOUS
  <1> QED
    BY <1>1, <1>2, <1>3 DEF Updated

-----------------------------------------------------------------------------

LEMMA InitInvariant == Init => IInv
  <1> SUFFICES ASSUME Init PROVE IInv
    OBVIOUS
  <1>1. TypeOK
    BY NAssumption, MaxFailuresAssumption, Loop DEF Init, TypeOK, Labels, Rank, None
  <1>2. Unforked
    BY DEF Init, Unforked
  <1>3. TableInv
    BY Loop DEF Init, TableInv, Meshed, Labels, Rank, None
  <1>4. Cardinality(proc_to_address) = 0
    BY FS_EmptySet DEF Init
  <1>5. MapInv
    BY <1>1, <1>4, MapSizesAssumption DEF Init, MapInv, TypeOK
  <1>6. TokenInv /\ ChainInv
    BY DEF Init, TokenInv, ChainInv, Got
  <1> QED
    BY <1>1, <1>2, <1>3, <1>5, <1>6 DEF IInv

\* Where the loop of a rank is, while it is in one.
LEMMA LoopAt ==
  ASSUME TypeOK, TableInv, MapInv, NEW r \in Rank
  PROVE  /\ at[r] \in 0 .. N /\ at[r] # r
         /\ pc[r] \in {"address in", "proc in"} => at[r] < N
         /\ at[r] < N => /\ at[r] \in Rank \ {r}
                        /\ <<r, at[r]>> \in Pairs /\ <<at[r], r>> \in Pairs
  <1>1. at[r] \in 0 .. N
    BY DEF TypeOK
  <1>2. at[r] # r
    BY DEF TableInv
  <1>3. pc[r] \in {"address in", "proc in"} => at[r] < N
    BY DEF MapInv
  <1>4. at[r] < N => at[r] \in Rank \ {r}
    BY <1>1, <1>2, InRank, NAssumption
  <1> QED
    BY <1>1, <1>2, <1>3, <1>4 DEF Pairs

LEMMA TypeStep == IInv /\ [Next]_vars => TypeOK'
  <1> SUFFICES ASSUME IInv, [Next]_vars PROVE TypeOK'
    OBVIOUS
  <1> USE DEF IInv, TypeOK, GoTo, maps, machine
  <1>1. CASE Fork
    <2>1. forked' \in 0 .. N
      BY <1>1, NAssumption DEF Fork
    <2> QED
      BY <1>1, <2>1 DEF Fork, Labels
  <1>2. CASE ForkFails
    BY <1>2, NAssumption, MaxFailuresAssumption DEF ForkFails, Rank
  <1> SUFFICES ASSUME NEW r \in Rank, RankStep(r) \/ BindFails(r) \/ UNCHANGED vars
               PROVE  TypeOK'
    BY <1>1, <1>2 DEF Next, vars
  <1>3. CASE Listen(r)
    BY <1>3 DEF Listen, Labels
  <1>4. CASE BindFails(r)
    <2>1. failures' \in 0 .. MaxFailures
      BY <1>4, MaxFailuresAssumption DEF BindFails
    <2> QED
      BY <1>4, <2>1 DEF BindFails, Labels
  <1>5. CASE Connect(r)
    <2>1. at[r] \in Rank \ {r}
      BY <1>5, InRank, NAssumption DEF Connect, TableInv
    <2> QED
      BY <1>5, <2>1, Loop DEF Connect, Store
  <1>6. CASE Accept(r)
    <2>1. at[r] \in Rank \ {r} /\ Head(queue[r]) \in Rank /\ Tail(queue[r]) \in Seq(Rank)
      BY <1>6, InRank, NAssumption DEF Accept, TableInv
    <2> QED
      BY <1>6, <2>1, Loop DEF Accept, Store
  <1>7. CASE EndMesh(r)
    BY <1>7, Loop DEF EndMesh, Labels
  <1>8. CASE AddressOut(r) \/ AddressIn(r)
    <2>1. at[r] \in Rank \ {r}
      BY <1>8, LoopAt DEF AddressOut, AddressIn
    <2>2. <<r, at[r]>> \in Pairs /\ <<at[r], r>> \in Pairs
      BY <2>1, LoopAt, InRank
    <2>3. address_to_proc' \subseteq Pairs
      BY <1>8, <2>2 DEF AddressOut, AddressIn, Updated
    <2> QED
      BY <1>8, <2>1, <2>3, Loop DEF AddressOut, AddressIn, Labels
  <1>9. CASE ProcOut(r) \/ ProcIn(r)
    <2>1. at[r] \in Rank \ {r}
      BY <1>9, LoopAt DEF ProcOut, ProcIn
    <2>2. <<r, at[r]>> \in Pairs /\ <<at[r], r>> \in Pairs
      BY <2>1, LoopAt, InRank
    <2>3. proc_to_address' \subseteq Pairs
      BY <1>9, <2>2 DEF ProcOut, ProcIn, Updated
    <2> QED
      BY <1>9, <2>1, <2>3, Loop DEF ProcOut, ProcIn, Labels
  <1>10. CASE EndAddress(r) \/ EndProc(r)
    BY <1>10, Loop DEF EndAddress, EndProc, Labels
  <1>11. CASE Pin(r) \/ RecvFails(r)
    BY <1>11 DEF Pin, RecvFails, Labels
  <1>12. CASE Send(r)
    <2>1. next(r) \in Rank
      BY NextRank
    <2>2. stream' \subseteq Rank \X Rank
      BY <1>12, <2>1 DEF Send
    <2> QED
      BY <1>12, <2>2 DEF Send, Labels
  <1>13. CASE Recv(r)
    BY <1>13 DEF Recv, Labels
  <1>14. CASE UNCHANGED vars
    BY <1>14 DEF vars
  <1> QED
    BY <1>3, <1>4, <1>5, <1>6, <1>7, <1>8, <1>9, <1>10, <1>11, <1>12, <1>13, <1>14 DEF RankStep

-----------------------------------------------------------------------------

LEMMA UnforkedStep == IInv /\ [Next]_vars => Unforked'
  <1> SUFFICES ASSUME IInv, [Next]_vars, NEW q \in Rank, q >= forked'
               PROVE  pc'[q] = "unborn"
    BY DEF Unforked
  <1>0. /\ pc \in [Rank -> Labels] /\ forked \in Nat /\ q \in Nat
        /\ q >= forked => pc[q] = "unborn"
    BY NAssumption, InRank DEF IInv, TypeOK, Unforked
  <1>1. CASE Fork
    BY <1>0, <1>1 DEF Fork, GoTo
  <1>2. CASE ForkFails
    BY <1>0, <1>2 DEF ForkFails
  <1>3. ASSUME NEW r \in Rank, RankStep(r) \/ BindFails(r)
        PROVE  pc'[q] = "unborn"
    <2>1. /\ pc[r] # "unborn" /\ forked' = forked
          /\ q # r => pc'[q] = pc[q]
      BY <1>0, <1>3 DEF RankStep, BindFails, Listen, Connect, Accept, EndMesh, AddressOut,
         AddressIn, EndAddress, ProcOut, ProcIn, EndProc, Pin, Send, Recv, RecvFails, GoTo
    <2> QED
      BY <1>0, <2>1
  <1>4. CASE UNCHANGED vars
    BY <1>0, <1>4 DEF vars
  <1> QED
    BY <1>1, <1>2, <1>3, <1>4 DEF Next

\* The steps that leave the tables and the accept queues alone.  A rank that
\* they take past its loop over the table has a complete one.
LEMMA TableKept ==
  ASSUME IInv, UNCHANGED <<queue, table>>, pc' \in [Rank -> Labels],
         NEW r \in Rank,
         \A q \in Rank \ {r} : pc'[q] = pc[q] /\ at'[q] = at[q],
         at'[r] # r,
         Meshed(r)' => Meshed(r) \/ (pc[r] = "mesh" /\ at[r] >= N),
         pc'[r] = "mesh" => at'[r] = First(r),
         pc'[r] \in {"unborn", "sockets"} => at'[r] = First(r)
  PROVE  TableInv'
  <1> USE DEF IInv
  <1>1. \A i \in Rank : i # r /\ Meshed(r)' => table'[r][i] # None
    BY InRank, NAssumption DEF TableInv, TypeOK
  <1>2. \A i \in Rank : i # r /\ pc'[r] = "mesh" => ~(i < at'[r])
    BY Loop
  <1>3. \A q, i \in Rank : i # q /\ (Meshed(q)' \/ (pc'[q] = "mesh" /\ i < at'[q]))
                           => table'[q][i] # None
    BY <1>1, <1>2 DEF TableInv, Meshed
  <1>4. \A q \in Rank : at'[q] # q /\ table'[q][q] = None
    BY DEF TableInv
  <1>5. \A q \in Rank : pc'[q] \in {"unborn", "sockets"} => at'[q] = First(q)
    BY DEF TableInv
  <1> QED
    BY <1>3, <1>4, <1>5 DEF TableInv

\* Rank r stores a connection with rank q in place at[r].
LEMMA TableStored ==
  ASSUME IInv, UNCHANGED pc, NEW r \in Rank, pc[r] = "mesh", at[r] < N,
         NEW q \in Rank, Store(r, at[r], q),
         at[r] < r => q < r,
         r < at[r] => q = at[r],
         \A b \in Rank : \A k \in DOMAIN queue'[b] : queue'[b][k] < b
  PROVE  TableInv'
  <1> USE DEF IInv
  <1>1. at[r] \in Rank \ {r} /\ at[r] \in Int /\ r \in Int
    BY LoopAt, InRank
  <1>2. /\ table' = [table EXCEPT ![r][at[r]] = q]
        /\ at' = [at EXCEPT ![r] = After(r, at[r])]
        /\ table \in [Rank -> [Rank -> Rank \cup {None}]] /\ at \in [Rank -> 0 .. N]
    BY DEF Store, TypeOK
  <1>3. \A b, i \in Rank : table'[b][i] = IF b = r /\ i = at[r] THEN q ELSE table[b][i]
    BY <1>1, <1>2
  <1>4. \A b \in Rank : at'[b] = IF b = r THEN After(r, at[r]) ELSE at[b]
    BY <1>2
  <1>5. \A b \in Rank : at'[b] # b /\ table'[b][b] = None
    BY <1>1, <1>3, <1>4, Loop DEF TableInv
  <1>6. \A b, i \in Rank : i < b => table'[b][i] < b
    BY <1>3 DEF TableInv
  <1>7. \A b, i \in Rank : b < i => table'[b][i] \in {None, i}
    BY <1>3 DEF TableInv
  <1>8. \A b, i \in Rank : i # b /\ (Meshed(b)' \/ (pc'[b] = "mesh" /\ i < at'[b]))
                           => table'[b][i] # None
    <2> SUFFICES ASSUME NEW b \in Rank, NEW i \in Rank, i # b,
                        Meshed(b) \/ (pc[b] = "mesh" /\ i < at'[b])
                 PROVE  table'[b][i] # None
      BY DEF Meshed
    <2>1. q # None
      BY InRank DEF None
    <2>2. CASE b = r /\ i # at[r]
      <3>1. ~Meshed(b)
        BY <2>2 DEF Meshed
      <3>2. i < After(r, at[r]) /\ i \in Rank \ {r} /\ i # at[r]
        BY <1>4, <2>2, <3>1
      <3>3. i < at[r]
        BY <1>1, <3>2, Loop
      <3> QED
        BY <1>3, <2>2, <3>3 DEF TableInv
    <2>3. CASE b # r
      BY <1>3, <1>4, <2>3 DEF TableInv
    <2> QED
      BY <1>3, <2>1, <2>2, <2>3
  <1>9. \A b \in Rank : pc'[b] \in {"unborn", "sockets"} => at'[b] = First(b)
    BY <1>4 DEF TableInv
  <1> QED
    BY <1>5, <1>6, <1>7, <1>8, <1>9 DEF TableInv

LEMMA TableStep == IInv /\ [Next]_vars => TableInv'
  <1> SUFFICES ASSUME IInv, [Next]_vars PROVE TableInv'
    OBVIOUS
  <1>0. /\ pc \in [Rank -> Labels] /\ pc' \in [Rank -> Labels]
        /\ at \in [Rank -> 0 .. N] /\ at' \in [Rank -> 0 .. N]
    BY TypeStep DEF IInv, TypeOK
  <1>1. CASE Fork
    <2>0. forked \in 0 .. N
      BY DEF IInv, TypeOK
    <2>1. forked \in Rank /\ pc[forked] = "unborn"
      BY <1>1, <2>0, InRank, NAssumption DEF IInv, Unforked, Fork
    <2>2. at[forked] = First(forked) /\ at[forked] # forked
      BY <2>1 DEF IInv, TableInv
    <2> QED
      BY <1>0, <1>1, <2>1, <2>2, TableKept DEF Fork, GoTo, Meshed
  <1>2. CASE ForkFails \/ UNCHANGED vars
    BY <1>2 DEF ForkFails, vars, machine, IInv, TableInv, Meshed
  <1>3. ASSUME NEW r \in Rank, Connect(r)
        PROVE  TableInv'
    <2>1. at[r] \in Rank /\ r \in Int /\ at[r] \in Int
      BY <1>3, LoopAt, InRank DEF IInv, Connect
    <2>2. \A b \in Rank : \A k \in DOMAIN queue'[b] : queue'[b][k] < b
      <3>1. \A b \in Rank : queue[b] \in Seq(Rank) /\ \A k \in DOMAIN queue[b] : queue[b][k] < b
        BY DEF IInv, TypeOK, TableInv
      <3>2. queue' = [queue EXCEPT ![at[r]] = Append(@, r)] /\ queue \in [Rank -> Seq(Rank)]
        BY <1>3 DEF Connect, IInv, TypeOK
      <3>3. \A k \in DOMAIN Append(queue[at[r]], r) : Append(queue[at[r]], r)[k] < at[r]
        BY <1>3, <2>1, <3>1 DEF Connect
      <3> QED
        BY <2>1, <3>1, <3>2, <3>3
    <2> QED
      BY <1>3, <2>1, <2>2, TableStored DEF Connect
  <1>4. ASSUME NEW r \in Rank, Accept(r)
        PROVE  TableInv'
    <2>1. r \in Int /\ at[r] \in Int /\ at[r] < N
      BY <1>4, InRank, NAssumption DEF IInv, TypeOK, Accept
    <2>2. \A b \in Rank : queue[b] \in Seq(Rank) /\ \A k \in DOMAIN queue[b] : queue[b][k] < b
      BY DEF IInv, TypeOK, TableInv
    <2>3. queue' = [queue EXCEPT ![r] = Tail(@)] /\ queue \in [Rank -> Seq(Rank)]
      BY <1>4 DEF Accept, IInv, TypeOK
    <2>4. Head(queue[r]) \in Rank /\ Head(queue[r]) < r
      BY <1>4, <2>2 DEF Accept
    <2>5. \A k \in DOMAIN Tail(queue[r]) : Tail(queue[r])[k] < r
      BY <1>4, <2>2 DEF Accept
    <2>6. \A b \in Rank : \A k \in DOMAIN queue'[b] : queue'[b][k] < b
      BY <2>2, <2>3, <2>5
    <2>7. UNCHANGED pc /\ pc[r] = "mesh" /\ Store(r, at[r], Head(queue[r])) /\ at[r] < r
      BY <1>4 DEF Accept
    <2>8. at[r] < r => Head(queue[r]) < r
      BY <2>4
    <2>9. r < at[r] => Head(queue[r]) = at[r]
      BY <2>1, <2>7
    <2> QED
      BY <2>1, <2>4, <2>6, <2>7, <2>8, <2>9, TableStored
  <1>5. ASSUME NEW r \in Rank, Listen(r) \/ BindFails(r)
        PROVE  TableInv'
    <2>1. at[r] = First(r) /\ at[r] # r
      BY <1>5 DEF IInv, TableInv, Listen, BindFails
    <2> QED
      BY <1>0, <1>5, <2>1, TableKept DEF Listen, BindFails, GoTo, Meshed
  <1>6. ASSUME NEW r \in Rank, EndMesh(r) \/ EndAddress(r) \/ EndProc(r)
        PROVE  TableInv'
    <2>1. at'[r] # r
      BY <1>0, <1>6, Loop, LoopAt DEF IInv, EndMesh, EndAddress, EndProc
    <2> QED
      BY <1>0, <1>6, <2>1, TableKept DEF EndMesh, EndAddress, EndProc, GoTo, Meshed, Labels
  <1>7. ASSUME NEW r \in Rank, AddressOut(r) \/ AddressIn(r) \/ ProcOut(r) \/ ProcIn(r)
        PROVE  TableInv'
    <2>0. at[r] \in Rank \ {r} /\ (at'[r] = at[r] \/ at'[r] = After(r, at[r]))
      BY <1>0, <1>7, LoopAt DEF IInv, AddressOut, AddressIn, ProcOut, ProcIn
    <2>1. at'[r] # r
      BY <2>0, Loop
    <2> QED
      BY <1>0, <1>7, <2>1, TableKept DEF AddressOut, AddressIn, ProcOut, ProcIn, GoTo, Meshed, Labels
  <1>8. ASSUME NEW r \in Rank, Pin(r) \/ Send(r) \/ Recv(r) \/ RecvFails(r)
        PROVE  TableInv'
    <2>1. at'[r] # r
      BY <1>8, LoopAt DEF IInv, Pin, Send, Recv, RecvFails
    <2> QED
      BY <1>0, <1>8, <2>1, TableKept DEF Pin, Send, Recv, RecvFails, GoTo, Meshed, Labels
  <1> QED
    BY <1>1, <1>2, <1>3, <1>4, <1>5, <1>6, <1>7, <1>8 DEF Next, RankStep

-----------------------------------------------------------------------------

\* A pair that is registered, or finds the map full, does so for ever, and
\* either is so after an update.
LEMMA NotedStays ==
  ASSUME IInv, [Next]_vars
  PROVE  /\ \A a, b : Noted(a, b) => Noted(a, b)'
         /\ Cardinality(proc_to_address') <= entries' /\ entries' = entries
  <1>1. /\ proc_to_address \in SUBSET Pairs /\ entries \in Nat
        /\ Cardinality(proc_to_address) <= entries
    BY MapSizesAssumption DEF IInv, TypeOK, MapInv
  <1>2. ASSUME NEW r \in Rank, ProcOut(r) \/ ProcIn(r)
        PROVE  /\ \A a, b : Noted(a, b) => Noted(a, b)'
               /\ Cardinality(proc_to_address') <= entries' /\ entries' = entries
    <2>1. <<r, at[r]>> \in Pairs /\ <<at[r], r>> \in Pairs
      BY <1>2, LoopAt DEF IInv, ProcOut, ProcIn
    <2>2. PICK key \in Pairs : proc_to_address' = Updated(proc_to_address, key)
      BY <1>2, <2>1 DEF ProcOut, ProcIn
    <2>3. entries' = entries
      BY <1>2 DEF ProcOut, ProcIn, machine
    <2>4. /\ proc_to_address \subseteq proc_to_address'
          /\ Cardinality(proc_to_address') <= entries
          /\ ~(Cardinality(proc_to_address) < entries) => proc_to_address' = proc_to_address
      BY <1>1, <2>2, Update
    <2>5. ~Room => ~Room'
      BY <2>3, <2>4 DEF Room
    <2> QED
      BY <2>3, <2>4, <2>5 DEF Noted
  <1>3. CASE \A r \in Rank : ~ProcOut(r) /\ ~ProcIn(r)
    <2>1. UNCHANGED <<proc_to_address, entries>>
      BY <1>3 DEF Next, RankStep, vars, Fork, ForkFails, Listen, BindFails, Connect, Accept,
         EndMesh, AddressOut, AddressIn, EndAddress, EndProc, Pin, Send, Recv, RecvFails,
         machine, maps
    <2> QED
      BY <1>1, <2>1 DEF Noted, Room
  <1> QED
    BY <1>2, <1>3

\* The key of an update is registered by it, or finds the map full.
LEMMA NotedNow ==
  ASSUME IInv, NEW a, NEW b, <<a, b>> \in Pairs, UNCHANGED entries,
         proc_to_address' = Updated(proc_to_address, <<a, b>>)
  PROVE  Noted(a, b)'
  <1>1. /\ proc_to_address \in SUBSET Pairs /\ entries \in Nat
        /\ Cardinality(proc_to_address) <= entries
    BY MapSizesAssumption DEF IInv, TypeOK, MapInv
  <1>2. \/ <<a, b>> \in proc_to_address'
        \/ ~(Cardinality(proc_to_address') < entries)
    BY <1>1, Update
  <1> QED
    BY <1>2 DEF Noted, Room

\* What MapInv asks of one rank.
RankNoted(r) ==
  /\ pc[r] \in {"address in", "proc in"} => at[r] < N
  /\ pc[r] = "proc in" => Noted(r, at[r])
  /\ \A i \in Rank \ {r} :
       \/ pc[r] \in {"proc out", "proc in"} /\ i < at[r]
       \/ pc[r] \in {"pin", "send", "recv", "left", "failed"}
       => Noted(r, i) /\ Noted(i, r)

LEMMA MapStep == IInv /\ [Next]_vars => MapInv'
  <1> SUFFICES ASSUME IInv, [Next]_vars PROVE MapInv'
    OBVIOUS
  <1>0. /\ pc \in [Rank -> Labels] /\ at \in [Rank -> 0 .. N]
        /\ \A q \in Rank : RankNoted(q)
        /\ \A a, b : Noted(a, b) => Noted(a, b)'
    BY NotedStays DEF IInv, TypeOK, MapInv, RankNoted
  <1>1. SUFFICES \A q \in Rank : RankNoted(q)'
    BY NotedStays DEF MapInv, RankNoted
  <1>2. ASSUME NEW q \in Rank, pc'[q] = pc[q], at'[q] = at[q]
        PROVE  RankNoted(q)'
    BY <1>0, <1>2 DEF RankNoted
  <1>3. ASSUME NEW q \in Rank,
               pc'[q] \notin {"address in", "proc in", "proc out", "pin", "send", "recv",
                             "left", "failed"}
        PROVE  RankNoted(q)'
    BY <1>3 DEF RankNoted
  <1>4. CASE Fork
    BY <1>0, <1>2, <1>3, <1>4 DEF Fork, GoTo
  <1>5. CASE ForkFails \/ UNCHANGED vars
    BY <1>2, <1>5 DEF ForkFails, vars
  <1>6. ASSUME NEW r \in Rank, RankStep(r) \/ BindFails(r)
        PROVE  \A q \in Rank : RankNoted(q)'
    <2>1. \A q \in Rank \ {r} : pc'[q] = pc[q] /\ at'[q] = at[q]
      BY <1>0, <1>6 DEF RankStep, Listen, BindFails, Connect, Accept, Store, EndMesh,
         AddressOut, AddressIn, EndAddress, ProcOut, ProcIn, EndProc, Pin, Send, Recv,
         RecvFails, GoTo
    <2>2. SUFFICES RankNoted(r)'
      BY <1>2, <2>1
    <2>3. CASE Listen(r) \/ BindFails(r) \/ Connect(r) \/ Accept(r) \/ EndMesh(r) \/ AddressIn(r)
      BY <1>0, <1>3, <2>3 DEF Listen, BindFails, Connect, Accept, EndMesh, AddressIn, GoTo
    <2>4. CASE AddressOut(r)
      BY <1>0, <2>4 DEF AddressOut, GoTo, RankNoted
    <2>5. CASE EndAddress(r)
      BY <1>0, <2>5, Loop DEF EndAddress, GoTo, RankNoted
    <2>6. CASE ProcOut(r)
      <3>1. Noted(r, at[r])'
        BY <2>6, LoopAt, NotedNow DEF IInv, ProcOut, machine
      <3> QED
        BY <1>0, <2>6, <3>1 DEF ProcOut, GoTo, RankNoted
    <2>7. CASE ProcIn(r)
      <3>1. PICK j \in Rank \ {r} : j = at[r] /\ <<j, r>> \in Pairs /\ Noted(r, j)
        BY <1>0, <2>7, LoopAt DEF IInv, ProcIn, RankNoted
      <3>2. Noted(j, r)'
        BY <2>7, <3>1, NotedNow DEF ProcIn, machine
      <3>3. pc'[r] = "proc out" /\ at'[r] = After(r, j) /\ pc[r] = "proc in"
        BY <1>0, <2>7, <3>1 DEF ProcIn, GoTo
      <3>4. ASSUME NEW i \in Rank \ {r}, i < at'[r]
            PROVE  Noted(r, i)' /\ Noted(i, r)'
        <4>1. CASE i = j
          BY <1>0, <3>1, <3>2, <4>1
        <4>2. CASE i # j
          <5>0. i < After(r, j)
            BY <3>3, <3>4
          <5>1. i < at[r]
            BY <3>1, <4>2, <5>0, Loop
          <5>2. Noted(r, i) /\ Noted(i, r)
            BY <1>0, <3>3, <5>1 DEF RankNoted
          <5> QED
            BY <1>0, <5>2
        <4> QED
          BY <4>1, <4>2
      <3> QED
        BY <3>3, <3>4 DEF RankNoted
    <2>8. CASE EndProc(r)
      <3>0. at[r] \in 0 .. N /\ at[r] >= N
        BY <1>0, <2>8 DEF EndProc
      <3>1. \A i \in Rank : i < at[r]
        BY <3>0, InRank, NAssumption
      <3> QED
        BY <1>0, <2>8, <3>1 DEF EndProc, GoTo, RankNoted
    <2>9. CASE Pin(r) \/ Send(r) \/ Recv(r) \/ RecvFails(r)
      BY <1>0, <2>9 DEF Pin, Send, Recv, RecvFails, GoTo, RankNoted
    <2> QED
      BY <1>6, <2>3, <2>4, <2>5, <2>6, <2>7, <2>8, <2>9 DEF RankStep
  <1> QED
    BY <1>4, <1>5, <1>6 DEF Next

-----------------------------------------------------------------------------

\* What the barrier of a rank has done stays done, and its table is final.
LEMMA BarrierStays ==
  ASSUME IInv, [Next]_vars, NEW q \in Rank, Sent(q) \/ Got(q)
  PROVE  /\ table'[q] = table[q]
         /\ Sent(q) => Sent(q)'
         /\ Got(q) => Got(q)'
  <1>0. /\ pc \in [Rank -> Labels] /\ table \in [Rank -> [Rank -> Rank \cup {None}]]
        /\ forked \in 0 .. N
    BY DEF IInv, TypeOK
  <1>1. pc[q] \in {"send", "recv", "left", "failed"}
        /\ (q # 0 => pc[q] \in {"send", "left"})
    BY DEF Sent, Got
  <1>2. CASE Fork
    <2>1. forked \in Rank /\ pc[forked] = "unborn"
      BY <1>0, <1>2, InRank, NAssumption DEF IInv, Unforked, Fork
    <2> QED
      BY <1>0, <1>1, <1>2, <2>1 DEF Fork, GoTo, Sent, Got
  <1>3. CASE ForkFails \/ UNCHANGED vars
    BY <1>3 DEF ForkFails, vars, Sent, Got
  <1>4. ASSUME NEW r \in Rank, Connect(r) \/ Accept(r)
        PROVE  UNCHANGED pc /\ table'[q] = table[q]
    <2>1. UNCHANGED pc /\ pc[r] = "mesh" /\ table' = [table EXCEPT ![r] = table'[r]]
      BY <1>0, <1>4 DEF Connect, Accept, Store
    <2> QED
      BY <1>0, <1>1, <2>1
  <1>5. ASSUME NEW r \in Rank,
               \/ Listen(r) \/ BindFails(r) \/ EndMesh(r) \/ AddressOut(r) \/ AddressIn(r)
               \/ EndAddress(r) \/ ProcOut(r) \/ ProcIn(r) \/ EndProc(r) \/ Pin(r)
        PROVE  UNCHANGED table /\ pc'[q] = pc[q]
    <2>1. pc[r] \notin {"send", "recv", "left", "failed"} /\ UNCHANGED table
          /\ pc' = [pc EXCEPT ![r] = pc'[r]]
      BY <1>0, <1>5 DEF Listen, BindFails, EndMesh, AddressOut, AddressIn, EndAddress,
         ProcOut, ProcIn, EndProc, Pin, GoTo
    <2> QED
      BY <1>0, <1>1, <2>1
  <1>6. ASSUME NEW r \in Rank, Send(r) \/ Recv(r) \/ RecvFails(r)
        PROVE  UNCHANGED table /\ (Sent(q) => Sent(q)') /\ (Got(q) => Got(q)')
    BY <1>0, <1>1, <1>6 DEF Send, Recv, RecvFails, GoTo, Sent, Got
  <1> QED
    BY <1>2, <1>3, <1>4, <1>5, <1>6 DEF Next, RankStep, Sent, Got

LEMMA TokenStep == IInv /\ [Next]_vars => TokenInv'
  <1> SUFFICES ASSUME IInv, [Next]_vars, NEW q \in Rank, NEW s \in Rank, <<q, s>> \in stream'
               PROVE  Sent(q)' /\ table'[q][next(q)] = s
    BY DEF TokenInv
  <1>1. CASE <<q, s>> \in stream
    BY <1>1, BarrierStays DEF IInv, TokenInv
  <1>2. CASE <<q, s>> \notin stream
    <2>1. PICK r \in Rank : Send(r)
      BY <1>2 DEF Next, RankStep, vars, Fork, ForkFails, Listen, BindFails, Connect, Accept,
         EndMesh, AddressOut, AddressIn, EndAddress, ProcOut, ProcIn, EndProc, Pin, Recv,
         RecvFails
    <2>2. r = q /\ table[q][next(q)] = s
      BY <1>2, <2>1 DEF Send
    <2>3. pc'[q] = IF q = 0 THEN "recv" ELSE "left"
      BY <2>1, <2>2 DEF Send, GoTo, IInv, TypeOK
    <2>4. table' = table
      BY <2>1 DEF Send
    <2> QED
      BY <2>2, <2>3, <2>4 DEF Sent
  <1> QED
    BY <1>1, <1>2

\* Where a token comes from: the table of the receiver and that of the sender
\* agree on a connection only if it joins neighbours.
LEMMA FromPrev ==
  ASSUME IInv, NEW r \in Rank, <<From(r), r>> \in stream
  PROVE  From(r) = prev(r) /\ LinkRight(r) /\ Sent(prev(r))
  <1>1. PICK q \in Rank : /\ q = table[r][prev(r)]
                         /\ Sent(q) /\ table[q][next(q)] = r
    BY DEF IInv, TypeOK, TokenInv, From
  <1>2. q = prev(r)
    <2>1. /\ next(q) \in Rank /\ next(q) = IF q = N-1 THEN 0 ELSE q + 1
          /\ prev(r) \in Rank /\ prev(r) = IF r = 0 THEN N-1 ELSE r - 1
      BY NextRank, PrevRank
    <2>2. /\ \A b, i \in Rank : i < b => table[b][i] < b
          /\ \A b, i \in Rank : b < i => table[b][i] \in {None, i}
          /\ table[r][r] = None
      BY DEF IInv, TableInv
    <2>3. CASE q # N-1
      <3>1. q < next(q)
        BY <2>1, <2>3, InRank
      <3>2. r = next(q)
        BY <1>1, <2>1, <2>2, <3>1, InRank DEF None
      <3> QED
        BY <2>1, <2>3, <3>2, InRank
    <2>4. CASE q = N-1 /\ r # 0
      <3>1. prev(r) < r
        BY <2>1, <2>4, InRank
      <3>2. q < r
        BY <1>1, <2>1, <2>2, <3>1
      <3> QED
        BY <2>4, <3>2, InRank, NAssumption
    <2>5. CASE q = N-1 /\ r = 0
      BY <2>1, <2>5
    <2> QED
      BY <2>3, <2>4, <2>5
  <1>3. next(q) = r
    <2>1. /\ q \in Int /\ r \in Int /\ 0 <= r /\ r < N /\ N \in Nat
          /\ q = IF r = 0 THEN N-1 ELSE r - 1
          /\ next(q) = IF q = N-1 THEN 0 ELSE q + 1
      BY <1>2, NextRank, PrevRank, InRank, NAssumption
    <2> QED
      BY <2>1
  <1> QED
    BY <1>1, <1>2, <1>3 DEF From, LinkRight

LEMMA ChainStep == IInv /\ [Next]_vars => ChainInv'
  <1> SUFFICES ASSUME IInv, [Next]_vars, NEW r \in Rank, Got(r)'
               PROVE  /\ LinkRight(r)'
                      /\ \A q \in Rank : (q < r \/ r = 0) => Sent(q)'
    BY DEF ChainInv
  <1>0. /\ pc \in [Rank -> Labels]
        /\ prev(r) \in Rank /\ prev(r) = IF r = 0 THEN N-1 ELSE r - 1
    BY PrevRank DEF IInv, TypeOK
  <1>1. Got(r) \/ Recv(r)
    BY <1>0 DEF Got, Next, RankStep, vars, Fork, ForkFails, Listen, BindFails, Connect, Accept,
         EndMesh, AddressOut, AddressIn, EndAddress, ProcOut, ProcIn, EndProc, Pin, Send,
         Recv, RecvFails, GoTo
  <1>2. LinkRight(r) /\ \A q \in Rank : (q < r \/ r = 0) => Sent(q)
    <2>1. CASE Got(r)
      BY <2>1 DEF IInv, ChainInv
    <2>2. CASE Recv(r)
      <3>1. LinkRight(r) /\ Sent(prev(r))
        BY <2>2, FromPrev DEF Recv
      <3>2. ASSUME NEW q \in Rank, q < r \/ r = 0, q # prev(r), q # 0
            PROVE  Sent(q)
        <4>1. q < prev(r) /\ prev(r) # 0
          <5>1. q \in Int /\ r \in Int /\ 0 <= q /\ q < N /\ 0 <= r /\ N \in Nat
            BY InRank, NAssumption
          <5> QED
            BY <1>0, <3>2, <5>1
        <4>2. Got(prev(r))
          BY <3>1, <4>1 DEF Sent, Got
        <4> QED
          BY <1>0, <4>1, <4>2 DEF IInv, ChainInv
      <3>3. Sent(0)
        <4>1. CASE r = 0
          BY <2>2, <4>1 DEF Recv, Sent
        <4>2. CASE r # 0 /\ prev(r) = 0
          BY <3>1, <4>2
        <4>3. CASE r # 0 /\ prev(r) # 0
          <5>1. Got(prev(r)) /\ 0 < prev(r) /\ 0 \in Rank
            BY <1>0, <3>1, <4>3, InRank, NAssumption DEF Sent, Got
          <5> QED
            BY <1>0, <5>1 DEF IInv, ChainInv
        <4> QED
          BY <4>1, <4>2, <4>3
      <3> QED
        BY <3>1, <3>2, <3>3
    <2> QED
      BY <1>1, <2>1, <2>2
  <1>3. table'[r] = table[r]
    BY <1>1, BarrierStays DEF Recv
  <1>4. Sent(prev(r))
    <2>1. r \in Int /\ (r # 0 => prev(r) < r)
      BY <1>0, InRank
    <2> QED
      BY <1>0, <1>2, <2>1
  <1>5. table'[prev(r)] = table[prev(r)]
    BY <1>0, <1>4, BarrierStays
  <1> QED
    BY <1>2, <1>3, <1>5, BarrierStays DEF LinkRight

-----------------------------------------------------------------------------
(* The counting of the connections.                                        *)

LEMMA CountingTypes ==
  ASSUME TypeOK, NEW a \in Rank, NEW b \in Rank
  PROVE  /\ IsFiniteSet({i \in Rank : table[b][i] = a})
         /\ Stored(a, b) \in Nat /\ Waiting(a, b) \in Nat
         /\ Waiting(a, b) = Occurrences(queue[b], {a})
  <1>1. IsFiniteSet({i \in Rank : table[b][i] = a})
    <2>1. IsFiniteSet(Rank)
      BY FS_Interval, NAssumption DEF Rank
    <2>2. {i \in Rank : table[b][i] = a} \in SUBSET Rank
      OBVIOUS
    <2> QED
      BY <2>1, <2>2, FS_Subset
  <1>2. {k \in DOMAIN queue[b] : queue[b][k] = a} = {k \in DOMAIN queue[b] : queue[b][k] \in {a}}
    OBVIOUS
  <1>3. queue[b] \in Seq(Rank)
    BY DEF TypeOK
  <1> QED
    BY <1>1, <1>2, <1>3, OccurrencesType, FS_CardinalityType DEF Stored, Waiting, Occurrences

\* A change of the queue and of the table that leaves those of rank b alone,
\* and the entry of rank a for b, does not move the connection of a and b.
LEMMA SameCount ==
  ASSUME NEW a \in Rank, NEW b \in Rank,
         queue'[b] = queue[b], table'[b] = table[b]
  PROVE  Stored(a, b)' = Stored(a, b) /\ Waiting(a, b)' = Waiting(a, b)
  BY DEF Stored, Waiting

LEMMA MeshInit == Init => MeshInv
  <1> SUFFICES ASSUME Init PROVE MeshInv
    OBVIOUS
  <1>1. ASSUME NEW a \in Rank, NEW b \in Rank
        PROVE  Stored(a, b) = 0 /\ Waiting(a, b) = 0
    <2>1. {i \in Rank : table[b][i] = a} = {}
      BY InRank DEF Init, None
    <2>2. {k \in DOMAIN queue[b] : queue[b][k] = a} = {}
      BY DEF Init
    <2> QED
      BY <2>1, <2>2, FS_EmptySet DEF Stored, Waiting
  <1>2. \A r, i \in Rank : table[r][i] = None
    BY DEF Init
  <1> QED
    BY <1>1, <1>2, InRank DEF MeshInv, None

\* Rank r has connected to the higher rank its loop is at.
LEMMA MeshConnect ==
  ASSUME IInv, MeshInv, NEW r \in Rank, Connect(r)
  PROVE  \A a, b \in Rank : a < b =>
           (Stored(a, b) + Waiting(a, b))' = IF table'[a][b] = b THEN 1 ELSE 0
  <1> DEFINE s == at[r]
  <1>1. s \in Rank /\ r < s /\ s \in Int /\ r \in Int /\ s # None /\ pc[r] = "mesh"
    <2>1. r < s /\ s < N /\ pc[r] = "mesh"
      BY DEF Connect
    <2>2. s \in Rank
      BY <2>1, LoopAt DEF IInv
    <2> QED
      BY <2>1, <2>2, InRank DEF None
  <1>2. /\ queue' = [queue EXCEPT ![s] = Append(@, r)]
        /\ table' = [table EXCEPT ![r][s] = s]
        /\ table \in [Rank -> [Rank -> Rank \cup {None}]] /\ queue \in [Rank -> Seq(Rank)]
    BY DEF Connect, Store, IInv, TypeOK
  <1>3. table[r][s] = None
    BY <1>1 DEF MeshInv
  <1> HIDE DEF s
  <1> SUFFICES ASSUME NEW a \in Rank, NEW b \in Rank, a < b
               PROVE  (Stored(a, b) + Waiting(a, b))' = IF table'[a][b] = b THEN 1 ELSE 0
    OBVIOUS
  <1>4. a \in Int /\ b \in Int /\ Stored(a, b) \in Nat /\ Waiting(a, b) \in Nat
        /\ Stored(a, b) + Waiting(a, b) = IF table[a][b] = b THEN 1 ELSE 0
    BY InRank, CountingTypes DEF IInv, MeshInv
  <1>5. table'[a][b] = IF a = r /\ b = s THEN s ELSE table[a][b]
    BY <1>1, <1>2
  <1>6. Stored(a, b)' = Stored(a, b)
    <2>1. ASSUME NEW i \in Rank
          PROVE  table'[b][i] = a <=> table[b][i] = a
      <3>1. CASE b = r /\ i = s
        <4>1. table'[b][i] = s /\ table[b][i] = None
          BY <1>1, <1>2, <1>3, <3>1
        <4> QED
          BY <1>1, <1>4, <3>1, <4>1, InRank DEF None
      <3> QED
        BY <1>1, <1>2, <3>1
    <2> QED
      BY <2>1 DEF Stored
  <1>7. Waiting(a, b)' = Waiting(a, b) + IF a = r /\ b = s THEN 1 ELSE 0
    <2>1. CASE b # s
      <3>1. queue'[b] = queue[b]
        BY <1>2, <2>1
      <3> QED
        BY <1>4, <2>1, <3>1 DEF Waiting
    <2>2. CASE b = s
      <3>1. queue'[b] = Append(queue[b], r) /\ queue[b] \in Seq(Rank)
        BY <1>2, <2>2
      <3>2. Occurrences(Append(queue[b], r), {a})
              = Occurrences(queue[b], {a}) + IF r \in {a} THEN 1 ELSE 0
        BY <3>1, OccurrencesAppend
      <3>3. Waiting(a, b)' = Occurrences(queue'[b], {a})
        <4>1. {k \in DOMAIN queue'[b] : queue'[b][k] = a}
                = {k \in DOMAIN queue'[b] : queue'[b][k] \in {a}}
          OBVIOUS
        <4> QED
          BY <4>1 DEF Waiting, Occurrences
      <3>4. Waiting(a, b) = Occurrences(queue[b], {a})
        BY CountingTypes DEF IInv
      <3> QED
        BY <2>2, <3>1, <3>2, <3>3, <3>4
    <2> QED
      BY <2>1, <2>2
  <1>8. CASE a = r /\ b = s
    <2>1. table[a][b] # b
      BY <1>1, <1>3, <1>8
    <2> QED
      BY <1>4, <1>5, <1>6, <1>7, <1>8, <2>1
  <1>9. CASE ~(a = r /\ b = s)
    BY <1>4, <1>5, <1>6, <1>7, <1>9
  <1> QED
    BY <1>8, <1>9

\* Rank r has stored the oldest connection of its queue, whoever it is from.
LEMMA MeshAccept ==
  ASSUME IInv, MeshInv, NEW r \in Rank, Accept(r)
  PROVE  \A a, b \in Rank : a < b =>
           (Stored(a, b) + Waiting(a, b))' = IF table'[a][b] = b THEN 1 ELSE 0
  <1> DEFINE s == at[r]
             q == Head(queue[r])
  <1>1. /\ s \in Rank /\ s < r /\ s \in Int /\ r \in Int /\ pc[r] = "mesh"
        /\ queue[r] \in Seq(Rank) /\ queue[r] # <<>> /\ q \in Rank
    <2>1. s \in 0 .. N /\ s < r /\ r \in Int /\ r < N /\ N \in Nat
      BY InRank, NAssumption DEF IInv, TypeOK, Accept
    <2>2. queue[r] \in Seq(Rank) /\ queue[r] # <<>> /\ pc[r] = "mesh"
      BY DEF IInv, TypeOK, Accept
    <2> QED
      BY <2>1, <2>2, InRank
  <1>2. /\ queue' = [queue EXCEPT ![r] = Tail(@)]
        /\ table' = [table EXCEPT ![r][s] = q]
        /\ table \in [Rank -> [Rank -> Rank \cup {None}]] /\ queue \in [Rank -> Seq(Rank)]
    BY DEF Accept, Store, IInv, TypeOK
  <1>3. table[r][s] = None
    BY <1>1 DEF MeshInv
  <1> HIDE DEF s, q
  <1> SUFFICES ASSUME NEW a \in Rank, NEW b \in Rank, a < b
               PROVE  (Stored(a, b) + Waiting(a, b))' = IF table'[a][b] = b THEN 1 ELSE 0
    OBVIOUS
  <1>4. /\ a \in Int /\ b \in Int /\ Stored(a, b) \in Nat /\ Waiting(a, b) \in Nat
        /\ Stored(a, b) + Waiting(a, b) = IF table[a][b] = b THEN 1 ELSE 0
    BY InRank, CountingTypes DEF IInv, MeshInv
  <1>5. table'[a][b] = table[a][b]
    BY <1>1, <1>2, <1>4
  <1>6. CASE b # r
    <2>1. queue'[b] = queue[b] /\ table'[b] = table[b]
      BY <1>2, <1>6
    <2> QED
      BY <1>4, <1>5, <2>1, SameCount
  <1>7. CASE b = r
    <2>1. Stored(a, b)' = Stored(a, b) + IF q = a THEN 1 ELSE 0
      <3> DEFINE S == {i \in Rank : table[b][i] = a}
                 T == {i \in Rank : table'[b][i] = a}
      <3>1. IsFiniteSet(S) /\ Cardinality(S) \in Nat /\ s \notin S
        <4>1. IsFiniteSet(S)
          BY CountingTypes DEF IInv
        <4>2. None # a
          BY InRank DEF None
        <4> QED
          BY <1>3, <1>7, <4>1, <4>2, FS_CardinalityType
      <3>2. q = a => T = S \cup {s}
        BY <1>1, <1>2, <1>7
      <3>3. q # a => T = S
        BY <1>1, <1>2, <1>3, <1>7, InRank DEF None
      <3>4. Stored(a, b) = Cardinality(S) /\ Stored(a, b)' = Cardinality(T)
        BY DEF Stored
      <3> HIDE DEF S, T
      <3>5. IsFiniteSet(S) /\ s \notin S
        BY <3>1
      <3>6. Cardinality(S \cup {s}) = Cardinality(S) + 1
        BY <3>5, FS_AddElement
      <3>7. CASE q = a
        BY <3>2, <3>4, <3>6, <3>7
      <3>8. CASE q # a
        BY <3>1, <3>3, <3>4, <3>8
      <3> QED
        BY <3>7, <3>8
    <2>2. Waiting(a, b)' = Waiting(a, b) - IF q = a THEN 1 ELSE 0
      <3>1. queue'[b] = Tail(queue[b]) /\ queue[b] \in Seq(Rank) /\ queue[b] # <<>>
        BY <1>1, <1>2, <1>7
      <3>2. Occurrences(Tail(queue[b]), {a})
              = Occurrences(queue[b], {a}) - IF Head(queue[b]) \in {a} THEN 1 ELSE 0
        BY <3>1, OccurrencesTail
      <3>3. Waiting(a, b)' = Occurrences(queue'[b], {a})
        <4>1. {k \in DOMAIN queue'[b] : queue'[b][k] = a}
                = {k \in DOMAIN queue'[b] : queue'[b][k] \in {a}}
          OBVIOUS
        <4> QED
          BY <4>1 DEF Waiting, Occurrences
      <3>4. Waiting(a, b) = Occurrences(queue[b], {a})
        BY CountingTypes DEF IInv
      <3>5. Head(queue[b]) = q
        BY <1>7 DEF q
      <3> QED
        BY <3>1, <3>2, <3>3, <3>4, <3>5
    <2> QED
      BY <1>4, <1>5, <2>1, <2>2
  <1> QED
    BY <1>6, <1>7

\* The loop goes up: what is beyond it now was beyond it before.
LEMMA LoopUp ==
  ASSUME NEW r \in Rank, NEW i \in Rank \ {r}, NEW j \in Rank, j >= After(r, i)
  PROVE  j >= i /\ j # i
  BY NAssumption DEF After, Rank

LEMMA MeshStep == IInv /\ MeshInv /\ [Next]_vars => MeshInv'
  <1> SUFFICES ASSUME IInv, MeshInv, [Next]_vars PROVE MeshInv'
    OBVIOUS
  <1> DEFINE Unfilled(r) == \A i \in Rank :
               pc[r] \in {"unborn", "sockets", "mesh"} /\ i >= at[r] => table[r][i] = None
  <1>0. /\ pc \in [Rank -> Labels] /\ at \in [Rank -> 0 .. N]
        /\ table \in [Rank -> [Rank -> Rank \cup {None}]]
        /\ \A r \in Rank : Unfilled(r)
    BY DEF IInv, TypeOK, MeshInv
  <1>1. ASSUME NEW r \in Rank, Connect(r) \/ Accept(r)
        PROVE  MeshInv'
    <2>1. \A a, b \in Rank : a < b =>
            (Stored(a, b) + Waiting(a, b))' = IF table'[a][b] = b THEN 1 ELSE 0
      BY <1>1, MeshConnect, MeshAccept
    <2>2. at[r] \in Rank \ {r}
      <3>1. at[r] \in 0 .. N /\ at[r] # r /\ at[r] < N
        <4>1. at[r] < N \/ at[r] < r
          BY <1>1 DEF Connect, Accept
        <4>2. at[r] \in 0 .. N /\ at[r] # r
          BY LoopAt DEF IInv
        <4> QED
          BY <4>1, <4>2, InRank, NAssumption
      <3> QED
        BY <3>1, LoopAt DEF IInv
    <2>3. PICK q \in Rank \cup {None} : Store(r, at[r], q) /\ UNCHANGED pc /\ pc[r] = "mesh"
      <3>1. CASE Connect(r)
        BY <2>2, <3>1 DEF Connect
      <3>2. CASE Accept(r)
        <4>1. Head(queue[r]) \in Rank
          BY <3>2 DEF Accept, IInv, TypeOK
        <4> QED
          BY <3>2, <4>1 DEF Accept
      <3> QED
        BY <1>1, <3>1, <3>2
    <2>4. ASSUME NEW b \in Rank, NEW i \in Rank,
                 pc'[b] \in {"unborn", "sockets", "mesh"}, i >= at'[b]
          PROVE  table'[b][i] = None
      <3>1. CASE b # r
        BY <1>0, <2>3, <2>4, <3>1 DEF Store
      <3>2. CASE b = r
        <4>1. i >= After(r, at[r])
          BY <1>0, <2>3, <2>4, <3>2 DEF Store
        <4>2. i >= at[r] /\ i # at[r]
          BY <2>2, <4>1, LoopUp
        <4>3. table[r][i] = None
          BY <1>0, <2>3, <4>2
        <4>4. table'[r][i] = table[r][i]
          BY <1>0, <2>2, <2>3, <4>2 DEF Store
        <4> QED
          BY <3>2, <4>3, <4>4
      <3> QED
        BY <3>1, <3>2
    <2> QED
      BY <2>1, <2>4 DEF MeshInv
  <1>2. ASSUME UNCHANGED <<queue, table>>,
               \A r \in Rank : pc'[r] \in {"unborn", "sockets", "mesh"} =>
                                 pc[r] \in {"unborn", "sockets", "mesh"} /\ at'[r] = at[r]
        PROVE  MeshInv'
    <2>1. \A a, b \in Rank : Stored(a, b)' = Stored(a, b) /\ Waiting(a, b)' = Waiting(a, b)
      BY <1>2, SameCount
    <2> QED
      BY <1>2, <2>1 DEF MeshInv
  <1>3. CASE Fork
    <2>1. forked \in Rank /\ pc[forked] = "unborn"
      <3>1. forked \in 0 .. N /\ forked < N
        BY <1>3 DEF IInv, TypeOK, Fork
      <3>2. forked \in Rank
        BY <3>1, InRank, NAssumption
      <3> QED
        BY <3>1, <3>2, InRank DEF IInv, Unforked
    <2>2. \A r \in Rank : pc'[r] \in {"unborn", "sockets", "mesh"} =>
                            pc[r] \in {"unborn", "sockets", "mesh"} /\ at'[r] = at[r]
      BY <1>0, <1>3, <2>1 DEF Fork, GoTo
    <2> QED
      BY <1>2, <1>3, <2>2 DEF Fork
  <1>4. CASE ForkFails \/ UNCHANGED vars
    BY <1>2, <1>4 DEF ForkFails, vars
  <1>5. ASSUME NEW r \in Rank,
               \/ Listen(r) \/ BindFails(r) \/ EndMesh(r)
               \/ AddressOut(r) \/ AddressIn(r) \/ EndAddress(r)
               \/ ProcOut(r) \/ ProcIn(r) \/ EndProc(r)
               \/ Pin(r) \/ Send(r) \/ Recv(r) \/ RecvFails(r)
        PROVE  MeshInv'
    <2>1. UNCHANGED <<queue, table>>
      BY <1>5 DEF Listen, BindFails, EndMesh, AddressOut, AddressIn, EndAddress, ProcOut,
         ProcIn, EndProc, Pin, Send, Recv, RecvFails
    <2>2. \A q \in Rank : pc'[q] \in {"unborn", "sockets", "mesh"} =>
                            pc[q] \in {"unborn", "sockets", "mesh"} /\ at'[q] = at[q]
      BY <1>0, <1>5 DEF Listen, BindFails, EndMesh, AddressOut, AddressIn, EndAddress, ProcOut,
         ProcIn, EndProc, Pin, Send, Recv, RecvFails, GoTo
    <2> QED
      BY <1>2, <2>1, <2>2
  <1> QED
    BY <1>1, <1>3, <1>4, <1>5 DEF Next, RankStep

\* The queue of a rank is empty when it closes its server: its lower ranks are
\* as many as the places below its own, and no place holds the connection that
\* another holds.
LEMMA AllStored ==
  ASSUME IInv, MeshInv, NEW a \in Rank, NEW b \in Rank, a < b, Meshed(b)
  PROVE  Stored(a, b) = 1
  <1> DEFINE Lower == 0 .. b-1
             f == [i \in Lower |-> table[b][i]]
  <1>1. /\ b \in Int /\ a \in Int /\ 0 <= a /\ b < N
        /\ \A c \in Lower : c \in Rank /\ c \in Int /\ c < b
    BY InRank, NAssumption
  <1>2. ASSUME NEW i \in Lower
        PROVE  table[b][i] \in Lower
    <2>1. /\ table[b][i] \in Rank \cup {None} /\ table[b][i] < b
          /\ i # b => table[b][i] # None
      BY <1>1 DEF IInv, TypeOK, TableInv
    <2>2. i # b /\ b \in Int
      BY <1>1
    <2>3. table[b][i] \in Rank /\ table[b][i] < b
      BY <2>1, <2>2
    <2> QED
      BY <2>2, <2>3, InRank
  <1>3. ASSUME NEW c \in Lower
        PROVE  Stored(c, b) \in Nat /\ Stored(c, b) <= 1
    <2>1. /\ Stored(c, b) \in Nat /\ Waiting(c, b) \in Nat
          /\ Stored(c, b) + Waiting(c, b) = IF table[c][b] = b THEN 1 ELSE 0
      BY <1>1, CountingTypes DEF IInv, MeshInv
    <2> QED
      BY <2>1
  <1>4. ASSUME NEW i \in Lower, NEW j \in Lower, table[b][i] = table[b][j]
        PROVE  i = j
    <2> DEFINE c == table[b][i]
               S == {k \in Rank : table[b][k] = c}
    <2>1. c \in Lower
      BY <1>2
    <2>2. IsFiniteSet(S) /\ Cardinality(S) \in Nat /\ Cardinality(S) <= 1
      <3>1. c \in Rank
        BY <1>1, <2>1
      <3>2. Stored(c, b) = Cardinality(S)
        BY DEF Stored
      <3> QED
        BY <1>3, <2>1, <3>1, <3>2, CountingTypes DEF IInv
    <2>3. i \in S /\ j \in S
      BY <1>1, <1>4
    <2> HIDE DEF S
    <2>4. Cardinality(S) # 0
      BY <2>2, <2>3, FS_EmptySet
    <2>5. Cardinality(S) = 1
      BY <2>2, <2>4
    <2>6. PICK x : S = {x}
      BY <2>2, <2>5, FS_Singleton
    <2> QED
      BY <2>3, <2>6
  <1>5. f \in Injection(Lower, Lower)
    BY <1>2, <1>4 DEF Injection, IsInjective
  <1>6. IsFiniteSet(Lower)
    BY <1>1, FS_Interval
  <1>7. f \in Surjection(Lower, Lower)
    <2> HIDE DEF f, Lower
    <2> QED
      BY <1>5, <1>6, FS_Injection
  <1>8. PICK i \in Lower : table[b][i] = a
    <2>1. a \in Lower
      BY <1>1
    <2> QED
      BY <1>7, <2>1 DEF Surjection
  <1>9. Stored(a, b) # 0
    <2>1. i \in {k \in Rank : table[b][k] = a}
      BY <1>1, <1>8
    <2> QED
      BY <2>1, CountingTypes, FS_EmptySet DEF IInv, Stored
  <1> QED
    BY <1>1, <1>3, <1>9

-----------------------------------------------------------------------------
(* The theorems.                                                           *)

\* Every step keeps the inductive invariant.
THEOREM Invariance == Spec => []IInv
  <1>1. IInv /\ [Next]_vars => IInv'
    BY TypeStep, UnforkedStep, TableStep, MapStep, TokenStep, ChainStep DEF IInv
  <1> QED
    BY InitInvariant, <1>1, PTL DEF Spec, Safety

\* The variables stay in their types.
THEOREM TypeCorrect == Spec => []TypeOK
  <1>1. IInv => TypeOK
    BY DEF IInv
  <1> QED
    BY <1>1, Invariance, PTL

\* Once rank 0 has the token back every rank has had it, and had it from the
\* right connection.
LEMMA Gate == IInv => GateHolds
  <1> SUFFICES ASSUME IInv, pc[0] = "left", NEW r \in Rank
               PROVE  pc[r] = "left" /\ NeighboursRight(r)
    BY DEF GateHolds
  <1>1. \A q \in Rank : Sent(q)
    BY InRank, NAssumption DEF IInv, ChainInv, Got
  <1>2. \A q \in Rank : pc[q] = "left" /\ LinkRight(q)
    BY <1>1 DEF IInv, ChainInv, Sent, Got
  <1>3. next(r) \in Rank /\ prev(next(r)) = r
    <2>1. /\ next(r) \in Rank /\ next(r) = IF r = N-1 THEN 0 ELSE r + 1
          /\ prev(next(r)) = IF next(r) = 0 THEN N-1 ELSE next(r) - 1
          /\ r \in Int /\ 0 <= r /\ N \in Nat
      BY NextRank, PrevRank, InRank, NAssumption
    <2> QED
      BY <2>1
  <1> QED
    BY <1>2, <1>3 DEF NeighboursRight, LinkRight

\* A rank that is missing, or whose neighbours are swapped, stops all ranks
\* before the first broadcast.
THEOREM GateCorrect == Spec => []GateHolds
  BY Gate, Invariance, PTL

\* When the ranks broadcast, all pairs are registered or the map is full.
THEOREM RegisteredCorrect == Spec => []Registered
  <1>1. ASSUME IInv, pc[0] = "left", Room
        PROVE  proc_to_address = Pairs
    <2>1. ASSUME NEW a \in Rank, NEW b \in Rank, a # b
          PROVE  <<a, b>> \in proc_to_address
      BY <1>1, <2>1, Gate DEF GateHolds, IInv, MapInv, Noted
    <2> QED
      BY <1>1, <2>1 DEF IInv, TypeOK, Pairs
  <1>2. ASSUME IInv, ~Room
        PROVE  Cardinality(proc_to_address) = entries
    <2>1. Cardinality(proc_to_address) \in Nat /\ entries \in Nat
      BY <1>2, MapSizesAssumption, FinitelyManyPairs, FS_Subset, FS_CardinalityType
         DEF IInv, TypeOK
    <2>2. Cardinality(proc_to_address) <= entries /\ ~(Cardinality(proc_to_address) < entries)
      BY <1>2 DEF IInv, MapInv, Room
    <2> QED
      BY <2>1, <2>2
  <1>3. IInv => Registered
    BY <1>1, <1>2 DEF Registered
  <1> QED
    BY <1>3, Invariance, PTL

\* Every pair of ranks has one connection: accept never asks who it has
\* accepted, and still no connection is lost, stored twice or left in a queue
\* whose server is closed.
THEOREM ConnectionsCorrect == Spec => []OneConnectionPerPair
  <1>1. IInv /\ MeshInv => OneConnectionPerPair
    BY AllStored DEF OneConnectionPerPair, MeshInv, IInv, TableInv
  <1>2. Init => MeshInv
    BY MeshInit
  <1>3. Spec => []MeshInv
    BY <1>2, Invariance, MeshStep, PTL DEF Spec, Safety
  <1> QED
    BY <1>1, <1>3, Invariance, PTL

-----------------------------------------------------------------------------
(* The refinement.                                                         *)

\* The streams as the ring barrier counts them: a rank sends to one place.
LEMMA Chan ==
  ASSUME IInv, NEW r \in Rank
  PROVE  barrierChan[r] = IF <<r, table[r][next(r)]>> \in stream THEN 1 ELSE 0
  BY DEF IInv, TypeOK, TokenInv, barrierChan

\* A change of one place of a function of the ranks.
LEMMA OnePlace ==
  ASSUME NEW f, NEW g, NEW r \in Rank, NEW v,
         f = [q \in Rank |-> f[q]], g = [q \in Rank |-> g[q]],
         \A q \in Rank : g[q] = IF q = r THEN v ELSE f[q]
  PROVE  g = [f EXCEPT ![r] = v]
  OBVIOUS

LEMMA BarrierFunctions ==
  /\ barrierPc = [q \in Rank |-> barrierPc[q]] /\ barrierPc' = [q \in Rank |-> barrierPc'[q]]
  /\ barrierEntered = [q \in Rank |-> barrierEntered[q]]
  /\ barrierEntered' = [q \in Rank |-> barrierEntered'[q]]
  /\ barrierChan = [q \in Rank |-> barrierChan[q]]
  /\ barrierChan' = [q \in Rank |-> barrierChan'[q]]
  BY DEF barrierPc, barrierEntered, barrierChan

\* The names of the ring barrier mean what they mean here.
LEMMA SameRing ==
  /\ FirstBarrier!Rank = Rank
  /\ \A r : FirstBarrier!prev(r) = prev(r)
  BY DEF FirstBarrier!Rank, Rank, FirstBarrier!prev, prev

\* What the table and the socket of a rank do before and after the barrier is
\* not seen by it.
LEMMA BarrierStutters ==
  ASSUME IInv, UNCHANGED stream, NEW r \in Rank, pc' = [pc EXCEPT ![r] = pc'[r]],
         \/ {pc[r], pc'[r]} \subseteq Labels \ {"send", "recv", "failed", "left"}
         \/ pc[r] = "recv" /\ pc'[r] = "failed"
         \/ pc[r] = pc'[r]
  PROVE  UNCHANGED FirstBarrier!vars
  <1>0. pc \in [Rank -> Labels]
    BY DEF IInv, TypeOK
  <1>1. barrierPc' = barrierPc
    BY <1>0 DEF barrierPc, Labels
  <1>2. barrierEntered' = barrierEntered
    BY <1>0 DEF barrierEntered, Labels
  <1>3. barrierChan' = barrierChan
    BY DEF barrierChan
  <1> QED
    BY <1>1, <1>2, <1>3 DEF FirstBarrier!vars

LEMMA EnterRefines ==
  ASSUME IInv, NEW r \in Rank, Pin(r)
  PROVE  [FirstBarrier!Next]_(FirstBarrier!vars)
  <1>0. pc \in [Rank -> Labels] /\ UNCHANGED stream /\ pc[r] = "pin"
        /\ pc' = [pc EXCEPT ![r] = pc'[r]]
    BY DEF IInv, TypeOK, Pin, GoTo
  <1>1. CASE r >= cpus
    <2>1. pc'[r] = "exited"
      BY <1>0, <1>1 DEF Pin, GoTo
    <2> QED
      BY <1>0, <2>1, BarrierStutters DEF Labels
  <1>2. CASE ~(r >= cpus)
    <2>1. pc'[r] = IF r = 0 THEN "send" ELSE "recv"
      BY <1>0, <1>2 DEF Pin, GoTo
    <2>2. barrierPc[r] = "out" /\ barrierEntered[r] = 0
      BY <1>0 DEF barrierPc, barrierEntered
    <2>3. barrierPc' = [barrierPc EXCEPT ![r] = IF r = 0 THEN "send" ELSE "recv"]
      BY <1>0, <2>1 DEF barrierPc
    <2>4. barrierEntered' = [barrierEntered EXCEPT ![r] = @ + 1]
      <3>1. \A q \in Rank : barrierEntered'[q] = IF q = r THEN 1 ELSE barrierEntered[q]
        BY <1>0, <2>1 DEF barrierEntered
      <3>2. barrierEntered' = [barrierEntered EXCEPT ![r] = 1]
        BY <3>1, OnePlace, BarrierFunctions
      <3> QED
        BY <2>2, <3>2
    <2>5. barrierChan' = barrierChan
      BY <1>0 DEF barrierChan
    <2>6. FirstBarrier!Enter(r)
      BY <2>2, <2>3, <2>4, <2>5 DEF FirstBarrier!Enter
    <2> QED
      BY <2>6, SameRing DEF FirstBarrier!Next
  <1> QED
    BY <1>1, <1>2

LEMMA SendRefines ==
  ASSUME IInv, [Next]_vars, N >= 2, NEW r \in Rank, Send(r)
  PROVE  FirstBarrier!Next
  <1>0. pc \in [Rank -> Labels] /\ pc[r] = "send"
        /\ pc' = [pc EXCEPT ![r] = pc'[r]]
        /\ pc'[r] = IF r = 0 THEN "recv" ELSE "left"
    <2>1. pc \in [Rank -> Labels] /\ pc[r] = "send"
      BY DEF IInv, TypeOK, Send
    <2>2. pc' = [pc EXCEPT ![r] = IF r = 0 THEN "recv" ELSE "left"]
      BY DEF Send, GoTo
    <2> QED
      BY <2>1, <2>2
  <1>1. table[r][next(r)] # None
    <2>1. next(r) \in Rank /\ next(r) # r
      BY NextRank, InRank, NAssumption
    <2> QED
      BY <1>0, <2>1 DEF IInv, TableInv, Meshed, Labels
  <1>2. stream' = stream \cup {<<r, table[r][next(r)]>>}
    BY <1>1 DEF Send
  <1>3. \A q \in Rank : <<r, q>> \notin stream
    BY <1>0 DEF IInv, TokenInv, Sent
  <1>4. table[r][next(r)] \in Rank
    BY <1>1, NextRank DEF IInv, TypeOK
  <1>5. barrierChan' = [barrierChan EXCEPT ![r] = @ + 1]
    <2>1. \A q \in Rank : barrierChan'[q] = IF q = r THEN 1 ELSE barrierChan[q]
      BY <1>2, <1>4 DEF barrierChan
    <2>2. barrierChan[r] = 0
      BY <1>3 DEF barrierChan
    <2>3. barrierChan' = [barrierChan EXCEPT ![r] = 1]
      BY <2>1, OnePlace, BarrierFunctions
    <2> QED
      BY <2>2, <2>3
  <1>6. barrierPc[r] = "send"
        /\ barrierPc' = [barrierPc EXCEPT ![r] = IF r = 0 THEN "recv" ELSE "out"]
    BY <1>0 DEF barrierPc
  <1>7. barrierEntered' = barrierEntered
    BY <1>0 DEF barrierEntered
  <1>8. FirstBarrier!Send(r)
    BY <1>5, <1>6, <1>7 DEF FirstBarrier!Send
  <1> QED
    BY <1>8, SameRing DEF FirstBarrier!Next

LEMMA RecvRefines ==
  ASSUME IInv, [Next]_vars, NEW r \in Rank, Recv(r)
  PROVE  FirstBarrier!Next
  <1>0. pc \in [Rank -> Labels] /\ pc[r] = "recv"
        /\ pc' = [pc EXCEPT ![r] = pc'[r]]
        /\ pc'[r] = IF r = 0 THEN "left" ELSE "send"
    <2>1. pc \in [Rank -> Labels] /\ pc[r] = "recv"
      BY DEF IInv, TypeOK, Recv
    <2>2. pc' = [pc EXCEPT ![r] = IF r = 0 THEN "left" ELSE "send"]
      BY DEF Recv, GoTo
    <2> QED
      BY <2>1, <2>2
  <1>1. prev(r) \in Rank /\ From(r) = prev(r) /\ <<prev(r), r>> \in stream
        /\ stream' = stream \ {<<prev(r), r>>}
    BY FromPrev, PrevRank DEF Recv
  <1>2. \A q \in Rank : <<prev(r), q>> \in stream => q = r
    BY <1>1 DEF IInv, TokenInv
  <1>3. barrierChan[prev(r)] = 1
        /\ barrierChan' = [barrierChan EXCEPT ![prev(r)] = @ - 1]
    <2>1. barrierChan[prev(r)] = 1
      BY <1>1 DEF barrierChan
    <2>2. \A q \in Rank : barrierChan'[q] = IF q = prev(r) THEN 0 ELSE barrierChan[q]
      BY <1>1, <1>2 DEF barrierChan
    <2>3. barrierChan' = [barrierChan EXCEPT ![prev(r)] = 0]
      BY <1>1, <2>2, OnePlace, BarrierFunctions
    <2> QED
      BY <2>1, <2>3
  <1>4. barrierPc[r] = "recv"
        /\ barrierPc' = [barrierPc EXCEPT ![r] = IF r = 0 THEN "out" ELSE "send"]
    BY <1>0 DEF barrierPc
  <1>5. barrierEntered' = barrierEntered
    BY <1>0 DEF barrierEntered
  <1>6. FirstBarrier!Recv(r)
    <2>1. FirstBarrier!prev(r) = prev(r) /\ barrierChan[prev(r)] > 0
      BY <1>3, SameRing
    <2> QED
      BY <1>3, <1>4, <1>5, <2>1 DEF FirstBarrier!Recv
  <1> QED
    BY <1>6, SameRing DEF FirstBarrier!Next

\* The first barrier of two or more ranks is one round of mpi_barrier_ring,
\* whatever the tables hold and whoever exits.
THEOREM Refinement == ASSUME N >= 2 PROVE Spec => RunsTheBarrier
  <1>1. Init => FirstBarrier!Init
    BY DEF Init, FirstBarrier!Init, FirstBarrier!Rank, Rank, barrierPc, barrierEntered,
       barrierChan
  <1>2. ASSUME IInv, [Next]_vars
        PROVE  [FirstBarrier!Next]_(FirstBarrier!vars)
    <2>0. pc \in [Rank -> Labels] /\ forked \in 0 .. N
      BY <1>2 DEF IInv, TypeOK
    <2>1. CASE Fork
      <3>1. forked \in Rank /\ pc[forked] = "unborn"
        BY <1>2, <2>0, <2>1, InRank, NAssumption DEF IInv, Unforked, Fork
      <3> QED
        BY <1>2, <2>0, <2>1, <3>1, BarrierStutters DEF Fork, GoTo, Labels
    <2>2. CASE ForkFails \/ UNCHANGED vars
      BY <2>2 DEF ForkFails, vars, FirstBarrier!vars, barrierPc, barrierEntered, barrierChan
    <2>3. ASSUME NEW r \in Rank,
                 \/ Listen(r) \/ BindFails(r) \/ Connect(r) \/ Accept(r) \/ EndMesh(r)
                 \/ AddressOut(r) \/ AddressIn(r) \/ EndAddress(r)
                 \/ ProcOut(r) \/ ProcIn(r) \/ EndProc(r) \/ RecvFails(r)
          PROVE  UNCHANGED FirstBarrier!vars
      BY <1>2, <2>0, <2>3, BarrierStutters DEF Listen, BindFails, Connect, Accept, EndMesh,
         AddressOut, AddressIn, EndAddress, ProcOut, ProcIn, EndProc, RecvFails, GoTo, Labels
    <2> QED
      BY <1>2, <2>1, <2>2, <2>3, EnterRefines, SendRefines, RecvRefines DEF Next, RankStep
  <1> QED
    BY <1>1, <1>2, Invariance, PTL DEF Spec, Safety, RunsTheBarrier, FirstBarrier!Safety
=============================================================================
