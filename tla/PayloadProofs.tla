--------------------------- MODULE PayloadProofs ---------------------------
(***************************************************************************)
(* Theorems about one payload, for every size of datagram, header and      *)
(* payload, every type, and any number of failures.                        *)
(***************************************************************************)
EXTENDS Payload, FiniteSetTheorems, TLAPS

\* Arithmetic that the provers need told.
LEMMA Multiples ==
  ASSUME NEW a \in Int, NEW b \in Int, NEW p \in Nat, a <= b
  PROVE  a * p <= b * p
  OBVIOUS

LEMMA Ceiling ==
  ASSUME NEW s \in Nat \ {0}, NEW p \in Nat \ {0}, NEW n, n = (s + p - 1) \div p
  PROVE  n \in Nat \ {0} /\ (n-1) * p < s /\ s <= n * p
  OBVIOUS

LEMMA Constants ==
  /\ PAYLOAD_SIZE \in Nat \ {0} /\ MPI_HEADER \in Nat \ {0} /\ MAX_PAYLOAD \in Nat
  /\ MAX_PAYLOAD = PAYLOAD_SIZE + MPI_HEADER
  BY HeaderAssumption, MaxPayloadAssumption DEF PAYLOAD_SIZE

\* The arguments of the calls.
Arguments == datatype \in Datatypes /\ count \in Counts /\ no_ack \in BOOLEAN

LEMMA Sizes ==
  ASSUME Arguments
  PROVE  /\ Width(datatype) \in {1, 2, 4, 8, 16}
         /\ count \in Nat \ {0} /\ size = count * Width(datatype) /\ size \in Nat \ {0}
  <1>1. Width(datatype) \in {1, 2, 4, 8, 16}
    BY DatatypesAssumption DEF Arguments, Width, AllDatatypes
  <1>2. count \in Nat \ {0}
    BY CountsAssumption DEF Arguments
  <1>3. size = count * Width(datatype)
    BY DEF size, datatype_size_in_bytes
  <1>4. size \in Nat \ {0}
    BY <1>1, <1>2, <1>3
  <1> QED
    BY <1>1, <1>2, <1>3, <1>4

\* How the payload is cut: into as many pieces as it fills, all full but perhaps
\* the last, which is not empty.
LEMMA Cutting ==
  ASSUME Arguments
  PROVE  /\ Pieces \in Nat \ {0}
         /\ Last \in 1 .. PAYLOAD_SIZE /\ size = (Pieces-1) * PAYLOAD_SIZE + Last
         /\ CutByReceiver <=> size > PAYLOAD_SIZE
         /\ CutByReceiver => CutBySender
         /\ ~CutByReceiver => Pieces = 1 /\ Last = size
  <1>1. /\ Pieces \in Nat \ {0} /\ (Pieces-1) * PAYLOAD_SIZE < size
        /\ size <= Pieces * PAYLOAD_SIZE
    BY Sizes, Constants, Ceiling DEF Pieces
  <1>2. Pieces * PAYLOAD_SIZE = (Pieces-1) * PAYLOAD_SIZE + PAYLOAD_SIZE
    BY <1>1, Constants
  <1>3. (Pieces-1) * PAYLOAD_SIZE \in Int /\ Pieces * PAYLOAD_SIZE \in Int
    BY <1>1, Constants
  <1>4. Last \in 1 .. PAYLOAD_SIZE /\ size = (Pieces-1) * PAYLOAD_SIZE + Last
    BY <1>1, <1>2, <1>3, Sizes, Constants DEF Last
  <1>5. CutByReceiver <=> size > PAYLOAD_SIZE
    BY Sizes, Constants DEF CutByReceiver
  <1>6. CutByReceiver => CutBySender
    BY Sizes, Constants DEF CutByReceiver, CutBySender
  <1>7. ASSUME ~CutByReceiver
        PROVE  Pieces = 1 /\ Last = size
    <2>1. ASSUME Pieces >= 2
          PROVE  FALSE
      <3>1. 1 * PAYLOAD_SIZE <= (Pieces-1) * PAYLOAD_SIZE
        BY <1>1, <2>1, Constants, Multiples
      <3> QED
        BY <1>1, <1>3, <1>5, <1>7, <3>1, Sizes, Constants
    <2>2. Pieces = 1
      BY <1>1, <2>1
    <2> QED
      BY <1>4, <2>2, Sizes, Constants
  <1> QED
    BY <1>1, <1>4, <1>5, <1>6, <1>7

LEMMA Lengths ==
  ASSUME Arguments, NEW k \in 0 .. Pieces-1
  PROVE  /\ Length(k) \in 1 .. PAYLOAD_SIZE
         /\ k * PAYLOAD_SIZE \in Nat /\ k * PAYLOAD_SIZE + Length(k) <= size
         /\ k < Pieces-1 => /\ Length(k) = PAYLOAD_SIZE
                            /\ k * PAYLOAD_SIZE + PAYLOAD_SIZE < size
                            /\ (k+1) * PAYLOAD_SIZE = k * PAYLOAD_SIZE + PAYLOAD_SIZE
         /\ k = Pieces-1 => Length(k) = Last /\ k * PAYLOAD_SIZE + Last = size
  <1>1. k \in Nat /\ Pieces \in Nat /\ Last \in 1 .. PAYLOAD_SIZE
    BY Cutting
  <1>2. k * PAYLOAD_SIZE \in Nat
    BY <1>1, Constants
  <1>3. CASE k = Pieces-1
    BY <1>1, <1>2, <1>3, Cutting, Constants, Sizes DEF Length
  <1>4. CASE k < Pieces-1
    <2>1. (k+1) * PAYLOAD_SIZE = k * PAYLOAD_SIZE + PAYLOAD_SIZE
      BY <1>1, Constants
    <2>2. (k+1) * PAYLOAD_SIZE <= (Pieces-1) * PAYLOAD_SIZE
      BY <1>1, <1>4, Constants, Multiples
    <2>3. Length(k) = PAYLOAD_SIZE
      BY <1>4 DEF Length
    <2>4. (Pieces-1) * PAYLOAD_SIZE < size /\ (Pieces-1) * PAYLOAD_SIZE \in Int
      BY <1>1, Cutting, Constants
    <2> QED
      BY <1>1, <1>2, <1>4, <2>1, <2>2, <2>3, <2>4, Constants, Sizes
  <1> QED
    BY <1>1, <1>3, <1>4

\* The sender's loop cuts where the pieces are, and goes on while one is left.
LEMMA CutIsLength ==
  ASSUME Arguments, seq \in 0 .. Pieces-1
  PROVE  /\ Cut = Length(seq) /\ Start = seq * PAYLOAD_SIZE
         /\ Start + PAYLOAD_SIZE < size <=> seq < Pieces-1
  <1>1. Start = seq * PAYLOAD_SIZE /\ Start \in Nat
    BY Lengths DEF Start
  <1>2. seq \in Int /\ Pieces \in Int /\ seq <= Pieces-1
    BY Cutting
  <1>3. CASE seq < Pieces-1
    BY <1>1, <1>3, Lengths, Sizes, Constants DEF Cut, Length
  <1>4. CASE seq = Pieces-1
    BY <1>1, <1>4, Lengths, Cutting, Sizes, Constants DEF Cut, Length
  <1> QED
    BY <1>2, <1>3, <1>4

-----------------------------------------------------------------------------

\* Byte order.  A byte of an element of width w goes to one of the same element,
\* and comes back to where it was, unless it is lost.
At(w, j) == (j \div w) * w + Swapped(w, j % w)

LEMMA ByteSwapped ==
  ASSUME NEW w \in {1, 2, 4, 8, 16}, NEW j \in Nat
  PROVE  /\ At(w, j) \in Nat
         /\ (w = 16 => j % 16 < 8) => At(w, At(w, j)) = j
         /\ \A n \in Nat : j < n * w => At(w, j) < n * w
  <1>1. CASE w = 1
    BY <1>1 DEF At, Swapped
  <1>2. CASE w = 2
    BY <1>2 DEF At, Swapped
  <1>3. CASE w = 4
    BY <1>3 DEF At, Swapped
  <1>4. CASE w = 8
    BY <1>4 DEF At, Swapped
  <1>5. CASE w = 16
    BY <1>5 DEF At, Swapped
  <1> QED
    BY <1>1, <1>2, <1>3, <1>4, <1>5

\* One byte wide, data stays as it is.
LEMMA OneByte ==
  ASSUME NEW len \in Nat, NEW data \in [0 .. len-1 -> Byte]
  PROVE  generic_hton(data, 1) = data /\ generic_ntoh(data, 1) = data
  <1>1. \A j \in 0 .. len-1 : (j \div 1) * 1 + Swapped(1, j % 1) = j
    BY DEF Swapped
  <1>2. DOMAIN data = 0 .. len-1
    OBVIOUS
  <1> QED
    BY <1>1, <1>2 DEF generic_hton, generic_ntoh

\* Elements of any width come out as they went in.
LEMMA RoundTrip ==
  ASSUME NEW n \in Nat, NEW w \in {1, 2, 4, 8, 16}, NEW len \in Nat, len = n * w,
         NEW data \in [0 .. len-1 -> Byte]
  PROVE  /\ generic_hton(data, w) \in [0 .. len-1 -> Byte]
         /\ generic_ntoh(generic_hton(data, w), w) \in [0 .. len-1 -> Byte]
         /\ \A j \in 0 .. len-1 : (w = 16 => j % 16 < 8) =>
              generic_ntoh(generic_hton(data, w), w)[j] = data[j]
  <1> DEFINE there == generic_hton(data, w)
             back == generic_ntoh(there, w)
  <1>1. \A j \in 0 .. len-1 : At(w, j) \in 0 .. len-1
    <2> SUFFICES ASSUME NEW j \in 0 .. len-1
                 PROVE  At(w, j) \in 0 .. len-1
      OBVIOUS
    <2>1. j \in Nat /\ j < len
      OBVIOUS
    <2>2. At(w, j) \in Nat /\ At(w, j) < len
      BY <2>1, ByteSwapped
    <2> QED
      BY <2>2
  <1>2. \A j \in 0 .. len-1 : (w = 16 => j % 16 < 8) => At(w, At(w, j)) = j
    <2> SUFFICES ASSUME NEW j \in 0 .. len-1, w = 16 => j % 16 < 8
                 PROVE  At(w, At(w, j)) = j
      OBVIOUS
    <2>1. j \in Nat
      OBVIOUS
    <2> QED
      BY <2>1, ByteSwapped
  <1>3. there = [j \in 0 .. len-1 |-> data[At(w, j)]]
    BY DEF generic_hton, At
  <1> HIDE DEF there
  <1>4. there \in [0 .. len-1 -> Byte]
    BY <1>1, <1>3
  <1>5. back = [j \in 0 .. len-1 |-> there[At(w, j)]]
    BY <1>4 DEF generic_ntoh, At
  <1> HIDE DEF back
  <1>6. back \in [0 .. len-1 -> Byte]
    BY <1>1, <1>4, <1>5
  <1>7. \A j \in 0 .. len-1 : (w = 16 => j % 16 < 8) => back[j] = data[j]
    BY <1>1, <1>2, <1>3, <1>5
  <1> QED
    BY <1>4, <1>6, <1>7 DEF back, there

-----------------------------------------------------------------------------

\* The payload and its parts.
LEMMA PayloadType ==
  ASSUME Arguments
  PROVE  payload \in [0 .. size-1 -> Byte]
  BY DEF payload, Byte

LEMMA PieceType ==
  ASSUME Arguments, NEW k \in 0 .. Pieces-1
  PROVE  /\ Piece(k) \in [0 .. Length(k)-1 -> Byte]
         /\ \A j \in 0 .. Length(k)-1 : k * PAYLOAD_SIZE + j \in 0 .. size-1
  <1>1. \A j \in 0 .. Length(k)-1 : k * PAYLOAD_SIZE + j \in 0 .. size-1
    BY Lengths, Sizes, Constants
  <1> QED
    BY <1>1, PayloadType DEF Piece

\* In a datagram of its own it arrives as it was, but for what a long double loses.
LEMMA WholePart ==
  ASSUME Arguments
  PROVE  /\ Part(0, size) \in Data(size)
         /\ generic_ntoh(Part(0, size), Width(datatype)) \in Data(size)
         /\ \A j \in 0 .. size-1 : Survives(j) =>
              generic_ntoh(Part(0, size), Width(datatype))[j] = payload[j]
  <1>1. payload = [j \in 0 .. size-1 |-> payload[0 + j]]
    <2>1. DOMAIN payload = 0 .. size-1
      BY PayloadType
    <2>2. \A j \in 0 .. size-1 : 0 + j = j
      OBVIOUS
    <2> QED
      BY <2>1, <2>2, PayloadType
  <1>2. Part(0, size) = generic_hton(payload, Width(datatype))
    BY <1>1 DEF Part
  <1> DEFINE w == Width(datatype)
             back == generic_ntoh(generic_hton(payload, w), w)
  <1>3. /\ w \in {1, 2, 4, 8, 16} /\ count \in Nat /\ size \in Nat /\ size = count * w
        /\ payload \in [0 .. size-1 -> Byte]
    BY Sizes, PayloadType
  <1> HIDE DEF w
  <1>4. /\ generic_hton(payload, w) \in [0 .. size-1 -> Byte]
        /\ back \in [0 .. size-1 -> Byte]
        /\ \A j \in 0 .. size-1 : (w = 16 => j % 16 < 8) => back[j] = payload[j]
    BY <1>3, RoundTrip
  <1> QED
    BY <1>2, <1>4 DEF Data, Survives, w

\* A piece arrives as it was.
LEMMA PiecePart ==
  ASSUME Arguments, Width(datatype) = 1, NEW k \in 0 .. Pieces-1
  PROVE  /\ Part(k * PAYLOAD_SIZE, Length(k)) = Piece(k)
         /\ generic_ntoh(Piece(k), Width(datatype)) = Piece(k)
         /\ Piece(k) \in Data(Length(k))
  <1>1. Length(k) \in Nat /\ Piece(k) \in [0 .. Length(k)-1 -> Byte]
    BY Lengths, PieceType, Constants
  <1>2. generic_hton(Piece(k), 1) = Piece(k) /\ generic_ntoh(Piece(k), 1) = Piece(k)
    BY <1>1, OneByte
  <1> QED
    BY <1>1, <1>2 DEF Part, Piece, Data

\* What the receiver makes of a datagram: one that is the payload.
LEMMA DatagramIsPayload ==
  ASSUME Arguments, ArgumentsInv, ~CutByReceiver
  PROVE  LET d == Datagram(0)
         IN  /\ d.seq = 0 /\ d.len = size /\ DataSize(d) = size
             /\ d.bytes \in 0 .. MAX_PAYLOAD /\ MPI_HEADER + d.len <= d.bytes
             /\ d.data \in Data(size)
             /\ generic_ntoh(d.data, Width(datatype)) \in Data(size)
             /\ \A j \in 0 .. size-1 : Survives(j) =>
                  generic_ntoh(d.data, Width(datatype))[j] = payload[j]
  <1> DEFINE d == Datagram(0)
  <1>1. Pieces = 1 /\ Last = size /\ size <= PAYLOAD_SIZE /\ Length(0) = size
    <2>1. Pieces = 1 /\ Last = size /\ size <= PAYLOAD_SIZE
      BY Cutting, Sizes, Constants
    <2> QED
      BY <2>1 DEF Length
  <1>2. CASE CutBySender
    <2>1. /\ d.seq = 0 /\ d.len = size /\ d.bytes = MAX_PAYLOAD
          /\ d.data = Part(0 * PAYLOAD_SIZE, size)
      BY <1>1, <1>2 DEF Datagram
    <2>2. 0 * PAYLOAD_SIZE = 0
      BY Constants
    <2>3. DataSize(d) = size
      BY <2>1, Sizes, Constants, <1>1 DEF DataSize, Room
    <2> QED
      BY <1>1, <2>1, <2>2, <2>3, WholePart, Constants, Sizes
  <1>3. CASE ~CutBySender
    <2>1. /\ d.seq = 0 /\ d.len = size /\ d.bytes = MPI_HEADER + size
          /\ d.data = Part(0, size)
      BY <1>3 DEF Datagram
    <2>2. DataSize(d) = size
      BY <2>1, Sizes, Constants DEF DataSize, Room
    <2> QED
      BY <1>1, <2>1, <2>2, WholePart, Constants, Sizes
  <1> QED
    BY <1>2, <1>3

\* Or one that is a piece of it.
LEMMA DatagramIsPiece ==
  ASSUME Arguments, ArgumentsInv, CutByReceiver, NEW k \in 0 .. Pieces-1
  PROVE  LET d == Datagram(k)
         IN  /\ d.seq = k /\ d.len = Length(k) /\ DataSize(d) = PAYLOAD_SIZE
             /\ d.bytes = MAX_PAYLOAD /\ MPI_HEADER + d.len <= d.bytes
             /\ d.data = Piece(k) /\ d.data \in Data(d.len)
             /\ generic_ntoh(d.data, Width(datatype)) = Piece(k)
  <1> DEFINE d == Datagram(k)
  <1>1. CutBySender /\ Width(datatype) = 1
    BY Cutting DEF ArgumentsInv
  <1>2. /\ d.seq = k /\ d.len = Length(k) /\ d.bytes = MAX_PAYLOAD
        /\ d.data = Part(k * PAYLOAD_SIZE, Length(k))
    BY <1>1 DEF Datagram
  <1>3. DataSize(d) = PAYLOAD_SIZE
    BY <1>2, Constants DEF DataSize, Room
  <1>4. MPI_HEADER + Length(k) <= MAX_PAYLOAD
    BY Lengths, Constants
  <1> QED
    BY <1>1, <1>2, <1>3, <1>4, PiecePart

-----------------------------------------------------------------------------

\* What is put into the buffer is there, and nothing else changes.  Only the end
\* of a text is written again, with what it ends in.
LEMMA StoredType ==
  ASSUME Arguments, buf \in Data(size), NEW data, NEW start \in Int,
         \A j \in DOMAIN data : data[j] \in Byte
  PROVE  Stored(data, start) \in Data(size)
  BY DEF Stored, Data, Byte

LEMMA StoredThere ==
  ASSUME Arguments, NEW data, NEW start \in Int, NEW j \in 0 .. size-1,
         j - start \in DOMAIN data, data[j - start] = payload[j]
  PROVE  Stored(data, start)[j] = payload[j]
  BY DEF Stored, payload

LEMMA StoredElsewhere ==
  ASSUME Arguments, NEW data, NEW start \in Int, NEW j \in 0 .. size-1,
         j - start \notin DOMAIN data, buf[j] = payload[j]
  PROVE  Stored(data, start)[j] = payload[j]
  BY DEF Stored, payload

-----------------------------------------------------------------------------

\* Counting bytes.  The fragments make up the payload when they are all there,
\* and not before.
LEMMA Counted ==
  ASSUME Arguments, NEW R \in SUBSET (0 .. Pieces-1)
  PROVE  /\ Bytes(R) \in 0 .. size
         /\ Bytes(R) < size <=> R # 0 .. Pieces-1
  <1> DEFINE All == 0 .. Pieces-1
  <1>1. Pieces \in Nat \ {0} /\ Last \in 1 .. PAYLOAD_SIZE
    BY Cutting
  <1>2. IsFiniteSet(All) /\ Cardinality(All) = Pieces
    BY <1>1, FS_Interval
  <1>3. /\ IsFiniteSet(R) /\ Cardinality(R) <= Pieces
        /\ R # All => Cardinality(R) # Pieces
    BY <1>2, FS_Subset
  <1> DEFINE c == Cardinality(R)
  <1>4. c \in Nat /\ c <= Pieces /\ (R # All => c <= Pieces-1)
    BY <1>1, <1>3, FS_CardinalityType
  <1>5. Pieces-1 \in R => c >= 1
    <2>1. ASSUME Pieces-1 \in R
          PROVE  c # 0
      BY <1>3, <2>1, FS_EmptySet
    <2> QED
      BY <1>4, <2>1
  <1> HIDE DEF c
  <1>6. size = (Pieces-1) * PAYLOAD_SIZE + Last
    BY Cutting
  <1>7. Bytes(R) = c * PAYLOAD_SIZE - (IF Pieces-1 \in R THEN PAYLOAD_SIZE - Last ELSE 0)
    BY DEF Bytes, c
  <1>8. CASE R = All
    <2>1. c = Pieces /\ Pieces-1 \in R
      BY <1>1, <1>2, <1>8 DEF c
    <2>2. Pieces * PAYLOAD_SIZE = (Pieces-1) * PAYLOAD_SIZE + PAYLOAD_SIZE
          /\ (Pieces-1) * PAYLOAD_SIZE \in Int
      BY <1>1, Constants
    <2>3. Bytes(R) = size
      BY <1>1, <1>6, <1>7, <2>1, <2>2, Constants
    <2> QED
      BY <1>8, <2>3, Sizes
  <1>9. CASE R # All
    <2>1. c * PAYLOAD_SIZE <= (Pieces-1) * PAYLOAD_SIZE
      BY <1>1, <1>4, <1>9, Constants, Multiples
    <2>2. c * PAYLOAD_SIZE \in Nat /\ (Pieces-1) * PAYLOAD_SIZE \in Nat
      BY <1>1, <1>4, Constants
    <2>3. CASE Pieces-1 \in R
      <3>1. Bytes(R) = c * PAYLOAD_SIZE - (PAYLOAD_SIZE - Last)
        BY <1>7, <2>3
      <3>2. 1 * PAYLOAD_SIZE <= c * PAYLOAD_SIZE
        BY <1>4, <1>5, <2>3, Constants, Multiples
      <3> QED
        BY <1>1, <1>6, <1>9, <2>1, <2>2, <3>1, <3>2, Constants, Sizes
    <2>4. CASE Pieces-1 \notin R
      <3>1. Bytes(R) = c * PAYLOAD_SIZE
        BY <1>7, <2>2, <2>4
      <3> QED
        BY <1>1, <1>6, <1>9, <2>1, <2>2, <3>1, Sizes
    <2> QED
      BY <2>3, <2>4
  <1> QED
    BY <1>8, <1>9

LEMMA CountedOneMore ==
  ASSUME Arguments, NEW R \in SUBSET (0 .. Pieces-1), NEW k \in 0 .. Pieces-1, k \notin R
  PROVE  Bytes(R \cup {k}) = Bytes(R) + Length(k)
  <1>1. Pieces \in Nat \ {0} /\ Last \in 1 .. PAYLOAD_SIZE
    BY Cutting
  <1>2. IsFiniteSet(R)
    <2>1. IsFiniteSet(0 .. Pieces-1)
      BY <1>1, FS_Interval
    <2> QED
      BY <2>1, FS_Subset
  <1>3. Cardinality(R) \in Nat /\ Cardinality(R \cup {k}) = Cardinality(R) + 1
    BY <1>2, FS_CardinalityType, FS_AddElement
  <1>4. (Cardinality(R) + 1) * PAYLOAD_SIZE = Cardinality(R) * PAYLOAD_SIZE + PAYLOAD_SIZE
        /\ Cardinality(R) * PAYLOAD_SIZE \in Int
    BY <1>3, Constants
  <1> DEFINE c == Cardinality(R) * PAYLOAD_SIZE
  <1>5. /\ Bytes(R) = c - (IF Pieces-1 \in R THEN PAYLOAD_SIZE - Last ELSE 0)
        /\ Bytes(R \cup {k}) = (c + PAYLOAD_SIZE)
                                 - (IF Pieces-1 \in R \cup {k} THEN PAYLOAD_SIZE - Last ELSE 0)
    <2>1. Cardinality(R \cup {k}) * PAYLOAD_SIZE = c + PAYLOAD_SIZE
      BY <1>3, <1>4
    <2>2. Bytes(R) = c - (IF Pieces-1 \in R THEN PAYLOAD_SIZE - Last ELSE 0)
      BY DEF Bytes
    <2>3. Bytes(R \cup {k}) = Cardinality(R \cup {k}) * PAYLOAD_SIZE
            - (IF Pieces-1 \in R \cup {k} THEN PAYLOAD_SIZE - Last ELSE 0)
      BY DEF Bytes
    <2> HIDE DEF c
    <2> QED
      BY <2>1, <2>2, <2>3
  <1>6. c \in Int
    BY <1>4
  <1> HIDE DEF c
  <1>7. CASE k = Pieces-1
    <2>1. Pieces-1 \notin R /\ Pieces-1 \in R \cup {k} /\ Length(k) = Last
      BY <1>7 DEF Length
    <2> QED
      BY <1>1, <1>5, <1>6, <2>1, Constants
  <1>8. CASE k < Pieces-1
    <2>1. (Pieces-1 \in R <=> Pieces-1 \in R \cup {k}) /\ Length(k) = PAYLOAD_SIZE
      BY <1>1, <1>8 DEF Length
    <2> QED
      BY <1>1, <1>5, <1>6, <2>1, Constants
  <1> QED
    BY <1>1, <1>7, <1>8

-----------------------------------------------------------------------------

\* The arguments do not change, and with them what is derived from them.
LEMMA ArgumentsStay ==
  ASSUME UNCHANGED arguments
  PROVE  /\ Arguments' <=> Arguments
         /\ size' = size /\ Pieces' = Pieces /\ Last' = Last /\ payload' = payload
         /\ Width(datatype)' = Width(datatype) /\ Byte' = Byte /\ Text' = Text
         /\ CutBySender' = CutBySender /\ CutByReceiver' = CutByReceiver
         /\ ArgumentsInv' = ArgumentsInv
         /\ \A k : /\ Length(k)' = Length(k) /\ Piece(k)' = Piece(k)
                   /\ Datagram(k)' = Datagram(k) /\ Data(k)' = Data(k)
                   /\ Bytes(k)' = Bytes(k) /\ Survives(k)' = Survives(k)
  <1>1. datatype' = datatype /\ count' = count /\ no_ack' = no_ack
    BY DEF arguments
  <1>2. Arguments' <=> Arguments
    BY <1>1 DEF Arguments
  <1>3. /\ size' = size /\ Width(datatype)' = Width(datatype) /\ Text' = Text
    BY <1>1 DEF size, datatype_size_in_bytes, Width, Text
  <1>4. Pieces' = Pieces /\ Last' = Last
    BY <1>3 DEF Pieces, Last
  <1>5. payload' = payload /\ Byte' = Byte
    BY <1>3 DEF payload, Byte
  <1>6. /\ CutBySender' = CutBySender /\ CutByReceiver' = CutByReceiver
        /\ ArgumentsInv' = ArgumentsInv
    BY <1>3 DEF CutBySender, CutByReceiver, ArgumentsInv
  <1>7. ASSUME NEW k
        PROVE  /\ Length(k)' = Length(k) /\ Piece(k)' = Piece(k) /\ Data(k)' = Data(k)
               /\ Bytes(k)' = Bytes(k) /\ Survives(k)' = Survives(k)
    BY <1>3, <1>4, <1>5 DEF Length, Piece, Data, Bytes, Survives
  <1>8. ASSUME NEW k
        PROVE  Datagram(k)' = Datagram(k)
    <2>1. \A a, b : Part(a, b)' = Part(a, b)
      BY <1>3, <1>5 DEF Part
    <2> QED
      BY <1>3, <1>6, <1>7, <2>1 DEF Datagram
  <1> QED
    BY <1>2, <1>3, <1>4, <1>5, <1>6, <1>7, <1>8

-----------------------------------------------------------------------------

\* What the steps use of the invariant.
LEMMA Ranged ==
  ASSUME IInv
  PROVE  /\ sender \in {"sending", "sent", "failed"}
         /\ receiver \in {"recv", "assemble", "fallback", "returned", "gave up"}
         /\ DOMAIN fragment = 0 .. Pieces-1 /\ buf \in Data(size)
  BY DEF IInv, Ranges

LEMMA Numbers ==
  ASSUME IInv
  PROVE  /\ seq \in 0 .. Pieces /\ i \in 0 .. Pieces /\ offset \in 0 .. size
         /\ failures \in 0 .. MaxFailures
  BY DEF IInv, Ranges

LEMMA Known ==
  ASSUME IInv
  PROVE  /\ Arguments /\ ArgumentsInv /\ SenderInv
         /\ Sent \subseteq 0 .. Pieces-1 /\ Received \subseteq 0 .. Pieces-1
         /\ Received \subseteq Sent
         /\ \A d \in net : d.seq \in 0 .. Pieces-1 /\ d = Datagram(d.seq)
         /\ failures \in Nat /\ Pieces \in Nat \ {0} /\ MaxFailures \in Nat
  <1>1. Arguments /\ ArgumentsInv /\ SenderInv
    BY DEF IInv, Ranges, Arguments
  <1>2. Pieces \in Nat \ {0}
    BY <1>1, Cutting
  <1>3. Sent \subseteq 0 .. Pieces-1
    BY <1>2, Numbers DEF Sent
  <1>4. Received \subseteq 0 .. Pieces-1 /\ Received \subseteq Sent
    BY DEF IInv, FragmentInv, Received
  <1>5. \A d \in net : d.seq \in 0 .. Pieces-1 /\ d = Datagram(d.seq)
    BY <1>3 DEF IInv, NetInv
  <1>6. failures \in Nat /\ MaxFailures \in Nat
    BY MaxFailuresAssumption, Numbers
  <1> QED
    BY <1>1, <1>2, <1>3, <1>4, <1>5, <1>6

\* A datagram that carries its piece for the first time preserves the invariant.
LEMMA Sending ==
  ASSUME IInv, UNCHANGED <<arguments, receiving, failures>>,
         NEW k \in 0 .. Pieces-1, k \notin Sent, Sent' = Sent \cup {k},
         net' = net \cup {Datagram(k)}, Datagram(k).seq = k,
         sender' \in {"sending", "sent"}, seq' \in 0 .. Pieces, SenderInv'
  PROVE  IInv'
  <1>1. /\ receiver' = receiver /\ fragment' = fragment /\ total_recv' = total_recv
        /\ i' = i /\ offset' = offset /\ buf' = buf /\ failures' = failures
    BY DEF receiving
  <1>2. UNCHANGED arguments
    OBVIOUS
  <1>3. Received' = Received
    BY <1>1, <1>2, ArgumentsStay DEF Received
  <1>4. Ranges' /\ ArgumentsInv'
    BY <1>1, <1>2, ArgumentsStay DEF IInv, Ranges, arguments
  <1>5. NetInv'
    BY <1>2, ArgumentsStay DEF IInv, NetInv
  <1>6. FragmentInv'
    <2>1. \A r \in Received : r # k
      BY Known
    <2> QED
      BY <1>1, <1>2, <1>3, <2>1, ArgumentsStay DEF IInv, FragmentInv
  <1>7. TotalInv' /\ ReceiverInv'
    BY <1>1, <1>2, <1>3, ArgumentsStay DEF IInv, TotalInv, ReceiverInv
  <1>8. KeptInv'
    BY <1>1, <1>3 DEF IInv, KeptInv
  <1>9. Delivered' /\ AllOrNothing' /\ NotRefused'
    BY <1>1, <1>2, ArgumentsStay DEF IInv, Delivered, Whole, AllOrNothing, NotRefused, Old
  <1> QED
    BY <1>4, <1>5, <1>6, <1>7, <1>8, <1>9 DEF IInv

LEMMA SendWholeStep ==
  ASSUME IInv, SendWhole
  PROVE  IInv'
  <1>1. /\ sender = "sending" /\ ~CutBySender /\ sender' = "sent" /\ seq' = seq
        /\ UNCHANGED arguments /\ UNCHANGED <<arguments, receiving, failures>>
    BY DEF SendWhole
  <1>2. seq \in 0 .. Pieces /\ seq = 0 /\ 0 \in 0 .. Pieces-1 /\ CutBySender' = CutBySender
    BY <1>1, Numbers, Known, ArgumentsStay DEF SenderInv
  <1>3. net' = net \cup {Datagram(0)} /\ Datagram(0).seq = 0
    BY <1>1 DEF SendWhole, Datagram
  <1>4. 0 \notin Sent /\ Sent' = Sent \cup {0}
    BY <1>1, <1>2 DEF Sent
  <1>5. seq' \in 0 .. Pieces /\ SenderInv'
    BY <1>1, <1>2 DEF SenderInv
  <1> QED
    BY <1>1, <1>2, <1>3, <1>4, <1>5, Sending

LEMMA SendFragmentStep ==
  ASSUME IInv, SendFragment
  PROVE  IInv'
  <1>1. /\ sender = "sending" /\ CutBySender /\ seq' = seq + 1
        /\ UNCHANGED arguments /\ UNCHANGED <<arguments, receiving, failures>>
        /\ sender' = IF Start + PAYLOAD_SIZE < size THEN "sending" ELSE "sent"
    BY DEF SendFragment
  <1>2. /\ Arguments /\ Pieces \in Nat \ {0} /\ seq \in 0 .. Pieces-1
        /\ CutBySender' = CutBySender /\ Pieces' = Pieces
    BY <1>1, Numbers, Known, ArgumentsStay DEF SenderInv
  <1>3. /\ Cut = Length(seq) /\ Start = seq * PAYLOAD_SIZE
        /\ Start + PAYLOAD_SIZE < size <=> seq < Pieces-1
    BY <1>2, CutIsLength
  <1>4. net' = net \cup {Datagram(seq)} /\ Datagram(seq).seq = seq
    BY <1>1, <1>3 DEF SendFragment, Datagram
  <1>5. seq \notin Sent /\ Sent' = Sent \cup {seq}
    BY <1>1, <1>2 DEF Sent
  <1>6. seq' \in 0 .. Pieces /\ sender' \in {"sending", "sent"}
    BY <1>1, <1>2
  <1>7. SenderInv'
    BY <1>1, <1>2, <1>3 DEF SenderInv
  <1> QED
    BY <1>1, <1>2, <1>4, <1>5, <1>6, <1>7, Sending

\* A step that only takes datagrams away, of the sender's too when it fails, and
\* counts as a failure.
LEMMA Failing ==
  ASSUME IInv, UNCHANGED <<arguments, seq, receiving>>, failures < MaxFailures,
         failures' = failures + 1, net' \subseteq net,
         sender' = sender \/ (sender = "sending" /\ sender' = "failed")
  PROVE  IInv'
  <1>1. /\ receiver' = receiver /\ fragment' = fragment /\ total_recv' = total_recv
        /\ i' = i /\ offset' = offset /\ buf' = buf /\ seq' = seq
    BY DEF receiving
  <1>2. UNCHANGED arguments
    OBVIOUS
  <1>3. Received' = Received /\ Sent' = Sent
    BY <1>1, <1>2, ArgumentsStay DEF Received, Sent
  <1>4. failures' \in 0 .. MaxFailures /\ failures' > 0 /\ failures' # 0
    BY Known, MaxFailuresAssumption
  <1>5. Ranges' /\ ArgumentsInv' /\ SenderInv'
    <2>1. sender' \in {"sending", "sent", "failed"}
      BY Ranged
    <2>2. Ranges'
      BY <1>1, <1>2, <1>4, <2>1, ArgumentsStay DEF IInv, Ranges, arguments
    <2>3. ArgumentsInv' /\ SenderInv'
      BY <1>1, <1>2, ArgumentsStay DEF IInv, SenderInv
    <2> QED
      BY <2>2, <2>3
  <1>6. NetInv' /\ FragmentInv'
    BY <1>1, <1>2, <1>3, ArgumentsStay DEF IInv, NetInv, FragmentInv
  <1>7. TotalInv' /\ ReceiverInv'
    BY <1>1, <1>2, <1>3, ArgumentsStay DEF IInv, TotalInv, ReceiverInv
  <1>8. KeptInv' /\ NotRefused'
    <2>1. KeptInv'
      BY <1>4 DEF KeptInv
    <2>2. NotRefused'
      BY <1>4 DEF NotRefused
    <2> QED
      BY <2>1, <2>2
  <1>9. Delivered' /\ AllOrNothing'
    BY <1>1, <1>2, ArgumentsStay DEF IInv, Delivered, Whole, AllOrNothing, Old
  <1> QED
    BY <1>5, <1>6, <1>7, <1>8, <1>9 DEF IInv

LEMMA SendFailsStep ==
  ASSUME IInv, SendFails
  PROVE  IInv'
  BY Failing DEF SendFails

LEMMA LoseStep ==
  ASSUME IInv, NEW d \in net, Lose(d)
  PROVE  IInv'
  <1>1. /\ UNCHANGED <<arguments, seq, receiving>> /\ failures < MaxFailures
        /\ failures' = failures + 1 /\ net' \subseteq net /\ sender' = sender
    BY DEF Lose, sending
  <1> QED
    BY <1>1, Failing

\* What a receive leaves alone when it does not touch the fragments.
LEMMA Receiving ==
  ASSUME IInv, UNCHANGED <<arguments, sending, fragment, total_recv>>, net' \subseteq net,
         Ranges', failures' = 0 => failures = 0,
         receiver' # "recv", ReceiverInv', Delivered', AllOrNothing', NotRefused'
  PROVE  IInv'
  <1>1. sender' = sender /\ seq' = seq /\ fragment' = fragment /\ total_recv' = total_recv
    BY DEF sending
  <1>2. UNCHANGED arguments
    OBVIOUS
  <1>3. Received' = Received /\ Sent' = Sent
    BY <1>1, <1>2, ArgumentsStay DEF Received, Sent
  <1>4. ArgumentsInv' /\ SenderInv'
    BY <1>1, <1>2, ArgumentsStay DEF IInv, SenderInv
  <1>5. NetInv' /\ FragmentInv' /\ TotalInv'
    BY <1>1, <1>2, <1>3, ArgumentsStay DEF IInv, NetInv, FragmentInv, TotalInv
  <1>6. KeptInv'
    BY <1>1 DEF IInv, KeptInv
  <1> QED
    BY <1>4, <1>5, <1>6 DEF IInv

\* The ranges after a receive.
LEMMA ReceiverRanges ==
  ASSUME IInv, UNCHANGED <<arguments, sending>>, DOMAIN fragment' = DOMAIN fragment,
         receiver' \in {"recv", "assemble", "fallback", "returned", "gave up"},
         i' \in 0 .. Pieces, offset' \in 0 .. size, buf' \in Data(size),
         failures' \in 0 .. MaxFailures
  PROVE  Ranges'
  <1>1. UNCHANGED arguments /\ sender' = sender /\ seq' = seq
    BY DEF sending
  <1> QED
    BY <1>1, ArgumentsStay DEF IInv, Ranges, arguments

LEMMA RecvWholeStep ==
  ASSUME IInv, NEW d \in net, RecvWhole(d)
  PROVE  IInv'
  <1>1. /\ receiver = "recv" /\ ~CutByReceiver /\ net' = net \ {d}
        /\ UNCHANGED <<arguments, sending, fragment, total_recv>>
        /\ i' = i /\ offset' = offset /\ failures' = failures
    BY DEF RecvWhole
  <1>2. Arguments /\ ArgumentsInv /\ Pieces = 1 /\ d = Datagram(0)
    BY <1>1, Known, Cutting
  <1> DEFINE data == generic_ntoh(d.data, Width(datatype))
  <1>3. /\ DataSize(d) = size /\ data \in Data(size)
        /\ \A j \in 0 .. size-1 : Survives(j) => data[j] = payload[j]
    BY <1>1, <1>2, DatagramIsPayload
  <1>4. buf' = Stored(data, 0) /\ receiver' = "returned"
    BY <1>1, <1>3 DEF RecvWhole
  <1> HIDE DEF data
  <1>5. buf' \in Data(size)
    <2>1. buf \in Data(size)
      BY Ranged
    <2>2. \A j \in DOMAIN data : data[j] \in Byte
      BY <1>3 DEF Data
    <2> QED
      BY <1>2, <1>4, <2>1, <2>2, StoredType
  <1>6. \A j \in 0 .. size-1 : Survives(j) => buf'[j] = payload[j]
    <2> SUFFICES ASSUME NEW j \in 0 .. size-1, Survives(j)
                 PROVE  buf'[j] = payload[j]
      OBVIOUS
    <2>1. j - 0 = j /\ j \in DOMAIN data
      BY <1>3 DEF Data
    <2> QED
      BY <1>2, <1>3, <1>4, <2>1, StoredThere
  <1>7. ReceiverInv' /\ AllOrNothing' /\ NotRefused'
    BY <1>4 DEF ReceiverInv, AllOrNothing, NotRefused
  <1>8. Delivered'
    BY <1>1, <1>6, ArgumentsStay DEF Delivered, Whole
  <1>9. Ranges'
    BY <1>1, <1>4, <1>5, Numbers, ReceiverRanges
  <1> QED
    BY <1>1, <1>4, <1>7, <1>8, <1>9, Receiving

\* What the sender has sent and nothing has lost is on its way or there: a
\* receive is not given up because nothing is to come.
LEMMA NothingMissing ==
  ASSUME IInv, receiver = "recv", net = {}, sender # "sending"
  PROVE  failures # 0
  <1> SUFFICES ASSUME failures = 0
               PROVE  FALSE
    OBVIOUS
  <1>1. sender = "sent"
    BY Ranged DEF IInv, KeptInv
  <1>2. \A k \in Sent : k \in Received
    BY DEF IInv, KeptInv
  <1>3. Sent = 0 .. Pieces-1
    <2>1. CASE CutBySender
      BY <1>1, <2>1, Known DEF Sent, SenderInv
    <2>2. CASE ~CutBySender
      <3>1. Pieces = 1
        BY <2>2, Known, Cutting
      <3> QED
        BY <1>1, <2>2, <3>1 DEF Sent
    <2> QED
      BY <2>1, <2>2
  <1>4. Received = 0 .. Pieces-1
    BY <1>2, <1>3, Known
  <1> QED
    BY <1>4 DEF IInv, ReceiverInv

LEMMA TimeoutStep ==
  ASSUME IInv, Timeout
  PROVE  IInv'
  <1>1. /\ receiver = "recv" /\ receiver' \in {"gave up", "fallback"}
        /\ UNCHANGED <<arguments, sending, fragment, total_recv>> /\ net' = net
        /\ i' = i /\ offset' = offset /\ buf' = buf
    BY DEF Timeout, Fail
  <1>2. \/ net = {} /\ sender # "sending" /\ failures' = failures
        \/ failures < MaxFailures /\ failures' = failures + 1
    BY DEF Timeout
  <1>3. failures' \in 0 .. MaxFailures /\ failures' > 0
    <2>1. CASE net = {} /\ sender # "sending" /\ failures' = failures
      <3>1. failures # 0
        BY <1>1, <2>1, NothingMissing
      <3> QED
        BY <2>1, <3>1, Known, Numbers
    <2>2. CASE failures < MaxFailures /\ failures' = failures + 1
      BY <2>2, Known
    <2> QED
      BY <1>2, <2>1, <2>2
  <1>4. Ranges'
    <2>1. i' \in 0 .. Pieces /\ offset' \in 0 .. size
      BY <1>1, Numbers
    <2>2. buf' \in Data(size)
      BY <1>1, Ranged
    <2> QED
      BY <1>1, <1>3, <2>1, <2>2, ReceiverRanges
  <1>5. ReceiverInv' /\ Delivered'
    BY <1>1 DEF ReceiverInv, Delivered
  <1>6. NotRefused'
    BY <1>3 DEF NotRefused
  <1>7. AllOrNothing'
    BY <1>1, ArgumentsStay DEF IInv, AllOrNothing, Old
  <1>8. failures' = 0 => failures = 0
    BY <1>3
  <1> QED
    BY <1>1, <1>4, <1>5, <1>6, <1>7, <1>8, Receiving

LEMMA RecvFallbackStep ==
  ASSUME IInv, RecvFallback
  PROVE  IInv'
  <1> DEFINE data == generic_ntoh(Part(0, size), Width(datatype))
  <1>1. /\ buf' = Stored(data, 0) /\ receiver' = "returned" /\ net' = net
        /\ UNCHANGED <<arguments, sending, fragment, total_recv>>
        /\ i' = i /\ offset' = offset /\ failures' = failures
    BY DEF RecvFallback
  <1>2. /\ data \in Data(size)
        /\ \A j \in 0 .. size-1 : Survives(j) => data[j] = payload[j]
    BY Known, WholePart
  <1> HIDE DEF data
  <1>3. buf' \in Data(size)
    <2>1. buf \in Data(size)
      BY Ranged
    <2>2. \A j \in DOMAIN data : data[j] \in Byte
      BY <1>2 DEF Data
    <2> QED
      BY <1>1, <2>1, <2>2, Known, StoredType
  <1>4. \A j \in 0 .. size-1 : Survives(j) => buf'[j] = payload[j]
    <2> SUFFICES ASSUME NEW j \in 0 .. size-1, Survives(j)
                 PROVE  buf'[j] = payload[j]
      OBVIOUS
    <2>1. j - 0 = j /\ j \in DOMAIN data
      BY <1>2 DEF Data
    <2> QED
      BY <1>1, <1>2, <2>1, Known, StoredThere
  <1>5. ReceiverInv' /\ AllOrNothing' /\ NotRefused'
    BY <1>1 DEF ReceiverInv, AllOrNothing, NotRefused
  <1>6. Delivered'
    BY <1>1, <1>4, ArgumentsStay DEF Delivered, Whole
  <1>7. Ranges'
    BY <1>1, <1>3, Numbers, ReceiverRanges
  <1> QED
    BY <1>1, <1>5, <1>6, <1>7, Receiving

\* One more fragment in its place.
LEMMA AssembleStep ==
  ASSUME IInv, Assemble
  PROVE  IInv'
  <1>1. /\ receiver = "assemble" /\ net' = net /\ i' = i + 1 /\ failures' = failures
        /\ UNCHANGED <<arguments, sending, fragment, total_recv>>
        /\ receiver' = IF i' < Pieces THEN "assemble" ELSE "returned"
    BY DEF Assemble
  <1>2. /\ CutByReceiver /\ Received = 0 .. Pieces-1
        /\ i < Pieces /\ offset = i * PAYLOAD_SIZE
        /\ \A j \in 0 .. offset-1 : buf[j] = payload[j]
    BY <1>1 DEF IInv, ReceiverInv
  <1>3. i \in 0 .. Pieces-1 /\ Arguments /\ ArgumentsInv /\ Pieces \in Nat
    BY <1>2, Known, Numbers
  <1>4. fragment[i] = [len |-> Length(i), arr |-> Piece(i)] /\ fragment[i] # Absent
    BY <1>2, <1>3 DEF IInv, FragmentInv, Received
  <1>5. generic_ntoh(Piece(i), Width(datatype)) = Piece(i)
    BY <1>2, <1>3, Cutting, PiecePart DEF ArgumentsInv
  <1>6. buf' = Stored(Piece(i), offset) /\ offset' = offset + Length(i)
    BY <1>4, <1>5 DEF Assemble, NextOffset
  <1>7. /\ Length(i) \in 1 .. PAYLOAD_SIZE /\ offset \in Nat /\ offset' \in 0 .. size
        /\ Piece(i) \in [0 .. Length(i)-1 -> Byte]
    BY <1>2, <1>3, <1>6, Lengths, PieceType, Constants, Sizes
  <1>8. \A j \in 0 .. offset'-1 : j \in 0 .. size-1 /\ buf'[j] = payload[j]
    <2>1. size \in Nat
      BY <1>3, Sizes
    <2>2. offset' \in Nat /\ offset' <= size
      BY <1>7, <2>1
    <2>3. PICK o \in Nat : o = offset'
      BY <2>2
    <2> SUFFICES ASSUME NEW j \in 0 .. o-1
                 PROVE  j \in 0 .. size-1 /\ buf'[j] = payload[j]
      BY <2>3
    <2>4. j \in Nat
      OBVIOUS
    <2>5. j < o
      OBVIOUS
    <2>6. j \in Nat /\ j < offset'
      BY <2>3, <2>4, <2>5
    <2>7. j \in 0 .. size-1
      BY <2>6, <2>1, <2>2
    <2>8. CASE j < offset
      <3>1. j - offset \notin DOMAIN Piece(i) /\ buf[j] = payload[j]
        BY <1>2, <1>7, <2>8, <2>6
      <3> QED
        BY <1>3, <1>6, <1>7, <2>7, <3>1, StoredElsewhere
    <2>9. CASE j >= offset
      <3>1. j - offset \in 0 .. Length(i)-1
        BY <1>6, <1>7, <2>9, <2>6, Constants
      <3>2. Piece(i)[j - offset] = payload[i * PAYLOAD_SIZE + (j - offset)]
        BY <3>1 DEF Piece
      <3>3. i * PAYLOAD_SIZE + (j - offset) = j
        BY <1>2, <1>7, <2>6, Constants
      <3>4. j - offset \in DOMAIN Piece(i)
        BY <1>7, <3>1
      <3> QED
        BY <1>3, <1>6, <1>7, <2>7, <3>2, <3>3, <3>4, StoredThere
    <2> QED
      BY <1>7, <2>7, <2>8, <2>9, <2>6
  <1>9. buf' \in Data(size)
    <2>1. buf \in Data(size)
      BY Ranged
    <2>2. \A j \in DOMAIN Piece(i) : Piece(i)[j] \in Byte
      BY <1>7
    <2> QED
      BY <1>3, <1>6, <1>7, <2>1, <2>2, StoredType
  <1>10. Ranges'
    <2>1. i' \in 0 .. Pieces
      BY <1>1, <1>3
    <2>2. receiver' \in {"recv", "assemble", "fallback", "returned", "gave up"}
      BY <1>1
    <2>3. failures' \in 0 .. MaxFailures
      BY <1>1, Numbers
    <2> QED
      BY <1>1, <1>7, <1>9, <2>1, <2>2, <2>3, ReceiverRanges
  <1>11. ReceiverInv'
    <2>1. ASSUME i + 1 < Pieces
          PROVE  offset' = (i + 1) * PAYLOAD_SIZE
      BY <1>2, <1>3, <1>6, <2>1, Lengths
    <2>2. Received' = Received /\ CutByReceiver' = CutByReceiver /\ Pieces' = Pieces
          /\ payload' = payload
      BY <1>1, ArgumentsStay DEF Received
    <2> QED
      BY <1>1, <1>2, <1>8, <2>1, <2>2 DEF ReceiverInv
  <1>12. Delivered'
    <2>1. ASSUME receiver' = "returned"
          PROVE  offset' = size
      <3>1. i = Pieces-1
        BY <1>1, <1>3, <2>1
      <3> QED
        BY <1>2, <1>3, <1>6, <3>1, Lengths
    <2> QED
      BY <1>1, <1>8, <2>1, ArgumentsStay DEF Delivered, Whole
  <1>13. AllOrNothing' /\ NotRefused' /\ receiver' # "recv"
    BY <1>1 DEF AllOrNothing, NotRefused
  <1> QED
    BY <1>1, <1>10, <1>11, <1>12, <1>13, Receiving

\* A fragment is counted and kept, and the last one to come starts the assembly.
LEMMA RecvFragmentStep ==
  ASSUME IInv, NEW d \in net, RecvFragment(d)
  PROVE  IInv'
  <1>1. /\ receiver = "recv" /\ CutByReceiver /\ net' = net \ {d}
        /\ UNCHANGED arguments /\ sender' = sender /\ seq' = seq
        /\ i' = i /\ offset' = offset /\ buf' = buf /\ failures' = failures
    BY DEF RecvFragment, sending
  <1>2. PICK k : k = d.seq
    OBVIOUS
  <1>3. /\ k \in 0 .. Pieces-1 /\ k \in Sent /\ d = Datagram(k)
        /\ Arguments /\ ArgumentsInv
    BY <1>2, Known DEF IInv, NetInv
  <1>4. /\ d.len = Length(k) /\ DataSize(d) = PAYLOAD_SIZE /\ d.seq = k
        /\ generic_ntoh(d.data, Width(datatype)) = Piece(k)
    BY <1>1, <1>3, DatagramIsPiece
  <1> DEFINE new == [len |-> Length(k), arr |-> Piece(k)]
  <1>5. /\ fragment' = [fragment EXCEPT ![k] = new]
        /\ total_recv' = total_recv + Length(k)
        /\ receiver' = IF total_recv' < size THEN "recv" ELSE "assemble"
    BY <1>4 DEF RecvFragment, Place
  <1>6. new # Absent
    <2>1. Length(k) # 0
      BY <1>3, Lengths, Constants
    <2> QED
      BY <2>1 DEF Absent
  <1> HIDE DEF new
  <1>7. k \notin Received
    BY <1>2 DEF IInv, FragmentInv
  <1>8. DOMAIN fragment = 0 .. Pieces-1
    BY Ranged
  <1>9. /\ DOMAIN fragment' = 0 .. Pieces-1 /\ fragment'[k] = new
        /\ \A r \in 0 .. Pieces-1 : r # k => fragment'[r] = fragment[r]
    BY <1>3, <1>5, <1>8
  <1>10. Received' = Received \cup {k}
    <2>1. Received' = {r \in 0 .. Pieces-1 : fragment'[r] # Absent}
      BY <1>1, ArgumentsStay DEF Received
    <2> QED
      BY <1>3, <1>6, <1>9, <2>1 DEF Received
  <1>11. Sent' = Sent
    BY <1>1, ArgumentsStay DEF Sent
  <1>12. NetInv'
    BY <1>1, <1>11, ArgumentsStay DEF IInv, NetInv
  <1>13. FragmentInv'
    <2> SUFFICES ASSUME NEW r \in Received \cup {k}
                 PROVE  /\ CutByReceiver /\ r \in Sent
                        /\ fragment'[r] = [len |-> Length(r), arr |-> Piece(r)]
                        /\ \A e \in net \ {d} : e.seq # r
      BY <1>1, <1>10, <1>11, ArgumentsStay DEF FragmentInv
    <2>1. CASE r = k
      <3>1. \A e \in net : e.seq = k => e = d
        BY <1>3, Known
      <3> QED
        BY <1>1, <1>3, <1>9, <2>1, <3>1 DEF new
    <2>2. CASE r # k
      <3>1. r \in Received /\ r \in 0 .. Pieces-1
        BY <2>2, Known
      <3> QED
        BY <1>9, <2>2, <3>1 DEF IInv, FragmentInv
    <2> QED
      BY <2>1, <2>2
  <1>14. total_recv' = Bytes(Received \cup {k})
    BY <1>3, <1>5, <1>7, Known, CountedOneMore DEF IInv, TotalInv
  <1>15. TotalInv'
    BY <1>1, <1>10, <1>14, ArgumentsStay DEF TotalInv
  <1>16. total_recv' < size <=> Received' # 0 .. Pieces-1
    <2>1. Received \cup {k} \in SUBSET (0 .. Pieces-1)
      BY <1>3, Known
    <2> QED
      BY <1>3, <1>10, <1>14, <2>1, Counted
  <1>17. ReceiverInv'
    <2>1. i = 0 /\ offset = 0 /\ Pieces' = Pieces /\ CutByReceiver' = CutByReceiver
      BY <1>1, ArgumentsStay DEF IInv, ReceiverInv
    <2>2. receiver' = "recv" => Received' # 0 .. Pieces-1
      BY <1>5, <1>16
    <2>3. receiver' = "assemble" => Received' = 0 .. Pieces-1
      BY <1>5, <1>16
    <2>4. 0 < Pieces /\ 0 = 0 * PAYLOAD_SIZE /\ 0 .. 0-1 = {}
      BY Known, Constants
    <2> QED
      BY <1>1, <2>1, <2>2, <2>3, <2>4 DEF ReceiverInv
  <1>18. KeptInv'
    <2>1. ASSUME failures = 0, NEW r \in Sent
          PROVE  r \in Received \cup {k} \/ \E e \in net \ {d} : e.seq = r
      <3>1. r \in Received \/ \E e \in net : e.seq = r
        BY <1>1, <2>1 DEF IInv, KeptInv
      <3> QED
        BY <1>2, <3>1
    <2> QED
      BY <1>1, <1>10, <1>11, <2>1 DEF IInv, KeptInv
  <1>19. ArgumentsInv' /\ SenderInv' /\ Delivered' /\ NotRefused'
    BY <1>1, <1>5, ArgumentsStay DEF IInv, SenderInv, Delivered, NotRefused
  <1>20. AllOrNothing'
    BY <1>1, ArgumentsStay DEF IInv, AllOrNothing, Old
  <1>21. Ranges'
    <2>1. UNCHANGED <<arguments, sending>> /\ DOMAIN fragment' = DOMAIN fragment
      BY <1>1, <1>8, <1>9 DEF sending
    <2>2. receiver' \in {"recv", "assemble", "fallback", "returned", "gave up"}
      BY <1>5
    <2>3. buf' \in Data(size)
      BY <1>1, Ranged
    <2>4. i' \in 0 .. Pieces /\ offset' \in 0 .. size /\ failures' \in 0 .. MaxFailures
      BY <1>1, Numbers
    <2> QED
      BY <2>1, <2>2, <2>3, <2>4, ReceiverRanges
  <1> QED
    BY <1>12, <1>13, <1>15, <1>17, <1>18, <1>19, <1>20, <1>21 DEF IInv

-----------------------------------------------------------------------------

LEMMA InitInv == Init => IInv
  <1> SUFFICES ASSUME Init
               PROVE  IInv
    OBVIOUS
  <1>1. Arguments /\ ArgumentsInv
    BY DEF Init, Arguments, ArgumentsInv
  <1>2. Pieces \in Nat \ {0} /\ size \in Nat \ {0}
    BY <1>1, Cutting, Sizes
  <1>3. /\ sender = "sending" /\ seq = 0 /\ net = {} /\ receiver = "recv"
        /\ fragment = [k \in 0 .. Pieces-1 |-> Absent] /\ total_recv = 0
        /\ i = 0 /\ offset = 0 /\ buf = [j \in 0 .. size-1 |-> Old] /\ failures = 0
    BY DEF Init
  <1>4. Received = {} /\ Sent = {}
    BY <1>2, <1>3 DEF Received, Sent
  <1>5. Ranges
    <2>1. buf \in Data(size)
      BY <1>3 DEF Data, Byte
    <2>2. /\ seq \in 0 .. Pieces /\ i \in 0 .. Pieces /\ offset \in 0 .. size
          /\ failures \in 0 .. MaxFailures
      BY <1>2, <1>3, MaxFailuresAssumption
    <2>3. DOMAIN fragment = 0 .. Pieces-1
      BY <1>3
    <2> QED
      BY <1>1, <1>3, <2>1, <2>2, <2>3 DEF Ranges, Arguments
  <1>6. SenderInv
    BY <1>2, <1>3 DEF SenderInv
  <1>7. NetInv /\ FragmentInv /\ KeptInv
    BY <1>3, <1>4 DEF NetInv, FragmentInv, KeptInv
  <1>8. TotalInv
    <2>1. Cardinality({}) = 0
      BY FS_EmptySet
    <2> QED
      BY <1>3, <1>4, <2>1, Constants DEF TotalInv, Bytes
  <1>9. ReceiverInv
    <2>1. 0 \in 0 .. Pieces-1
      BY <1>2
    <2> QED
      BY <1>3, <1>4, <2>1 DEF ReceiverInv
  <1>10. Delivered /\ AllOrNothing /\ NotRefused
    BY <1>3 DEF Delivered, AllOrNothing, NotRefused
  <1> QED
    BY <1>1, <1>5, <1>6, <1>7, <1>8, <1>9, <1>10 DEF IInv

LEMMA StepInv == IInv /\ [Next]_vars => IInv'
  <1> SUFFICES ASSUME IInv, [Next]_vars
               PROVE  IInv'
    OBVIOUS
  <1>1. CASE SendWhole
    BY <1>1, SendWholeStep
  <1>2. CASE SendFragment
    BY <1>2, SendFragmentStep
  <1>3. CASE SendFails
    BY <1>3, SendFailsStep
  <1>4. ASSUME NEW d \in net, RecvWhole(d)
        PROVE  IInv'
    BY <1>4, RecvWholeStep
  <1>5. ASSUME NEW d \in net, RecvFragment(d)
        PROVE  IInv'
    BY <1>5, RecvFragmentStep
  <1>6. CASE Assemble
    BY <1>6, AssembleStep
  <1>7. CASE RecvFallback
    BY <1>7, RecvFallbackStep
  <1>8. CASE Timeout
    BY <1>8, TimeoutStep
  <1>9. ASSUME NEW d \in net, Lose(d)
        PROVE  IInv'
    BY <1>9, LoseStep
  <1>10. CASE UNCHANGED vars
    <2>1. /\ UNCHANGED arguments /\ UNCHANGED <<sender, seq, net, receiver, fragment, total_recv>>
          /\ i' = i /\ offset' = offset /\ buf' = buf /\ failures' = failures
      BY <1>10 DEF vars, sending, receiving
    <2>2. Received' = Received /\ Sent' = Sent
      BY <2>1, ArgumentsStay DEF Received, Sent
    <2>3. Ranges' /\ ArgumentsInv' /\ SenderInv'
      <3>1. Ranges'
        BY <2>1, ArgumentsStay DEF IInv, Ranges, arguments
      <3>2. ArgumentsInv' /\ SenderInv'
        BY <2>1, ArgumentsStay DEF IInv, SenderInv
      <3> QED
        BY <3>1, <3>2
    <2>4. NetInv' /\ FragmentInv' /\ TotalInv'
      BY <2>1, <2>2, ArgumentsStay DEF IInv, NetInv, FragmentInv, TotalInv
    <2>5. ReceiverInv' /\ KeptInv'
      BY <2>1, <2>2, ArgumentsStay DEF IInv, ReceiverInv, KeptInv
    <2>6. Delivered' /\ AllOrNothing' /\ NotRefused'
      BY <2>1, ArgumentsStay DEF IInv, Delivered, Whole, AllOrNothing, NotRefused, Old
    <2> QED
      BY <2>3, <2>4, <2>5, <2>6 DEF IInv
  <1> QED
    BY <1>1, <1>2, <1>3, <1>4, <1>5, <1>6, <1>7, <1>8, <1>9, <1>10 DEF Next, Send, Recv

\* Every state of a send and its receive satisfies the inductive invariant.
THEOREM Invariance == Spec => []IInv
  BY InitInv, StepInv, PTL DEF Spec, Safety

\* What is in flight and what has come, one datagram at a time.
LEMMA InFlight ==
  ASSUME IInv, NEW d \in net
  PROVE  /\ d.seq \in 0 .. Pieces-1 /\ d.len \in 1 .. size /\ d.data \in Data(d.len)
         /\ d.bytes \in 0 .. MAX_PAYLOAD /\ MPI_HEADER + d.len <= d.bytes
  <1>1. /\ Arguments /\ ArgumentsInv /\ d.seq \in 0 .. Pieces-1 /\ d = Datagram(d.seq)
        /\ size \in Nat \ {0}
    BY Known, Sizes
  <1>2. CASE CutByReceiver
    <2>1. /\ d.len = Length(d.seq) /\ d.bytes = MAX_PAYLOAD /\ d.data \in Data(d.len)
          /\ MPI_HEADER + d.len <= d.bytes
      BY <1>1, <1>2, DatagramIsPiece
    <2>2. Length(d.seq) \in 1 .. size
      BY <1>1, Lengths, Constants
    <2> QED
      BY <1>1, <2>1, <2>2, Constants
  <1>3. CASE ~CutByReceiver
    <2>1. d = Datagram(0)
      BY <1>1, <1>3, Cutting
    <2>2. /\ d.len = size /\ d.bytes \in 0 .. MAX_PAYLOAD /\ d.data \in Data(d.len)
          /\ MPI_HEADER + d.len <= d.bytes
      BY <1>1, <1>3, <2>1, DatagramIsPayload
    <2> QED
      BY <1>1, <2>2
  <1> QED
    BY <1>2, <1>3

LEMMA InPlace ==
  ASSUME IInv, NEW k \in Received
  PROVE  /\ fragment[k].len = Length(k) /\ fragment[k].len \in 1 .. size
         /\ fragment[k].arr \in Data(fragment[k].len)
  <1>1. /\ Arguments /\ k \in 0 .. Pieces-1 /\ CutByReceiver /\ Width(datatype) = 1
        /\ size \in Nat \ {0}
    BY Known, Cutting, Sizes DEF IInv, FragmentInv, ArgumentsInv
  <1>2. fragment[k].len = Length(k) /\ fragment[k].arr = Piece(k)
    <2>1. fragment[k] = [len |-> Length(k), arr |-> Piece(k)]
      BY DEF IInv, FragmentInv
    <2> QED
      BY <2>1
  <1>3. Length(k) \in 1 .. size
    BY <1>1, Lengths, Constants
  <1> QED
    BY <1>1, <1>2, <1>3, PiecePart

\* The variables stay in their types.
THEOREM TypeCorrect == Spec => []TypeOK
  <1>1. IInv => TypeOK
    <2> SUFFICES ASSUME IInv
                 PROVE  TypeOK
      OBVIOUS
    <2>1. \A d \in net : /\ d.seq \in 0 .. Pieces-1
                         /\ d.len \in 1 .. size /\ d.data \in Data(d.len)
                         /\ d.bytes \in 0 .. MAX_PAYLOAD
      BY InFlight
    <2>2. \A k \in 0 .. Pieces-1 :
            \/ fragment[k] = Absent
            \/ fragment[k].len \in 1 .. size /\ fragment[k].arr \in Data(fragment[k].len)
      BY InPlace DEF Received
    <2>3. total_recv \in 0 .. size
      BY Known, Counted DEF IInv, TotalInv
    <2> QED
      BY <2>1, <2>2, <2>3 DEF IInv, Ranges, TypeOK
  <1> QED
    BY <1>1, Invariance, PTL

\* A receive that returns has the whole payload: for every number of bytes, cut
\* into pieces or not, lost, late and out of order, and whether or not the two
\* ends agree on the cut.  The exception is half of every long double.
THEOREM DeliveredCorrect == Spec => []Delivered
  <1>1. IInv => Delivered
    BY DEF IInv
  <1> QED
    BY <1>1, Invariance, PTL

\* Nothing of an incomplete payload gets into the receiver's buffer.
THEOREM AllOrNothingCorrect == Spec => []AllOrNothing
  <1>1. IInv => AllOrNothing
    BY DEF IInv
  <1> QED
    BY <1>1, Invariance, PTL

\* A receive is given up only after a failure.
THEOREM NotRefusedCorrect == Spec => []NotRefused
  <1>1. IInv => NotRefused
    BY DEF IInv
  <1> QED
    BY <1>1, Invariance, PTL

\* No datagram is longer than full, and no fragment leaves the buffer.
THEOREM BoundsCorrect == Spec => []WithinBounds
  <1>1. IInv => WithinBounds
    <2> SUFFICES ASSUME IInv
                 PROVE  WithinBounds
      OBVIOUS
    <2>1. \A d \in net : MPI_HEADER + d.len <= d.bytes
      BY InFlight
    <2>2. ASSUME receiver = "assemble"
          PROVE  offset + fragment[i].len <= size
      <3>1. i \in 0 .. Pieces-1 /\ i \in Received /\ offset = i * PAYLOAD_SIZE
        BY <2>2, Known, Numbers DEF IInv, ReceiverInv
      <3>2. fragment[i].len = Length(i)
        BY <3>1, InPlace
      <3> QED
        BY <3>1, <3>2, Known, Lengths
    <2> QED
      BY <2>1, <2>2 DEF WithinBounds
  <1> QED
    BY <1>1, Invariance, PTL
=============================================================================
