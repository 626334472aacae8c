-------------------------- MODULE PrimitivesProofs --------------------------
(***************************************************************************)
(* Proofs about the two hash gadgets that work on a stream of bytes, for   *)
(* inputs of every length, the schemes over a group, for every prime order *)
(* and any number of randomizations, the rounds of the permutations, for   *)
(* every field and prover, the windowed hashes, for every window, and the  *)
(* packing of inputs, for every pair of fields.                            *)
(*                                                                         *)
(* Sha256Stream hashes the padded message however it is cut into updates.  *)
(* The invariant follows the bytes: what is hashed, what is pending and    *)
(* what the loop still has to consume are, in this order, a prefix of one  *)
(* fixed stream, the padded message.  While the message grows the stream   *)
(* changes, but only behind what has been passed.                          *)
(*                                                                         *)
(* Blake2sBlocks compresses the blocks of RFC 7693.  The invariant says    *)
(* that what is compressed and what waits are the blocks cut from the      *)
(* input, in order; a lemma reads such a block byte by byte.               *)
(*                                                                         *)
(* GroupSchemes shifts keys and signatures by bit loops that run in        *)
(* opposite directions.  The invariant says, modulo the order, what a key  *)
(* is and what a signature commits to, in terms of the sums of the shifts  *)
(* they got; lemmas bring the two loops together, and the sums of two      *)
(* sequences with the same elements.                                       *)
(*                                                                         *)
(* PermutationRounds runs a permutation and its circuit: every step, with  *)
(* any witness the constraints admit, maps equal states to equal ones and  *)
(* different states to different ones.                                     *)
(*                                                                         *)
(* WindowedHashes multiplies windows of bits with generators.  What a hash *)
(* is of are the bits and the zeros behind them, however they are filled   *)
(* up; from the bounds on a window's scalar follows that the bits can be   *)
(* told from it, window by window, Bowe-Hopwood's signed digits too.       *)
(*                                                                         *)
(* InputPacking carries elements of one field as elements of another.      *)
(* Bits laid end to end and cut again are the same bits; a chunk is short  *)
(* enough for the field that gets it; limbs are shifts and remainders of   *)
(* an element, whether cut from its bits or summed up bit by bit.          *)
(***************************************************************************)
EXTENDS Sha256Stream, Blake2sBlocks, PermutationRounds, GroupSchemes, WindowedHashes,
        InputPacking, SequenceTheorems, FiniteSetTheorems, WellFoundedInduction, TLAPS

Byte ==
  {Message(p) : p \in Nat} \cup {ZeroByte, Marker}
    \cup {LengthByte(n, k) : n \in Nat, k \in 1 .. 8}

Block == [1 .. 64 -> Byte]

Stream == [p \in Nat |-> PaddedByte(p)]

(* Blocks bs, then np pending bytes, then r, are a prefix of f.            *)
Follows(f, bs, pend, np, r) ==
  /\ \A b \in 1 .. Len(bs) : \A j \in 1 .. 64 : bs[b][j] = f[64 * (b - 1) + j]
  /\ \A j \in 1 .. np : pend[j] = f[64 * Len(bs) + j]
  /\ \A j \in 1 .. Len(r) : r[j] = f[64 * Len(bs) + np + j]

Types ==
  /\ blocks \in Seq(Block)
  /\ completed_data_blocks = Len(blocks)
  /\ pending \in Block
  /\ num_pending \in 0 .. 63
  /\ pc \in {"idle", "chunks", "done"}
  /\ rest \in Seq(Byte)
  /\ last \in BOOLEAN
  /\ total \in Nat

Taken == 64 * Len(blocks) + num_pending

IInv ==
  /\ Types
  /\ Follows(Stream, blocks, pending, num_pending, rest)
  /\ Taken + Len(rest) = IF last THEN PaddedLength ELSE total
  /\ pc = "idle" => ~last /\ rest = <<>>
  /\ pc = "done" => last /\ rest = <<>>
  /\ LoopKeepsOrder

-----------------------------------------------------------------------------
(* What the two slices of a sequence and an extended one consist of.       *)
LEMMA PrefixOf ==
  ASSUME NEW S, NEW s \in Seq(S), NEW n \in Nat, n <= Len(s)
  PROVE  /\ SubSeq(s, 1, n) \in Seq(S)
         /\ Len(SubSeq(s, 1, n)) = n
         /\ \A i \in 1 .. n : SubSeq(s, 1, n)[i] = s[i]
<1>1. Len(s) \in Nat
  BY LenProperties
<1>2. \A i \in 1 .. n : s[i] \in S
  BY <1>1, ElementOfSeq
<1>3. /\ SubSeq(s, 1, n) \in Seq(S)
      /\ Len(SubSeq(s, 1, n)) = IF 1 <= n THEN n - 1 + 1 ELSE 0
      /\ \A i \in 1 .. (n - 1 + 1) : SubSeq(s, 1, n)[i] = s[1 + i - 1]
  BY <1>2, SubSeqProperties
<1>4. n - 1 + 1 = n /\ \A i \in 1 .. n : 1 + i - 1 = i
  OBVIOUS
<1>5. Len(SubSeq(s, 1, n)) = n
  BY <1>3
<1>6. ASSUME NEW i \in 1 .. n PROVE SubSeq(s, 1, n)[i] = s[i]
  BY <1>3, <1>4
<1> QED BY <1>3, <1>5, <1>6

LEMMA SuffixOf ==
  ASSUME NEW S, NEW s \in Seq(S), NEW m \in Nat, m <= Len(s)
  PROVE  /\ SubSeq(s, m + 1, Len(s)) \in Seq(S)
         /\ Len(SubSeq(s, m + 1, Len(s))) = Len(s) - m
         /\ \A i \in 1 .. (Len(s) - m) : SubSeq(s, m + 1, Len(s))[i] = s[m + i]
<1>1. Len(s) \in Nat
  BY LenProperties
<1>2. \A i \in (m + 1) .. Len(s) : s[i] \in S
  BY <1>1, ElementOfSeq
<1>3. m + 1 \in Int /\ Len(s) \in Int
  BY <1>1
<1> DEFINE k == m + 1
           n == Len(s)
<1>4. k \in Int /\ n \in Int /\ \A i \in k .. n : s[i] \in S
  BY <1>2, <1>3
<1> HIDE DEF k, n
<1>5. /\ SubSeq(s, k, n) \in Seq(S)
      /\ Len(SubSeq(s, k, n)) = IF k <= n THEN n - k + 1 ELSE 0
      /\ \A i \in 1 .. (n - k + 1) : SubSeq(s, k, n)[i] = s[k + i - 1]
  BY <1>4, SubSeqProperties
<1>6. ASSUME NEW i \in 1 .. (Len(s) - m)
      PROVE  SubSeq(s, m + 1, Len(s))[i] = s[m + i]
  <2>1. i \in 1 .. (n - k + 1) /\ k + i - 1 = m + i
    BY <1>1 DEF k, n
  <2>2. SubSeq(s, k, n)[i] = s[m + i]
    BY <1>5, <2>1
  <2> QED BY <2>2 DEF k, n
<1>7. Len(SubSeq(s, m + 1, Len(s))) = Len(s) - m
  <2>1. Len(SubSeq(s, k, n)) = n - m
    BY <1>1, <1>5 DEF k, n
  <2> QED BY <2>1 DEF k, n
<1>8. SubSeq(s, m + 1, Len(s)) \in Seq(S)
  BY <1>5 DEF k, n
<1> QED BY <1>6, <1>7, <1>8

LEMMA AppendedTo ==
  ASSUME NEW S, NEW s \in Seq(S), NEW e \in S
  PROVE  /\ Append(s, e) \in Seq(S)
         /\ Len(Append(s, e)) = Len(s) + 1
         /\ \A i \in 1 .. Len(s) : Append(s, e)[i] = s[i]
         /\ Append(s, e)[Len(s) + 1] = e
  OBVIOUS

LEMMA FullBlock ==
  ASSUME NEW s \in Seq(Byte), Len(s) = 64
  PROVE  s \in Block
  BY LenProperties DEF Block

(* The copy keeps the buffer a buffer of 64 bytes.                         *)
LEMMA OverwriteType ==
  ASSUME NEW pend \in Block, NEW at \in 0 .. 63, NEW s \in Seq(Byte),
         at + Len(s) <= 64
  PROVE  /\ Overwrite(pend, at, s) \in Block
         /\ \A j \in 1 .. at : Overwrite(pend, at, s)[j] = pend[j]
         /\ \A j \in 1 .. Len(s) : Overwrite(pend, at, s)[at + j] = s[j]
<1>1. Len(s) \in Nat
  BY LenProperties
<1>2. \A j \in 1 .. 64 :
        Overwrite(pend, at, s)[j]
          = IF j \in (at + 1) .. (at + Len(s)) THEN s[j - at] ELSE pend[j]
  BY DEF Overwrite
<1>3. ASSUME NEW j \in 1 .. 64
      PROVE  (IF j \in (at + 1) .. (at + Len(s)) THEN s[j - at] ELSE pend[j]) \in Byte
  <2>1. CASE j \in (at + 1) .. (at + Len(s))
    <3>1. j - at \in 1 .. Len(s)
      BY <2>1, <1>1
    <3> QED BY <2>1, <3>1, ElementOfSeq
  <2>2. CASE j \notin (at + 1) .. (at + Len(s))
    BY <2>2 DEF Block
  <2> QED BY <2>1, <2>2
<1>4. Overwrite(pend, at, s) \in Block
  BY <1>3 DEF Overwrite, Block
<1>5. ASSUME NEW j \in 1 .. at PROVE Overwrite(pend, at, s)[j] = pend[j]
  <2>1. j \in 1 .. 64
    OBVIOUS
  <2>2. j \notin (at + 1) .. (at + Len(s))
    BY <1>1
  <2> QED BY <2>1, <2>2, <1>2
<1>6. ASSUME NEW j \in 1 .. Len(s)
      PROVE  Overwrite(pend, at, s)[at + j] = s[j]
  <2>1. /\ at + j \in 1 .. 64
        /\ at + j \in (at + 1) .. (at + Len(s))
        /\ (at + j) - at = j
    BY <1>1
  <2> QED BY <2>1, <1>2
<1> QED BY <1>4, <1>5, <1>6

(* Entering an update moves bytes from the data to the blocks and keeps    *)
(* their order.                                                            *)
LEMMA EnterUpdateFollows ==
  ASSUME NEW f, NEW data \in Seq(Byte),
         Types,
         Follows(f, blocks, pending, num_pending, data),
         EnterUpdate(data)
  PROVE  /\ blocks' \in Seq(Block)
         /\ completed_data_blocks' = Len(blocks')
         /\ pending' \in Block
         /\ num_pending' \in 0 .. 63
         /\ rest' \in Seq(Byte)
         /\ Follows(f, blocks', pending', num_pending', rest')
         /\ Taken' + Len(rest') = Taken + Len(data)
         /\ LoopKeepsOrder'
<1>0. /\ num_pending \in 0 .. 63
      /\ blocks \in Seq(Block) /\ Len(blocks) \in Nat
      /\ Len(data) \in Nat
      /\ pending \in Block
      /\ completed_data_blocks = Len(blocks)
  BY LenProperties DEF Types
<1>1. CASE ~(num_pending > 0 /\ num_pending + Len(data) >= 64)
  <2>1. /\ rest' = data
        /\ UNCHANGED <<blocks, completed_data_blocks, pending, num_pending>>
    BY <1>1 DEF EnterUpdate
  <2>2. LoopKeepsOrder'
    BY <1>0, <1>1, <2>1 DEF LoopKeepsOrder
  <2>3. Taken' = Taken
    BY <2>1 DEF Taken
  <2> QED BY <1>0, <2>1, <2>2, <2>3
<1>2. CASE num_pending > 0 /\ num_pending + Len(data) >= 64
  <2> DEFINE offset == 64 - num_pending
             given  == SubSeq(data, 1, offset)
             full   == Overwrite(pending, num_pending, given)
  <2>1. /\ offset \in 1 .. 63
        /\ offset \in Nat
        /\ offset <= Len(data)
        /\ num_pending + offset = 64
    BY <1>0, <1>2
  <2>4. /\ pending' = full
        /\ blocks' = Append(blocks, full)
        /\ completed_data_blocks' = completed_data_blocks + 1
        /\ num_pending' = 0
        /\ rest' = SubSeq(data, offset + 1, Len(data))
    BY <1>2 DEF EnterUpdate, From
  <2> HIDE DEF offset
  <2>2. /\ given \in Seq(Byte)
        /\ Len(given) = offset
        /\ \A j \in 1 .. offset : given[j] = data[j]
    BY <2>1, PrefixOf
  <2> HIDE DEF given
  <2>3. /\ full \in Block
        /\ \A j \in 1 .. num_pending : full[j] = pending[j]
        /\ \A j \in 1 .. offset : full[num_pending + j] = data[j]
    <3>1. num_pending + Len(given) <= 64
      <4>1. Len(given) = offset
        BY <2>2
      <4>2. 64 <= 64
        OBVIOUS
      <4> QED BY Zenon, <2>1, <4>1, <4>2
    <3>2. /\ full \in Block
          /\ \A j \in 1 .. num_pending : full[j] = pending[j]
          /\ \A j \in 1 .. Len(given) : full[num_pending + j] = given[j]
      BY <1>0, <2>2, <3>1, OverwriteType
    <3> HIDE DEF full
    <3> QED BY <2>2, <3>2
  <2> HIDE DEF full
  <2>5. /\ rest' \in Seq(Byte)
        /\ Len(rest') = Len(data) - offset
        /\ \A j \in 1 .. (Len(data) - offset) : rest'[j] = data[offset + j]
    BY <2>1, <2>4, SuffixOf
  <2>6. /\ blocks' \in Seq(Block)
        /\ Len(blocks') = Len(blocks) + 1
        /\ \A b \in 1 .. Len(blocks) : blocks'[b] = blocks[b]
        /\ blocks'[Len(blocks) + 1] = full
    BY <1>0, <2>3, <2>4, AppendedTo
  <2>11. Len(blocks') = Len(blocks) + 1 /\ num_pending' = 0
    BY <2>4, <2>6
  <2>7. ASSUME NEW j \in 1 .. 64
        PROVE  full[j] = f[64 * Len(blocks) + j]
    <3>2. CASE j <= num_pending
      <4>1. j \in 1 .. num_pending
        BY <1>0, <3>2
      <4> QED BY <4>1, <2>3 DEF Follows
    <3>3. CASE j > num_pending
      <4> DEFINE i == j - num_pending
      <4>1. /\ i \in 1 .. offset /\ i \in 1 .. Len(data)
            /\ num_pending + i = j
            /\ 64 * Len(blocks) + num_pending + i = 64 * Len(blocks) + j
        BY <1>0, <3>3, <2>1
      <4> HIDE DEF i
      <4>2. full[j] = data[i]
        BY <4>1, <2>3
      <4>3. data[i] = f[64 * Len(blocks) + num_pending + i]
        BY <4>1 DEF Follows
      <4> QED BY <4>1, <4>2, <4>3
    <3> QED BY <1>0, <3>2, <3>3
  <2>8. Follows(f, blocks', pending', num_pending', rest')
    <3>1. ASSUME NEW b \in 1 .. Len(blocks'), NEW j \in 1 .. 64
          PROVE  blocks'[b][j] = f[64 * (b - 1) + j]
      <4>1. CASE b \in 1 .. Len(blocks)
        <5>1. blocks'[b] = blocks[b]
          BY <4>1, <2>6
        <5>2. blocks[b][j] = f[64 * (b - 1) + j]
          BY <4>1 DEF Follows
        <5> QED BY <5>1, <5>2
      <4>2. CASE b = Len(blocks) + 1
        <5>1. blocks'[b] = full /\ b - 1 = Len(blocks)
          BY <1>0, <4>2, <2>6
        <5> QED BY <5>1, <2>7
      <4> QED BY <1>0, <4>1, <4>2, <2>6
    <3>2. ASSUME NEW j \in 1 .. Len(rest')
          PROVE  rest'[j] = f[64 * Len(blocks') + num_pending' + j]
      <4>1. offset + j \in 1 .. Len(data) /\ j \in 1 .. (Len(data) - offset)
        BY <1>0, <2>1, <2>5
      <4>2. data[offset + j] = f[64 * Len(blocks) + num_pending + (offset + j)]
        BY <4>1 DEF Follows
      <4>3. 64 * Len(blocks) + num_pending + (offset + j)
              = 64 * Len(blocks') + num_pending' + j
        BY <1>0, <2>1, <2>11, <4>1
      <4> QED BY <2>5, <4>1, <4>2, <4>3
    <3>3. \A j \in 1 .. num_pending' : pending'[j] = f[64 * Len(blocks') + j]
      BY <2>4
    <3> QED BY <3>1, <3>2, <3>3 DEF Follows
  <2>9. Taken' + Len(rest') = Taken + Len(data)
    <3>1. Len(rest') = Len(data) - offset
      BY <2>5
    <3> QED BY <1>0, <2>1, <2>11, <3>1 DEF Taken
  <2>10. LoopKeepsOrder'
    BY <1>0, <2>1, <2>4, <2>5 DEF LoopKeepsOrder
  <2> QED BY <1>0, <2>3, <2>4, <2>5, <2>6, <2>8, <2>9, <2>10
<1> QED BY <1>1, <1>2

(* The padding continues the padded message where the message ends.        *)
LEMMA PaddingFollows ==
  ASSUME Types, 64 * Len(blocks) + num_pending = total
  PROVE  /\ Padding \in Seq(Byte)
         /\ total + Len(Padding) = PaddedLength
         /\ \A j \in 1 .. Len(Padding) : Padding[j] = PaddedByte(total + j)
<1>1. /\ num_pending \in 0 .. 63
      /\ Len(blocks) \in Nat
      /\ total \in Nat
  BY DEF Types
<1>2. /\ PaddingOffset \in 1 .. 64
      /\ total + PaddingOffset + 8 = PaddedLength
  BY <1>1, Z3 DEF PaddingOffset, PaddedLength
<1>3. DataBitlen = 8 * total
  BY <1>1 DEF DataBitlen, Types
<1>4. Len(Padding) = PaddingOffset + 8 /\ DOMAIN Padding = 1 .. (PaddingOffset + 8)
  BY <1>2 DEF Padding
<1>5. \A j \in 1 .. (PaddingOffset + 8) : Padding[j] \in Byte
  BY <1>1, <1>2, <1>3 DEF Padding, Byte
<1>6. Padding \in Seq(Byte)
  BY <1>2, <1>5 DEF Padding
<1>7. ASSUME NEW j \in 1 .. (PaddingOffset + 8)
      PROVE  Padding[j] = PaddedByte(total + j)
  BY <1>1, <1>2, <1>3 DEF Padding, PaddedByte
<1>8. \A j \in 1 .. Len(Padding) : Padding[j] = PaddedByte(total + j)
  BY <1>4, <1>7
<1>9. total + Len(Padding) = PaddedLength
  BY <1>1, <1>2, <1>4
<1> QED BY <1>6, <1>8, <1>9

-----------------------------------------------------------------------------
LEMMA InitIInv == Init => IInv
<1> SUFFICES ASSUME Init PROVE IInv
  OBVIOUS
<1>1. Types
  <2>1. pending \in Block
    BY DEF Init, Block, Byte
  <2>2. blocks \in Seq(Block) /\ rest \in Seq(Byte) /\ Len(blocks) = 0
    BY EmptySeq DEF Init
  <2>3. /\ completed_data_blocks = 0 /\ num_pending = 0 /\ total = 0
        /\ pc = "idle" /\ last = FALSE
    BY DEF Init
  <2>4. completed_data_blocks = Len(blocks)
    BY <2>2, <2>3
  <2>5. num_pending \in 0 .. 63 /\ total \in Nat
    BY <2>3
  <2>6. pc \in {"idle", "chunks", "done"} /\ last \in BOOLEAN
    BY <2>3
  <2> QED BY <2>1, <2>2, <2>4, <2>5, <2>6 DEF Types
<1>2. Follows(Stream, blocks, pending, num_pending, rest)
  BY DEF Init, Follows
<1> QED BY <1>1, <1>2 DEF Init, IInv, Taken, LoopKeepsOrder

LEMMA UpdateIInv ==
  ASSUME IInv, NEW n \in Lengths, Update(n)
  PROVE  IInv'
<1> DEFINE data == [j \in 1 .. n |-> Message(total + j)]
<1>1. /\ n \in Nat
      /\ total \in Nat
      /\ num_pending \in 0 .. 63
      /\ Len(blocks) \in Nat
      /\ 64 * Len(blocks) + num_pending = total
      /\ pc = "idle" /\ ~last /\ last \in BOOLEAN
      /\ last' = last
      /\ total' = total + n
      /\ EnterUpdate(data)
      /\ pc' = "chunks"
  BY LengthsAssumption DEF IInv, Types, Taken, Update, EnterUpdate
<1>2. data \in Seq(Byte) /\ Len(data) = n
  BY <1>1 DEF Byte
<1>3. \A p \in Nat : p <= total => Stream'[p] = Stream[p]
  BY <1>1 DEF Stream, PaddedByte
<1>4. \A p \in Nat : p > total /\ p <= total' => Stream'[p] = Message(p)
  BY <1>1 DEF Stream, PaddedByte
<1>5. Follows(Stream', blocks, pending, num_pending, data)
  <2>1. ASSUME NEW b \in 1 .. Len(blocks), NEW j \in 1 .. 64
        PROVE  blocks[b][j] = Stream'[64 * (b - 1) + j]
    <3>1. 64 * (b - 1) + j \in Nat /\ 64 * (b - 1) + j <= total
      BY <1>1
    <3>2. blocks[b][j] = Stream[64 * (b - 1) + j]
      BY Zenon DEF IInv, Follows
    <3> QED BY Zenon, <3>1, <3>2, <1>3
  <2>2. ASSUME NEW j \in 1 .. num_pending
        PROVE  pending[j] = Stream'[64 * Len(blocks) + j]
    <3>1. 64 * Len(blocks) + j \in Nat /\ 64 * Len(blocks) + j <= total
      BY <1>1
    <3>2. pending[j] = Stream[64 * Len(blocks) + j]
      BY Zenon DEF IInv, Follows
    <3> QED BY Zenon, <3>1, <3>2, <1>3
  <2>3. ASSUME NEW j \in 1 .. Len(data)
        PROVE  data[j] = Stream'[64 * Len(blocks) + num_pending + j]
    <3>1. /\ 64 * Len(blocks) + num_pending + j = total + j
          /\ total + j \in Nat /\ total + j > total /\ total + j <= total'
      BY <1>1, <1>2
    <3> QED BY <3>1, <1>2, <1>4
  <2> QED BY <2>1, <2>2, <2>3 DEF Follows
<1> HIDE DEF data
<1>6. /\ blocks' \in Seq(Block)
      /\ completed_data_blocks' = Len(blocks')
      /\ pending' \in Block
      /\ num_pending' \in 0 .. 63
      /\ rest' \in Seq(Byte)
      /\ Follows(Stream', blocks', pending', num_pending', rest')
      /\ Taken' + Len(rest') = Taken + Len(data)
      /\ LoopKeepsOrder'
  BY <1>1, <1>2, <1>5, EnterUpdateFollows DEF IInv
<1>7. Types'
  BY <1>1, <1>6 DEF Types
<1>8. Taken' + Len(rest') = total'
  BY <1>1, <1>2, <1>6 DEF Taken
<1> QED BY <1>1, <1>6, <1>7, <1>8 DEF IInv

LEMMA FinalizeIInv ==
  ASSUME IInv, Finalize
  PROVE  IInv'
<1>1. /\ total \in Nat
      /\ num_pending \in 0 .. 63
      /\ Len(blocks) \in Nat
      /\ 64 * Len(blocks) + num_pending = total
      /\ pc = "idle" /\ ~last
      /\ last' = TRUE
      /\ total' = total
      /\ EnterUpdate(Padding)
      /\ pc' = "chunks"
  BY DEF IInv, Types, Taken, Finalize, EnterUpdate
<1>2. /\ Padding \in Seq(Byte)
      /\ total + Len(Padding) = PaddedLength
      /\ \A j \in 1 .. Len(Padding) : Padding[j] = PaddedByte(total + j)
  BY <1>1, PaddingFollows DEF IInv
<1>3. Follows(Stream, blocks, pending, num_pending, Padding)
  <2>1. ASSUME NEW j \in 1 .. Len(Padding)
        PROVE  Padding[j] = Stream[64 * Len(blocks) + num_pending + j]
    <3>1. total + j \in Nat
      BY <1>1, <1>2
    <3> QED BY <3>1, <1>1, <1>2 DEF Stream
  <2> QED BY <2>1 DEF IInv, Follows
<1>4. /\ blocks' \in Seq(Block)
      /\ completed_data_blocks' = Len(blocks')
      /\ pending' \in Block
      /\ num_pending' \in 0 .. 63
      /\ rest' \in Seq(Byte)
      /\ Follows(Stream, blocks', pending', num_pending', rest')
      /\ Taken' + Len(rest') = Taken + Len(Padding)
      /\ LoopKeepsOrder'
  BY <1>1, <1>2, <1>3, EnterUpdateFollows DEF IInv
<1>5. Stream' = Stream /\ PaddedLength' = PaddedLength
  BY <1>1 DEF Stream, PaddedByte, PaddedLength
<1>6. Types'
  BY <1>1, <1>4 DEF Types
<1>7. Taken' + Len(rest') = PaddedLength'
  BY <1>1, <1>2, <1>4, <1>5 DEF Taken
<1> QED BY <1>1, <1>4, <1>5, <1>6, <1>7 DEF IInv

LEMMA FullChunkIInv ==
  ASSUME IInv, FullChunk
  PROVE  IInv'
<1> DEFINE chunk == SubSeq(rest, 1, 64)
<1>0. /\ rest \in Seq(Byte) /\ Len(rest) \in Nat
      /\ blocks \in Seq(Block) /\ Len(blocks) \in Nat
  BY DEF IInv, Types
<1>1. /\ Len(rest) >= 64
      /\ pc = "chunks"
      /\ UNCHANGED <<pending, num_pending, pc, last, total>>
      /\ blocks' = Append(blocks, chunk)
      /\ rest' = SubSeq(rest, 64 + 1, Len(rest))
      /\ completed_data_blocks' = completed_data_blocks + 1
      /\ num_pending = 0
  BY DEF IInv, Types, LoopKeepsOrder, FullChunk, From
<1>2. chunk \in Block /\ \A j \in 1 .. 64 : chunk[j] = rest[j]
  <2>1. /\ chunk \in Seq(Byte)
        /\ Len(chunk) = 64
        /\ \A j \in 1 .. 64 : chunk[j] = rest[j]
    <3>1. 64 \in Nat /\ 64 <= Len(rest)
      BY <1>0, <1>1
    <3> QED BY <1>0, <3>1, PrefixOf
  <2> QED BY <2>1, FullBlock
<1> HIDE DEF chunk
<1>3. /\ blocks' \in Seq(Block)
      /\ Len(blocks') = Len(blocks) + 1
      /\ \A b \in 1 .. Len(blocks) : blocks'[b] = blocks[b]
      /\ blocks'[Len(blocks) + 1] = chunk
  BY <1>0, <1>1, <1>2, AppendedTo
<1>4. /\ rest' \in Seq(Byte)
      /\ Len(rest') = Len(rest) - 64
      /\ \A j \in 1 .. (Len(rest) - 64) : rest'[j] = rest[64 + j]
  <2>1. 64 \in Nat /\ 64 <= Len(rest)
    BY <1>0, <1>1
  <2>2. /\ SubSeq(rest, 64 + 1, Len(rest)) \in Seq(Byte)
        /\ Len(SubSeq(rest, 64 + 1, Len(rest))) = Len(rest) - 64
        /\ \A j \in 1 .. (Len(rest) - 64) :
             SubSeq(rest, 64 + 1, Len(rest))[j] = rest[64 + j]
    BY <1>0, <2>1, SuffixOf
  <2> QED BY <1>1, <2>2
<1>5. Stream' = Stream /\ PaddedLength' = PaddedLength
  BY <1>1 DEF Stream, PaddedByte, PaddedLength
<1>6. Follows(Stream, blocks', pending', num_pending', rest')
  <2>1. ASSUME NEW b \in 1 .. Len(blocks'), NEW j \in 1 .. 64
        PROVE  blocks'[b][j] = Stream[64 * (b - 1) + j]
    <3>1. CASE b \in 1 .. Len(blocks)
      <4>1. blocks'[b] = blocks[b]
        BY <3>1, <1>3
      <4>2. blocks[b][j] = Stream[64 * (b - 1) + j]
        BY <3>1 DEF IInv, Follows
      <4> QED BY <4>1, <4>2
    <3>2. CASE b = Len(blocks) + 1
      <4>1. j \in 1 .. Len(rest)
        BY <1>0, <1>1
      <4>2. rest[j] = Stream[64 * Len(blocks) + num_pending + j]
        BY <4>1 DEF IInv, Follows
      <4>3. 64 * Len(blocks) + num_pending + j = 64 * (b - 1) + j
        BY <1>0, <1>1, <3>2
      <4> QED BY <4>2, <4>3, <3>2, <1>2, <1>3
    <3> QED BY <3>1, <3>2, <1>0, <1>3
  <2>2. ASSUME NEW j \in 1 .. Len(rest')
        PROVE  rest'[j] = Stream[64 * Len(blocks') + num_pending' + j]
    <3>1. 64 + j \in 1 .. Len(rest) /\ j \in 1 .. (Len(rest) - 64)
      BY <1>0, <1>4
    <3>2. rest[64 + j] = Stream[64 * Len(blocks) + num_pending + (64 + j)]
      BY <3>1 DEF IInv, Follows
    <3>3. 64 * Len(blocks) + num_pending + (64 + j)
            = 64 * Len(blocks') + num_pending' + j
      BY <1>0, <1>1, <1>3
    <3> QED BY <1>4, <3>1, <3>2, <3>3
  <2>3. \A j \in 1 .. num_pending' : pending'[j] = Stream[64 * Len(blocks') + j]
    BY <1>1
  <2> QED BY <2>1, <2>2, <2>3 DEF Follows
<1>7. Types'
  BY <1>1, <1>3, <1>4 DEF IInv, Types
<1>8. Taken' + Len(rest') = Taken + Len(rest)
  <2>1. Len(rest') = Len(rest) - 64
    BY <1>4
  <2>2. Len(blocks') = Len(blocks) + 1
    BY <1>3
  <2>3. num_pending' = 0 /\ num_pending = 0
    BY <1>1
  <2> QED BY <1>0, <2>1, <2>2, <2>3 DEF Taken
<1>9. LoopKeepsOrder'
  BY <1>1, <1>4 DEF LoopKeepsOrder
<1> QED BY <1>1, <1>5, <1>6, <1>7, <1>8, <1>9 DEF IInv

LEMMA PartialChunkIInv ==
  ASSUME IInv, PartialChunk
  PROVE  IInv'
<1>1. /\ rest \in Seq(Byte) /\ Len(rest) \in Nat
      /\ num_pending \in 0 .. 63
      /\ num_pending + Len(rest) < 64
      /\ Len(blocks) \in Nat
      /\ pc = "chunks"
      /\ UNCHANGED <<blocks, completed_data_blocks, pc, last, total>>
      /\ pending' = Overwrite(pending, num_pending, rest)
      /\ num_pending' = num_pending + Len(rest)
      /\ rest' = <<>>
  <2>1. /\ rest \in Seq(Byte) /\ Len(rest) \in Nat
        /\ num_pending \in 0 .. 63 /\ Len(blocks) \in Nat
    BY DEF IInv, Types
  <2>2. /\ pc = "chunks"
        /\ UNCHANGED <<blocks, completed_data_blocks, pc, last, total>>
        /\ pending' = Overwrite(pending, num_pending, rest)
        /\ num_pending' = num_pending + Len(rest)
        /\ rest' = <<>>
    BY DEF PartialChunk
  <2>3. num_pending + Len(rest) < 64
    <3>1. Len(rest) < 64 /\ pc = "chunks"
      BY DEF PartialChunk
    <3>a. PICK n : n = Len(rest) /\ n \in Nat
      BY <2>1
    <3>2. ~(Len(rest) >= 64)
      BY <3>1, <3>a
    <3> QED BY <3>1, <3>2 DEF IInv, LoopKeepsOrder
  <2> QED BY <2>1, <2>2, <2>3
<1>2. /\ pending' \in Block
      /\ \A j \in 1 .. num_pending : pending'[j] = pending[j]
      /\ \A j \in 1 .. Len(rest) : pending'[num_pending + j] = rest[j]
  <2>1. pending \in Block /\ num_pending + Len(rest) <= 64
    BY <1>1 DEF IInv, Types
  <2> QED BY <1>1, <2>1, OverwriteType
<1>3. Stream' = Stream /\ PaddedLength' = PaddedLength
  BY <1>1 DEF Stream, PaddedByte, PaddedLength
<1>4. ASSUME NEW j \in 1 .. num_pending'
      PROVE  pending'[j] = Stream[64 * Len(blocks') + j]
  <2>1. CASE j <= num_pending
    BY <2>1, <1>1, <1>2 DEF IInv, Follows
  <2>2. CASE j > num_pending
    <3>1. j - num_pending \in 1 .. Len(rest) /\ num_pending + (j - num_pending) = j
      BY <2>2, <1>1
    <3>2. pending'[j] = rest[j - num_pending]
      BY <3>1, <1>2
    <3>3. rest[j - num_pending]
            = Stream[64 * Len(blocks) + num_pending + (j - num_pending)]
      BY <3>1 DEF IInv, Follows
    <3>4. 64 * Len(blocks) + num_pending + (j - num_pending) = 64 * Len(blocks') + j
      BY <1>1
    <3> QED BY <3>2, <3>3, <3>4
  <2> QED BY <2>1, <2>2, <1>1
<1>5. Follows(Stream, blocks', pending', num_pending', rest')
  <2>1. \A b \in 1 .. Len(blocks') : \A j \in 1 .. 64 :
          blocks'[b][j] = Stream[64 * (b - 1) + j]
    BY <1>1 DEF IInv, Follows
  <2> QED BY <2>1, <1>1, <1>4 DEF Follows
<1>6. Types'
  <2>1. num_pending' \in 0 .. 63
    <3>1. /\ num_pending \in 0 .. 63 /\ Len(rest) \in Nat
          /\ num_pending + Len(rest) < 64
      BY <1>1
    <3> DEFINE n == Len(rest)
    <3>2. num_pending' = num_pending + n
      BY <1>1
    <3>3. n \in Nat /\ num_pending + n < 64
      BY <3>1
    <3> HIDE DEF n
    <3>4. num_pending + n \in 0 .. 63
      BY <3>1, <3>3
    <3> QED BY <3>2, <3>4
  <2>2. rest' \in Seq(Byte)
    BY <1>1, EmptySeq
  <2> QED BY <1>1, <1>2, <2>1, <2>2 DEF IInv, Types
<1>7. Taken' + Len(rest') = Taken + Len(rest)
  BY <1>1 DEF Taken
<1>8. LoopKeepsOrder'
  BY <1>1 DEF LoopKeepsOrder
<1> QED BY <1>1, <1>3, <1>5, <1>6, <1>7, <1>8 DEF IInv

LEMMA ReturnIInv ==
  ASSUME IInv, Return
  PROVE  IInv'
<1>1. /\ UNCHANGED <<blocks, completed_data_blocks, pending, num_pending, rest,
                     last, total>>
      /\ rest = <<>>
      /\ pc' = IF last THEN "done" ELSE "idle"
      /\ last \in BOOLEAN
  BY DEF Return, IInv, Types
<1>2. Stream' = Stream /\ PaddedLength' = PaddedLength /\ Taken' = Taken
  BY <1>1 DEF Stream, PaddedByte, PaddedLength, Taken
<1>3. Types'
  BY <1>1 DEF IInv, Types
<1>4. LoopKeepsOrder'
  BY <1>1 DEF LoopKeepsOrder
<1>5. Follows(Stream', blocks', pending', num_pending', rest')
  BY <1>1, <1>2 DEF IInv
<1> QED BY <1>1, <1>2, <1>3, <1>4, <1>5 DEF IInv

LEMMA NextIInv == IInv /\ [Next]_vars => IInv'
<1> SUFFICES ASSUME IInv, [Next]_vars PROVE IInv'
  OBVIOUS
<1>1. ASSUME NEW n \in Lengths, Update(n) PROVE IInv'
  BY <1>1, UpdateIInv
<1>2. CASE Finalize
  BY <1>2, FinalizeIInv
<1>3. CASE FullChunk
  BY <1>3, FullChunkIInv
<1>4. CASE PartialChunk
  BY <1>4, PartialChunkIInv
<1>5. CASE Return
  BY <1>5, ReturnIInv
<1>6. CASE UNCHANGED vars
  <2>1. /\ UNCHANGED <<blocks, completed_data_blocks, pending, num_pending>>
        /\ UNCHANGED <<pc, rest, last, total>>
    BY <1>6 DEF vars
  <2>2. /\ Stream' = Stream /\ PaddedLength' = PaddedLength
        /\ Taken' = Taken /\ (LoopKeepsOrder <=> LoopKeepsOrder')
    BY <2>1 DEF Stream, PaddedByte, PaddedLength, Taken, LoopKeepsOrder
  <2>3. Types'
    BY <2>1 DEF IInv, Types
  <2> QED BY <2>1, <2>2, <2>3 DEF IInv
<1> QED BY <1>1, <1>2, <1>3, <1>4, <1>5, <1>6 DEF Next

-----------------------------------------------------------------------------
(* The buffer is never full between calls and keeps its 64 bytes.          *)
THEOREM Sha256TypeOK == Spec => []TypeOK
<1>1. IInv => TypeOK
  BY DEF IInv, Types, TypeOK, Block
<1> QED BY <1>1, InitIInv, NextIInv, PTL DEF Spec

(* In update a full chunk never overtakes pending bytes, and a partial one *)
(* fits behind them.                                                       *)
THEOREM Sha256LoopKeepsOrder == Spec => []LoopKeepsOrder
<1>1. IInv => LoopKeepsOrder
  BY DEF IInv
<1> QED BY <1>1, InitIInv, NextIInv, PTL DEF Spec

(* Between calls, what was hashed and what is pending are the message.     *)
THEOREM Sha256StreamKept == Spec => []StreamKept
<1>1. IInv => StreamKept
  <2> SUFFICES ASSUME IInv, pc = "idle" PROVE StreamKept
    BY DEF StreamKept
  <2>1. /\ 64 * Len(blocks) + num_pending = total
        /\ Len(blocks) \in Nat /\ num_pending \in 0 .. 63 /\ total \in Nat
    BY DEF IInv, Types, Taken
  <2>2. \A p \in Nat : p <= total => Stream[p] = Message(p)
    BY <2>1 DEF Stream, PaddedByte
  <2>3. ASSUME NEW b \in 1 .. Len(blocks), NEW j \in 1 .. 64
        PROVE  blocks[b][j] = Message(64 * (b - 1) + j)
    <3>1. 64 * (b - 1) + j \in Nat /\ 64 * (b - 1) + j <= total
      BY <2>1
    <3>2. blocks[b][j] = Stream[64 * (b - 1) + j]
      BY Zenon DEF IInv, Follows
    <3> QED BY Zenon, <3>1, <3>2, <2>2
  <2>4. ASSUME NEW j \in 1 .. num_pending
        PROVE  pending[j] = Message(64 * Len(blocks) + j)
    <3>1. 64 * Len(blocks) + j \in Nat /\ 64 * Len(blocks) + j <= total
      BY <2>1
    <3>2. pending[j] = Stream[64 * Len(blocks) + j]
      BY Zenon DEF IInv, Follows
    <3> QED BY Zenon, <3>1, <3>2, <2>2
  <2> QED BY <2>1, <2>3, <2>4 DEF StreamKept
<1> QED BY <1>1, InitIInv, NextIInv, PTL DEF Spec

(* When finalize returns, the blocks hashed are those of the padded        *)
(* message, of any length and however it was cut into updates.             *)
THEOREM Sha256HashesPaddedMessage == Spec => []HashesPaddedMessage
<1>1. IInv => HashesPaddedMessage
  <2> SUFFICES ASSUME IInv, pc = "done" PROVE HashesPaddedMessage
    BY DEF HashesPaddedMessage
  <2>1. /\ 64 * Len(blocks) + num_pending = PaddedLength
        /\ Len(blocks) \in Nat /\ num_pending \in 0 .. 63 /\ total \in Nat
    BY DEF IInv, Types, Taken
  <2>2. num_pending = 0 /\ 64 * Len(blocks) = PaddedLength
    BY <2>1 DEF PaddedLength
  <2>3. ASSUME NEW b \in 1 .. Len(blocks), NEW j \in 1 .. 64
        PROVE  blocks[b][j] = PaddedByte(64 * (b - 1) + j)
    <3>1. 64 * (b - 1) + j \in Nat
      BY <2>1
    <3> QED BY <3>1 DEF IInv, Follows, Stream
  <2> QED BY <2>2, <2>3 DEF HashesPaddedMessage
<1> QED BY <1>1, InitIInv, NextIInv, PTL DEF Spec

-----------------------------------------------------------------------------
(* Blake2s.  First: what a slice of a sequence consists of.                 *)
SliceAt(t, s, m, n) == Len(t) = n - m /\ \A i \in 1 .. (n - m) : t[i] = s[m + i]

LEMMA SliceOf ==
  ASSUME NEW S, NEW s \in Seq(S), NEW m \in Nat, NEW n \in Nat, m <= n, n <= Len(s)
  PROVE  SubSeq(s, m + 1, n) \in Seq(S) /\ SliceAt(SubSeq(s, m + 1, n), s, m, n)
<1>1. Len(s) \in Nat /\ \A i \in (m + 1) .. n : s[i] \in S
  BY LenProperties, ElementOfSeq
<1> DEFINE k == m + 1
<1>2. k \in Int /\ \A i \in k .. n : s[i] \in S
  BY <1>1
<1> HIDE DEF k
<1>3. /\ SubSeq(s, k, n) \in Seq(S)
      /\ Len(SubSeq(s, k, n)) = IF k <= n THEN n - k + 1 ELSE 0
      /\ \A i \in 1 .. (n - k + 1) : SubSeq(s, k, n)[i] = s[k + i - 1]
  BY <1>2, SubSeqProperties
<1>4. Len(SubSeq(s, k, n)) = n - m
  BY <1>3 DEF k
<1>5. ASSUME NEW i \in 1 .. (n - m) PROVE SubSeq(s, k, n)[i] = s[m + i]
  <2>1. i \in 1 .. (n - k + 1) /\ k + i - 1 = m + i
    BY DEF k
  <2> QED BY <1>3, <2>1
<1>6. SubSeq(s, k, n) \in Seq(S) /\ SliceAt(SubSeq(s, k, n), s, m, n)
  BY Zenon, <1>3, <1>4, <1>5 DEF SliceAt
<1> QED BY Zenon, <1>6 DEF k

(* The bytes that are hashed, or a zero.                                   *)
BlakeBytes == {InputByte(name, p) : name \in {"seed", "input", "r"}, p \in Nat} \cup {BlakeZero}

(* The byte of s at p, behind its end a zero.                              *)
At(s, p) == IF p <= Len(s) THEN s[p] ELSE BlakeZero

LEMMA FilledRead ==
  ASSUME NEW s \in Seq(BlakeBytes), Len(s) <= 4
  PROVE  \A k \in 1 .. 4 : Filled(s, 4)[k] = At(s, k)
<1> DEFINE zeros == [i \in 1 .. (4 - Len(s)) |-> BlakeZero]
<1>1. Len(s) \in Nat /\ 4 - Len(s) \in Nat
  BY LenProperties
<1>2. zeros \in Seq(BlakeBytes) /\ Len(zeros) = 4 - Len(s)
  BY <1>1, BlakeZero \in BlakeBytes DEF BlakeBytes
<1>3. \A i \in 1 .. (Len(s) + Len(zeros)) :
        (s \o zeros)[i] = IF i <= Len(s) THEN s[i] ELSE zeros[i - Len(s)]
  BY <1>2, ConcatProperties, Zenon
<1>4. \A i \in 1 .. 4 : (s \o zeros)[i] = IF i <= Len(s) THEN s[i] ELSE zeros[i - Len(s)]
  BY <1>1, <1>2, <1>3
<1>5. \A i \in 1 .. (4 - Len(s)) : zeros[i] = BlakeZero
  OBVIOUS
<1> HIDE DEF zeros
<1>6. ASSUME NEW k \in 1 .. 4 PROVE (s \o zeros)[k] = At(s, k)
  <2>1. CASE k <= Len(s) BY <2>1, <1>4 DEF At
  <2>2. CASE ~(k <= Len(s))
    <3>1. k - Len(s) \in 1 .. (4 - Len(s))
      BY <2>2, <1>1
    <3> QED BY <3>1, <2>2, <1>4, <1>5 DEF At
  <2> QED BY <2>1, <2>2
<1> QED BY <1>6 DEF Filled, zeros

(* A block of up to 64 bytes as words: its bytes, and zeros behind them.   *)
LEMMA WordsRead ==
  ASSUME NEW chunk \in Seq(BlakeBytes), Len(chunk) <= 64
  PROVE  \A w \in 1 .. 16 : \A k \in 1 .. 4 : WordsOf(chunk)[w][k] = At(chunk, 4 * (w - 1) + k)
<1> SUFFICES ASSUME NEW w \in 1 .. 16, NEW k \in 1 .. 4
             PROVE  WordsOf(chunk)[w][k] = At(chunk, 4 * (w - 1) + k)
  OBVIOUS
<1> DEFINE words == InChunks(chunk, 4)
           count == (Len(chunk) + 4 - 1) \div 4
           upto == IF w * 4 < Len(chunk) THEN w * 4 ELSE Len(chunk)
<1>1. Len(chunk) \in Nat /\ count \in Nat
  BY LenProperties
<1>2. Len(words) = count
  BY <1>1 DEF InChunks
<1>3. WordsOf(chunk)[w] = IF w <= count THEN Filled(words[w], 4) ELSE Filled(<<>>, 4)
  BY <1>2 DEF WordsOf
<1>4. CASE w <= count
  <2>1. words[w] = SubSeq(chunk, (w - 1) * 4 + 1, upto)
    <3>1. w \in 1 .. count
      BY <1>1, <1>4
    <3> QED BY Zenon, <3>1 DEF InChunks
  <2>2. /\ (w - 1) * 4 \in Nat /\ upto \in Nat
        /\ (w - 1) * 4 <= upto /\ upto <= Len(chunk) /\ upto - (w - 1) * 4 <= 4
    BY <1>1, <1>4
  <2>3. /\ words[w] \in Seq(BlakeBytes)
        /\ Len(words[w]) = upto - (w - 1) * 4
        /\ \A i \in 1 .. (upto - (w - 1) * 4) : words[w][i] = chunk[(w - 1) * 4 + i]
    <3> DEFINE m == (w - 1) * 4
               n == upto
    <3>1. m \in Nat /\ n \in Nat /\ m <= n /\ n <= Len(chunk)
      BY <2>2
    <3> HIDE DEF m, n
    <3>2. /\ SubSeq(chunk, m + 1, n) \in Seq(BlakeBytes)
          /\ Len(SubSeq(chunk, m + 1, n)) = n - m
          /\ \A i \in 1 .. (n - m) : SubSeq(chunk, m + 1, n)[i] = chunk[m + i]
      <4>1. SubSeq(chunk, m + 1, n) \in Seq(BlakeBytes) /\ SliceAt(SubSeq(chunk, m + 1, n), chunk, m, n)
        BY Zenon, <3>1, SliceOf
      <4> QED BY Zenon, <4>1 DEF SliceAt
    <3> QED BY <3>2, <2>1 DEF m, n
  <2> HIDE DEF words
  <2>4. Filled(words[w], 4)[k] = At(words[w], k)
    BY <2>2, <2>3, FilledRead
  <2>5. At(words[w], k) = At(chunk, 4 * (w - 1) + k)
    <3>1. CASE k <= Len(words[w])
      <4>1. k \in 1 .. (upto - (w - 1) * 4) /\ 4 * (w - 1) + k = (w - 1) * 4 + k
            /\ 4 * (w - 1) + k <= Len(chunk)
        BY <3>1, <2>2, <2>3
      <4> QED BY <4>1, <3>1, <2>3 DEF At
    <3>2. CASE ~(k <= Len(words[w]))
      <4>1. 4 * (w - 1) + k > Len(chunk)
        BY <3>2, <2>2, <2>3, <1>1
      <4>2. ~(4 * (w - 1) + k <= Len(chunk))
        BY <4>1, <1>1
      <4> QED BY <4>2, <3>2 DEF At
    <3> QED BY <3>1, <3>2
  <2> QED BY <1>3, <1>4, <2>4, <2>5
<1>5. CASE ~(w <= count)
  <2>1. <<>> \in Seq(BlakeBytes) /\ Len(<<>>) = 0
    OBVIOUS
  <2>2. Filled(<<>>, 4)[k] = At(<<>>, k)
    <3>1. Len(<<>>) <= 4
      BY <2>1
    <3> QED BY Zenon, <2>1, <3>1, FilledRead
  <2>3. ~(4 * (w - 1) + k <= Len(chunk)) /\ ~(k <= 0)
    BY <1>1, <1>5
  <2> QED BY <1>3, <1>5, <2>1, <2>2, <2>3 DEF At
<1> QED BY <1>4, <1>5

(* dd of RFC 7693.                                                         *)
BlockCount(n) == IF n = 0 THEN 1 ELSE (n + 63) \div 64

LEMMA BlocksRead ==
  ASSUME NEW h \in Seq(BlakeBytes)
  PROVE  /\ BlockCount(Len(h)) \in Nat \ {0}
         /\ DOMAIN Blocks(h) = 1 .. BlockCount(Len(h))
         /\ Blocks(h) \in Seq({Blocks(h)[b] : b \in 1 .. BlockCount(Len(h))})
         /\ Len(Blocks(h)) = BlockCount(Len(h))
         /\ \A b \in 1 .. BlockCount(Len(h)) : \A w \in 1 .. 16 : \A k \in 1 .. 4 :
              Blocks(h)[b][w][k] = At(h, 64 * (b - 1) + 4 * (w - 1) + k)
<1> DEFINE dd == BlockCount(Len(h))
<1>1. Len(h) \in Nat
  BY LenProperties
<1>2. dd \in Nat \ {0}
  BY <1>1 DEF BlockCount
<1>3. DOMAIN Blocks(h) = 1 .. dd /\ Blocks(h) = [b \in 1 .. dd |-> Blocks(h)[b]]
  <2>1. CASE h = <<>>
    <3>1. Len(h) = 0 /\ dd = 1
      BY <2>1 DEF BlockCount
    <3>2. Blocks(h) = <<WordsOf(<<>>)>>
      BY <2>1 DEF Blocks
    <3> QED BY <3>1, <3>2
  <2>2. CASE h # <<>>
    <3>1. Len(h) # 0 /\ dd = (Len(h) + 64 - 1) \div 64
      BY <2>2, <1>1, EmptySeq DEF BlockCount
    <3>2. DOMAIN InChunks(h, 64) = 1 .. dd
      BY <3>1 DEF InChunks
    <3>3. Blocks(h) = [b \in DOMAIN InChunks(h, 64) |-> WordsOf(InChunks(h, 64)[b])]
      BY <2>2 DEF Blocks
    <3> QED BY <3>2, <3>3
  <2> QED BY <2>1, <2>2
<1>4. Blocks(h) \in Seq({Blocks(h)[b] : b \in 1 .. dd}) /\ Len(Blocks(h)) = dd
  <2> DEFINE e(b) == Blocks(h)[b]
             V == {e(b) : b \in 1 .. dd}
  <2>1. \A b \in 1 .. dd : e(b) \in V
    OBVIOUS
  <2> HIDE DEF dd
  <2>2. dd \in Nat
    BY <1>2
  <2>3. [b \in 1 .. dd |-> e(b)] \in Seq(V) /\ Len([b \in 1 .. dd |-> e(b)]) = dd
    <3> HIDE DEF V, e
    <3> QED BY <2>1, <2>2
  <2> QED BY <1>3, <2>3
<1>5. ASSUME NEW b \in 1 .. dd, NEW w \in 1 .. 16, NEW k \in 1 .. 4
      PROVE  Blocks(h)[b][w][k] = At(h, 64 * (b - 1) + 4 * (w - 1) + k)
  <2>1. CASE h = <<>>
    <3>1. Len(h) = 0 /\ dd = 1
      BY <2>1 DEF BlockCount
    <3>2. b = 1 /\ Blocks(h)[b] = WordsOf(<<>>)
      BY <2>1, <3>1 DEF Blocks
    <3>3. WordsOf(h)[w][k] = At(h, 4 * (w - 1) + k)
      <4>1. Len(h) <= 64
        BY <3>1
      <4> QED BY Zenon, <4>1, WordsRead
    <3>4. 64 * (b - 1) + 4 * (w - 1) + k = 4 * (w - 1) + k
      BY <3>2
    <3> QED BY <2>1, <3>2, <3>3, <3>4
  <2>2. CASE h # <<>>
    <3> DEFINE m == (b - 1) * 64
               n == IF b * 64 < Len(h) THEN b * 64 ELSE Len(h)
               chunk == SubSeq(h, m + 1, n)
    <3>1. Len(h) # 0 /\ dd = (Len(h) + 64 - 1) \div 64
      BY <2>2, <1>1, EmptySeq DEF BlockCount
    <3>2. m \in Nat /\ n \in Nat /\ m <= n /\ n <= Len(h) /\ n - m <= 64
      BY <3>1, <1>1
    <3>3. Blocks(h)[b] = WordsOf(chunk)
      <4>1. DOMAIN InChunks(h, 64) = 1 .. dd /\ InChunks(h, 64)[b] = chunk
        BY <3>1 DEF InChunks
      <4>2. Blocks(h) = [i \in DOMAIN InChunks(h, 64) |-> WordsOf(InChunks(h, 64)[i])]
        BY <2>2 DEF Blocks
      <4> HIDE DEF chunk, dd
      <4> QED BY <4>1, <4>2
    <3>4. n = Len(h) \/ n - m = 64
      BY <3>2
    <3>5. 4 * (w - 1) + k \in 1 .. 64 /\ 64 * (b - 1) + 4 * (w - 1) + k = m + (4 * (w - 1) + k)
      OBVIOUS
    <3> DEFINE p == 4 * (w - 1) + k
    <3>6. p \in 1 .. 64
      BY <3>5
    <3> HIDE DEF m, n, p
    <3>7. /\ chunk \in Seq(BlakeBytes) /\ Len(chunk) = n - m
          /\ \A i \in 1 .. (n - m) : chunk[i] = h[m + i]
      <4>1. chunk \in Seq(BlakeBytes) /\ SliceAt(chunk, h, m, n)
        BY Zenon, <3>2, SliceOf
      <4> QED BY Zenon, <4>1 DEF SliceAt
    <3> HIDE DEF chunk
    <3>8. WordsOf(chunk)[w][k] = At(chunk, p)
      BY <3>2, <3>7, WordsRead DEF p
    <3>9. At(chunk, p) = At(h, m + p)
      <4>1. CASE p <= n - m
        BY <4>1, <3>2, <3>6, <3>7, <1>1 DEF At
      <4>2. CASE ~(p <= n - m)
        <5>1. ~(m + p <= Len(h))
          BY <4>2, <3>2, <3>4, <3>6, <1>1
        <5> QED BY <4>2, <5>1, <3>7 DEF At
      <4> QED BY <4>1, <4>2
    <3> QED BY <3>3, <3>5, <3>8, <3>9 DEF p
  <2> QED BY <2>1, <2>2
<1> QED BY <1>2, <1>3, <1>4, <1>5

-----------------------------------------------------------------------------
(* Between steps what is compressed and what waits are the blocks of the   *)
(* input, in their order.                                                  *)
BlocksOf(h) == {Blocks(h)[b] : b \in 1 .. BlockCount(Len(h))}

CompressedOK ==
  /\ compressed \in Seq([block : BlocksOf(hashed), t : Nat, f : BOOLEAN])
  /\ waiting \in Seq(BlocksOf(hashed))
  /\ Len(compressed) + Len(waiting) = BlockCount(Len(hashed))
  /\ \A b \in 1 .. Len(compressed) :
       compressed[b] = [block |-> Blocks(hashed)[b],
                        t |-> IF b < BlockCount(Len(hashed)) THEN b * 64 ELSE Len(hashed),
                        f |-> b = BlockCount(Len(hashed))]
  /\ \A i \in 1 .. Len(waiting) : waiting[i] = Blocks(hashed)[Len(compressed) + i]

BlakeInv ==
  /\ hashed \in Seq(BlakeBytes)
  /\ \/ blakePc = "idle" /\ compressed = <<>>
     \/ blakePc = "blocks" /\ CompressedOK /\ waiting # <<>>
     \/ blakePc = "done" /\ CompressedOK /\ waiting = <<>>

LEMMA BytesType ==
  ASSUME NEW name \in {"seed", "input", "r"}, NEW n \in Nat
  PROVE  Bytes(name, n) \in Seq(BlakeBytes)
<1>1. \A p \in 1 .. n : InputByte(name, p) \in BlakeBytes
  BY DEF BlakeBytes
<1> QED BY <1>1 DEF Bytes

LEMMA EvaluateInv ==
  ASSUME BlakeInv, NEW input \in Seq(BlakeBytes), Evaluate(input)
  PROVE  BlakeInv'
<1>1. /\ hashed' = input /\ waiting' = Blocks(input) /\ compressed' = <<>> /\ blakePc' = "blocks"
  BY DEF BlakeInv, Evaluate
<1> DEFINE dd == BlockCount(Len(input))
<1>2. /\ dd \in Nat \ {0} /\ Blocks(input) \in Seq(BlocksOf(input)) /\ Len(Blocks(input)) = dd
  BY BlocksRead, Zenon DEF BlocksOf
<1>3. Blocks(input) # <<>>
  BY <1>2
<1>4. CompressedOK'
  <2>1. compressed' \in Seq([block : BlocksOf(hashed)', t : Nat, f : BOOLEAN])
    BY <1>1
  <2>2. Len(compressed') = 0 /\ Len(waiting') = dd
    BY <1>1, <1>2
  <2>3. \A i \in 1 .. Len(waiting') : waiting'[i] = Blocks(input)[Len(compressed') + i]
    BY <1>1, <1>2, <2>2
  <2> HIDE DEF dd
  <2>4. Len(compressed') + Len(waiting') = dd /\ 1 .. Len(compressed') = {}
    BY <1>2, <2>2
  <2> QED BY <1>1, <1>2, <2>1, <2>3, <2>4 DEF CompressedOK, dd, BlocksOf
<1> QED BY <1>1, <1>3, <1>4 DEF BlakeInv

LEMMA BlocksLeft ==
  ASSUME NEW n \in Nat, NEW rem \in Nat \ {0}, NEW dd, n + rem = dd
  PROVE  (rem > 1 <=> n + 1 < dd) /\ (rem = 1 <=> n + 1 = dd)
  OBVIOUS

(* A turn of the loop moves the first block that waits behind the others.  *)
LEMMA CompressInv ==
  ASSUME BlakeInv, blakePc = "blocks", hashed' = hashed, waiting' = Tail(waiting),
         NEW t, NEW f \in BOOLEAN,
         t = (IF Len(waiting) > 1 THEN (Len(compressed) + 1) * 64 ELSE Len(hashed)),
         f <=> Len(waiting) = 1,
         Compress(Head(waiting), t, f)
  PROVE  CompressedOK' /\ Len(waiting') = Len(waiting) - 1 /\ Len(waiting) \in Nat \ {0}
<1> DEFINE dd == BlockCount(Len(hashed))
           n == Len(compressed)
           entry == [block |-> Head(waiting), t |-> t, f |-> f]
           Done == [block : BlocksOf(hashed), t : Nat, f : BOOLEAN]
<1>1. CompressedOK /\ waiting # <<>> /\ hashed \in Seq(BlakeBytes)
  BY DEF BlakeInv
<1>2. /\ compressed \in Seq(Done) /\ waiting \in Seq(BlocksOf(hashed))
      /\ n + Len(waiting) = dd
  BY <1>1 DEF CompressedOK
<1>3. n \in Nat /\ Len(waiting) \in Nat \ {0} /\ Len(hashed) \in Nat
  BY <1>1, <1>2, LenProperties, EmptySeq
<1>4. /\ Head(waiting) \in BlocksOf(hashed) /\ Tail(waiting) \in Seq(BlocksOf(hashed))
      /\ Len(Tail(waiting)) = Len(waiting) - 1 /\ Head(waiting) = waiting[1]
      /\ \A i \in 1 .. Len(Tail(waiting)) : Tail(waiting)[i] = waiting[i + 1]
  BY <1>1, <1>2, HeadTailProperties
<1>5. entry = [block |-> Blocks(hashed)[n + 1],
              t |-> IF n + 1 < dd THEN (n + 1) * 64 ELSE Len(hashed),
              f |-> n + 1 = dd]
  <2>1. waiting[1] = Blocks(hashed)[n + 1]
    BY <1>1, <1>3 DEF CompressedOK
  <2>2. (Len(waiting) > 1 <=> n + 1 < dd) /\ (Len(waiting) = 1 <=> n + 1 = dd)
    BY Zenon, <1>2, <1>3, BlocksLeft
  <2>3. t = (IF n + 1 < dd THEN (n + 1) * 64 ELSE Len(hashed)) /\ f = (n + 1 = dd)
    BY Zenon, <2>2
  <2> QED BY <2>1, <2>3, <1>4
<1>6. entry \in Done
  <2>1. t \in Nat /\ f \in BOOLEAN
    BY <1>3
  <2> QED BY <2>1, <1>4
<1>7. compressed' = Append(compressed, entry)
  BY DEF Compress
<1> HIDE DEF entry, Done
<1>8. /\ compressed' \in Seq(Done) /\ Len(compressed') = n + 1
      /\ \A b \in 1 .. n : compressed'[b] = compressed[b]
      /\ compressed'[n + 1] = entry
  BY <1>2, <1>6, <1>7, AppendProperties
<1>9. Len(compressed') + Len(waiting') = dd
  BY <1>2, <1>3, <1>4, <1>8
<1>10. ASSUME NEW b \in 1 .. Len(compressed')
       PROVE  compressed'[b] = [block |-> Blocks(hashed)[b],
                                t |-> IF b < dd THEN b * 64 ELSE Len(hashed),
                                f |-> b = dd]
  <2>1. CASE b \in 1 .. n
    BY <2>1, <1>1, <1>8 DEF CompressedOK
  <2>2. CASE b = n + 1
    BY <2>2, <1>5, <1>8 DEF entry
  <2> QED BY <2>1, <2>2, <1>3, <1>8
<1>11. ASSUME NEW i \in 1 .. Len(waiting')
       PROVE  waiting'[i] = Blocks(hashed)[Len(compressed') + i]
  <2>1. i + 1 \in 1 .. Len(waiting) /\ n + (i + 1) = Len(compressed') + i
    BY <1>3, <1>4, <1>8
  <2>2. waiting[i + 1] = Blocks(hashed)[n + (i + 1)]
    BY <1>1, <2>1 DEF CompressedOK
  <2> QED BY <2>1, <2>2, <1>4
<1> HIDE DEF dd
<1>12. CompressedOK'
  BY <1>4, <1>8, <1>9, <1>10, <1>11 DEF CompressedOK, Done, dd
<1> QED BY <1>3, <1>4, <1>12

LEMMA BlakeStep == BlakeInv /\ [BlakeNext]_blakeVars => BlakeInv'
<1> SUFFICES ASSUME BlakeInv, [BlakeNext]_blakeVars PROVE BlakeInv'
  OBVIOUS
<1> USE BlakeLengthsAssumption
<1>1. ASSUME NEW n \in BlakeLengths,
             Evaluate(Bytes("input", n)) \/ EvaluatePrf(n) \/ Commit(n)
      PROVE  BlakeInv'
  <2>1. /\ Bytes("input", n) \in Seq(BlakeBytes)
        /\ Bytes("seed", 32) \in Seq(BlakeBytes)
        /\ Bytes("r", 32) \in Seq(BlakeBytes)
    BY BytesType
  <2>2. /\ Bytes("seed", 32) \o Bytes("input", n) \in Seq(BlakeBytes)
        /\ Bytes("input", n) \o Bytes("r", 32) \in Seq(BlakeBytes)
    BY <2>1, ConcatProperties
  <2>3. PICK input \in Seq(BlakeBytes) : Evaluate(input)
    BY <1>1, <2>1, <2>2 DEF EvaluatePrf, Commit
  <2> QED BY <2>3, EvaluateInv
<1>2. CASE InnerBlock
  <2>1. /\ blakePc = "blocks" /\ hashed' = hashed /\ waiting' = Tail(waiting)
        /\ Len(waiting) > 1 /\ blakePc' = blakePc
        /\ Compress(Head(waiting), (Len(compressed) + 1) * 64, FALSE)
    BY <1>2 DEF InnerBlock
  <2>2. /\ Compress(Head(waiting), (Len(compressed) + 1) * 64, FALSE)
        /\ (Len(compressed) + 1) * 64
             = (IF Len(waiting) > 1 THEN (Len(compressed) + 1) * 64 ELSE Len(hashed))
        /\ FALSE <=> Len(waiting) = 1
    <3>1. Len(waiting) # 1
      BY <2>1
    <3> QED BY Zenon, <2>1, <3>1
  <2>3. CompressedOK' /\ Len(waiting') = Len(waiting) - 1 /\ Len(waiting) \in Nat \ {0}
    BY <2>1, <2>2, CompressInv
  <2>4. waiting' # <<>>
    <3>1. Len(waiting') # 0
      BY <2>1, <2>3
    <3> QED BY <3>1
  <2> QED BY <2>1, <2>3, <2>4 DEF BlakeInv
<1>3. CASE FinalBlock
  <2>1. /\ blakePc = "blocks" /\ hashed' = hashed /\ waiting' = <<>>
        /\ Len(waiting) = 1 /\ blakePc' = "done"
        /\ Compress(Head(waiting), Len(hashed), TRUE)
    BY <1>3 DEF FinalBlock
  <2>2. waiting' = Tail(waiting)
    <3>1. waiting \in Seq(BlocksOf(hashed)) /\ waiting # <<>>
      BY <2>1 DEF BlakeInv, CompressedOK
    <3>2. Tail(waiting) \in Seq(BlocksOf(hashed)) /\ Len(Tail(waiting)) = Len(waiting) - 1
      BY <3>1, HeadTailProperties
    <3>3. Len(Tail(waiting)) = 0
      BY <2>1, <3>2
    <3> QED BY <2>1, <3>2, <3>3, EmptySeq
  <2>3. CompressedOK'
    <3>1. /\ TRUE <=> Len(waiting) = 1
          /\ Len(hashed) = (IF Len(waiting) > 1 THEN (Len(compressed) + 1) * 64 ELSE Len(hashed))
      BY <2>1
    <3> QED BY <2>1, <2>2, <3>1, CompressInv
  <2> QED BY <2>1, <2>3 DEF BlakeInv
<1>4. CASE UNCHANGED blakeVars
  BY <1>4 DEF blakeVars, BlakeInv, CompressedOK
<1> QED BY <1>1, <1>2, <1>3, <1>4 DEF BlakeNext

(* Whatever the length of an input, and for the PRF, the commitment and    *)
(* the bare call, the blocks compressed with their counters and flags are  *)
(* those of RFC 7693.                                                      *)
THEOREM Blake2sCompressesAsRFC7693 == BlakeSpec => []CompressesAsRFC7693
<1>1. BlakeInit => BlakeInv
  BY DEF BlakeInit, BlakeInv
<1>2. BlakeInv => CompressesAsRFC7693
  <2> SUFFICES ASSUME BlakeInv, blakePc = "done" PROVE CompressesAsRFC7693
    BY DEF CompressesAsRFC7693
  <2> DEFINE dd == BlockCount(Len(hashed))
  <2>1. CompressedOK /\ waiting = <<>> /\ hashed \in Seq(BlakeBytes)
    BY DEF BlakeInv
  <2>2. /\ dd \in Nat \ {0}
        /\ \A b \in 1 .. dd : \A w \in 1 .. 16 : \A k \in 1 .. 4 :
             Blocks(hashed)[b][w][k] = At(hashed, 64 * (b - 1) + 4 * (w - 1) + k)
    BY <2>1, BlocksRead, Zenon
  <2>3. Len(compressed) = dd
    <3>1. Len(compressed) + 0 = dd /\ Len(compressed) \in Nat
      BY <2>1, LenProperties DEF CompressedOK
    <3> QED BY <3>1
  <2>4. \A b \in 1 .. dd :
          /\ compressed[b].block = Blocks(hashed)[b]
          /\ compressed[b].t = (IF b < dd THEN b * 64 ELSE Len(hashed))
          /\ compressed[b].f = (b = dd)
    BY <2>1, <2>3 DEF CompressedOK
  <2> HIDE DEF dd
  <2>5. \A b \in 1 .. dd : \A w \in 1 .. 16 : \A k \in 1 .. 4 :
          compressed[b].block[w][k] = At(hashed, 64 * (b - 1) + 4 * (w - 1) + k)
    <3> SUFFICES ASSUME NEW b \in 1 .. dd, NEW w \in 1 .. 16, NEW k \in 1 .. 4
                 PROVE  compressed[b].block[w][k] = At(hashed, 64 * (b - 1) + 4 * (w - 1) + k)
      BY Zenon
    <3>1. compressed[b].block = Blocks(hashed)[b]
      BY <2>4
    <3>2. Blocks(hashed)[b][w][k] = At(hashed, 64 * (b - 1) + 4 * (w - 1) + k)
      BY Zenon, <2>2
    <3> QED BY Zenon, <3>1, <3>2
  <2> QED BY <2>3, <2>4, <2>5 DEF CompressesAsRFC7693, dd, BlockCount, At
<1> QED BY <1>1, <1>2, BlakeStep, PTL DEF BlakeSpec

-----------------------------------------------------------------------------
(* Induction is stated for a set of numbers instead of a predicate, so     *)
(* that first-order provers can use it: the recursive functions of the     *)
(* models are reasoned about with it.  First: a set of natural numbers     *)
(* that is not empty has a least element.                                  *)
LEMMA LeastNumber ==
  ASSUME NEW S, S \subseteq Nat, S # {}
  PROVE  \E m \in S : \A n \in S : m <= n
<1>1. /\ IsWellFoundedOn(OpToRel(<, Nat), Nat)
      /\ \A n, m \in Nat : n < m => <<n, m>> \in OpToRel(<, Nat)
  <2>1. \A n, m \in Nat : n < m => <<n, m>> \in OpToRel(<, Nat)
    BY DEF OpToRel
  <2>2. QED
    BY <2>1, NatLessThanWellFounded
<1>2. \E R : /\ IsWellFoundedOn(R, Nat)
             /\ \A n, m \in Nat : n < m => <<n, m>> \in R
  BY <1>1
<1>3. PICK R : /\ IsWellFoundedOn(R, Nat)
               /\ \A n, m \in Nat : n < m => <<n, m>> \in R
  BY <1>2
<1>4. PICK m \in S : \A n \in S : ~ (<<n, m>> \in R)
  <2>1. IsWellFoundedOn(R, Nat)
    BY <1>3
  <2>2. QED
    BY <2>1, WFMin, ZenonT(30)
<1>5. \A n \in S : ~ (n < m)
  <2>1. \A n \in S : n \in Nat
    OBVIOUS
  <2>2. \A n, k \in Nat : n < k => <<n, k>> \in R
    BY <1>3
  <2>3. QED
    BY <1>4, <2>1, <2>2, Zenon
<1>6. QED
  BY <1>5

(* A set that has 0, and n + 1 with every n, has every natural number.     *)
LEMMA InductionOnSet ==
  ASSUME NEW S, 0 \in S, \A n \in Nat : n \in S => n + 1 \in S
  PROVE  Nat \subseteq S
<1> DEFINE T == Nat \ S
<1>1. SUFFICES ASSUME T # {} PROVE FALSE
  OBVIOUS
<1>2. PICK m \in T : \A n \in T : m <= n
  <2>1. T \subseteq Nat
    OBVIOUS
  <2> HIDE DEF T
  <2>2. QED
    BY <1>1, <2>1, LeastNumber
<1>3. m # 0 /\ m - 1 \in Nat /\ m - 1 + 1 = m
  OBVIOUS
<1>4. m - 1 \notin T
  BY <1>2, <1>3
<1>5. QED
  BY <1>3, <1>4

(* Numbers modulo p: those that differ by a multiple of p are the same.    *)
Divides(p, z) == \E q \in Int : z = q * p

LEMMA DividesSums ==
  ASSUME NEW p \in Nat, NEW u \in Int, NEW v \in Int, Divides(p, u)
  PROVE  /\ Divides(p, u * v)
         /\ Divides(p, v) => Divides(p, u + v) /\ Divides(p, u - v)
<1>1. PICK q \in Int : u = q * p
  BY DEF Divides
<1>2. Divides(p, u * v)
  <2>1. u * v = (q * v) * p /\ q * v \in Int
    BY <1>1
  <2>2. QED
    BY <2>1 DEF Divides
<1>3. ASSUME Divides(p, v) PROVE Divides(p, u + v) /\ Divides(p, u - v)
  <2>1. PICK r \in Int : v = r * p
    BY <1>3 DEF Divides
  <2>2. u + v = (q + r) * p /\ u - v = (q - r) * p /\ q + r \in Int /\ q - r \in Int
    BY <1>1, <2>1
  <2>3. QED
    BY <2>2 DEF Divides
<1>4. QED
  BY <1>2, <1>3

LEMMA RestOf ==
  ASSUME NEW p \in Nat \ {0}, NEW x \in Int
  PROVE  x % p \in 0 .. (p - 1) /\ Divides(p, x - (x % p))
<1>1. x % p \in 0 .. (p - 1) /\ x = p * (x \div p) + (x % p) /\ x \div p \in Int
  OBVIOUS
<1>2. PICK q, r : q = x \div p /\ r = x % p
  OBVIOUS
<1>3. q \in Int /\ r \in Int /\ x - r = q * p
  BY <1>1, <1>2
<1>4. QED
  BY <1>1, <1>2, <1>3 DEF Divides

LEMMA SmallMultiple ==
  ASSUME NEW p \in Nat \ {0}, NEW z \in Int, Divides(p, z), z < p, -p < z
  PROVE  z = 0
<1>1. PICK q \in Int : z = q * p
  BY DEF Divides
<1>2. q >= 1 => q * p >= p
  BY <1>1
<1>3. q <= -1 => q * p <= -p
  BY <1>1
<1>4. q = 0
  BY <1>1, <1>2, <1>3
<1>5. QED
  BY <1>1, <1>4

(* Two rests are equal exactly if p divides the difference.                *)
LEMMA SameRest ==
  ASSUME NEW p \in Nat \ {0}, NEW x \in Int, NEW y \in Int
  PROVE  x % p = y % p <=> Divides(p, x - y)
<1>1. PICK r, s : r = x % p /\ s = y % p
  OBVIOUS
<1>2. /\ r \in 0 .. (p - 1) /\ s \in 0 .. (p - 1)
      /\ Divides(p, x - r) /\ Divides(p, y - s)
  BY <1>1, RestOf
<1>3. x - r \in Int /\ y - s \in Int /\ p \in Nat /\ x - y \in Int /\ r - s \in Int
  BY <1>2
<1>4. Divides(p, (x - r) - (y - s))
  BY <1>2, <1>3, DividesSums
<1>5. ASSUME r = s PROVE Divides(p, x - y)
  <2>1. (x - r) - (y - s) = x - y
    BY <1>2, <1>5
  <2>2. QED
    BY Zenon, <1>4, <2>1
<1>6. ASSUME Divides(p, x - y) PROVE r = s
  <2>1. PICK a, b : a = x - y /\ b = (x - r) - (y - s)
    OBVIOUS
  <2>2. a \in Int /\ b \in Int /\ Divides(p, a) /\ Divides(p, b) /\ a - b = r - s
    BY <1>2, <1>4, <1>6, <2>1
  <2>3. Divides(p, a - b)
    BY <1>3, <2>2, DividesSums
  <2>4. Divides(p, r - s) /\ r - s < p /\ -p < r - s
    BY <1>2, <2>2, <2>3
  <2>5. r - s = 0
    BY <1>3, <2>4, SmallMultiple
  <2>6. QED
    BY <1>2, <2>5
<1>7. QED
  BY Zenon, <1>1, <1>5, <1>6

(* A field: what p does not divide has an inverse.                         *)
HasInverses(p) ==
  /\ p \in Nat \ {0, 1}
  /\ \A x \in 1 .. (p - 1) : \E y \in 0 .. (p - 1) : (x * y) % p = 1

LEMMA RestOne ==
  ASSUME NEW p \in Nat \ {0, 1}, NEW x \in Int
  PROVE  x % p = 1 <=> Divides(p, x - 1)
<1>1. 1 % p = 1 /\ 1 \in Int /\ p \in Nat \ {0}
  OBVIOUS
<1>2. x % p = 1 % p <=> Divides(p, x - 1)
  BY <1>1, SameRest
<1>3. QED
  BY Zenon, <1>1, <1>2

LEMMA RestZero ==
  ASSUME NEW p \in Nat \ {0}, NEW x \in Int
  PROVE  x % p = 0 <=> Divides(p, x)
<1>1. 0 % p = 0 /\ x - 0 = x /\ 0 \in Int
  OBVIOUS
<1>2. x % p = 0 % p <=> Divides(p, x - 0)
  BY <1>1, SameRest
<1>3. QED
  BY Zenon, <1>1, <1>2

LEMMA Algebra ==
  ASSUME NEW s \in Int, NEW r \in Int, NEW y \in Int, NEW t \in Int
  PROVE  /\ s * y - 1 = (s - r) * y + (r * y - 1)
         /\ t = (s * t) * y - (s * y - 1) * t
         /\ s * y \in Int /\ s * t \in Int /\ (s - r) * y \in Int /\ r * y \in Int
         /\ (s * t) * y \in Int /\ (s * y - 1) * t \in Int
OBVIOUS

LEMMA InverseExists ==
  ASSUME NEW p, HasInverses(p), NEW s \in Int, ~ Divides(p, s)
  PROVE  \E y \in 0 .. (p - 1) : Divides(p, s * y - 1)
<1>1. p \in Nat \ {0, 1} /\ p \in Nat
  BY DEF HasInverses
<1>2. PICK r : r = s % p
  OBVIOUS
<1>3. r \in 0 .. (p - 1) /\ Divides(p, s - r)
  BY <1>1, <1>2, RestOf
<1>4. r # 0
  <2>1. s - 0 = s
    OBVIOUS
  <2>2. QED
    BY <1>3, <2>1
<1>5. r \in 1 .. (p - 1)
  BY <1>1, <1>3, <1>4
<1>6. PICK y \in 0 .. (p - 1) : (r * y) % p = 1
  BY <1>5 DEF HasInverses
<1>7. r \in Int /\ y \in Int /\ r * y \in Int
  BY <1>1, <1>3, <1>6
<1>8. Divides(p, r * y - 1)
  BY <1>1, <1>6, <1>7, RestOne
<1>9. Divides(p, (s - r) * y)
  <2>1. s - r \in Int
    BY <1>7
  <2>2. QED
    BY <1>1, <1>3, <1>7, <2>1, DividesSums
<1>10. Divides(p, (s - r) * y + (r * y - 1))
  <2>1. (s - r) * y \in Int /\ r * y - 1 \in Int
    BY <1>7
  <2>2. QED
    BY <1>1, <1>8, <1>9, <2>1, DividesSums
<1>11. s * y - 1 = (s - r) * y + (r * y - 1)
  BY <1>7, Algebra
<1>12. QED
  BY Zenon, <1>10, <1>11

LEMMA NoZeroDivisors ==
  ASSUME NEW p, HasInverses(p), NEW s \in Int, NEW t \in Int, Divides(p, s * t)
  PROVE  Divides(p, s) \/ Divides(p, t)
<1> SUFFICES ASSUME ~ Divides(p, s) PROVE Divides(p, t)
  OBVIOUS
<1>1. p \in Nat
  BY DEF HasInverses
<1>2. PICK y \in 0 .. (p - 1) : Divides(p, s * y - 1)
  BY InverseExists
<1>3. y \in Int
  BY <1>1, <1>2
<1>4. /\ t = (s * t) * y - (s * y - 1) * t
      /\ s * t \in Int /\ s * y - 1 \in Int /\ (s * t) * y \in Int /\ (s * y - 1) * t \in Int
  BY <1>3, Algebra
<1>5. Divides(p, (s * t) * y) /\ Divides(p, (s * y - 1) * t)
  BY <1>1, <1>2, <1>3, <1>4, DividesSums
<1>6. Divides(p, (s * t) * y - (s * y - 1) * t)
  BY <1>1, <1>4, <1>5, DividesSums
<1>7. QED
  BY Zenon, <1>4, <1>6

-----------------------------------------------------------------------------
(* A recursive function from 0 on exists.                                  *)
Steps(S, N) == [S \X (1 .. N) -> S]
Repeats(f, S, N, base, op) ==
  /\ f \in [0 .. N -> S] /\ f[0] = base
  /\ \A n \in 1 .. N : f[n] = op[<<f[n - 1], n>>]

LEMMA RecursionExists ==
  ASSUME NEW S, NEW N \in Nat, NEW base, base \in S, NEW op, op \in Steps(S, N)
  PROVE  \E f : Repeats(f, S, N, base, op)
<1> USE DEF Steps
<1> DEFINE T == {m \in Nat : m <= N => \E f \in [0 .. m -> S] :
                    f[0] = base /\ \A n \in 1 .. m : f[n] = op[<<f[n - 1], n>>]}
<1>1. 0 \in T
  <2> DEFINE f == [n \in 0 .. 0 |-> base]
  <2>1. f \in [0 .. 0 -> S] /\ f[0] = base
    OBVIOUS
  <2>2. \A n \in 1 .. 0 : FALSE
    OBVIOUS
  <2> QED BY <2>1, <2>2
<1>2. ASSUME NEW m \in Nat, m \in T PROVE m + 1 \in T
  <2> SUFFICES ASSUME m + 1 <= N
               PROVE  \E f \in [0 .. (m + 1) -> S] :
                        f[0] = base /\ \A n \in 1 .. (m + 1) : f[n] = op[<<f[n - 1], n>>]
    OBVIOUS
  <2>1. PICK f \in [0 .. m -> S] : f[0] = base /\ \A n \in 1 .. m : f[n] = op[<<f[n - 1], n>>]
    BY <1>2
  <2>2. m + 1 \in 1 .. N /\ f[m] \in S
    BY <2>1
  <2>3. op[<<f[m], m + 1>>] \in S
    BY <2>2
  <2> DEFINE g == [n \in 0 .. (m + 1) |-> IF n = m + 1 THEN op[<<f[m], m + 1>>] ELSE f[n]]
  <2>4. g \in [0 .. (m + 1) -> S] /\ g[0] = base /\ g[m + 1] = op[<<f[m], m + 1>>]
    BY <2>1, <2>3
  <2>5. \A n \in 0 .. m : g[n] = f[n]
    OBVIOUS
  <2> HIDE DEF g
  <2>6. ASSUME NEW n \in 1 .. (m + 1) PROVE g[n] = op[<<g[n - 1], n>>]
    <3>1. CASE n = m + 1
      <4>1. n - 1 = m /\ m \in 0 .. m
        BY <3>1
      <4> QED BY <2>4, <2>5, <3>1, <4>1
    <3>2. CASE n # m + 1
      <4>1. n \in 1 .. m /\ n \in 0 .. m /\ n - 1 \in 0 .. m
        BY <3>2
      <4> QED BY <2>1, <2>5, <4>1
    <3> QED BY <3>1, <3>2
  <2> QED BY <2>4, <2>6
<1>3. N \in T
  <2> HIDE DEF T
  <2> QED BY <1>1, <1>2, InductionOnSet
<1> QED BY <1>3 DEF Repeats

-----------------------------------------------------------------------------
(* The loops over bits: doubling and adding from the last bit, and adding  *)
(* the powers of two of the bits from the first.                           *)
LEMMA Parameters ==
  /\ Order \in Nat /\ Order > 1 /\ Generator \in Int /\ Generator \in Group
  /\ HasInverses(Order)
BY SchemesAssumption DEF Group, Scalars, HasInverses

LEMMA RestInGroup ==
  ASSUME NEW x \in Int
  PROVE  x % Order \in Group /\ x % Order \in Int
BY Parameters DEF Group, Scalars

AddsAt(bits, n) == IF bits[Len(bits) + 1 - n] = 1 THEN Generator ELSE 0

LEMMA Doubling ==
  ASSUME NEW bits, Len(bits) \in Nat
  PROVE  \E e \in [0 .. Len(bits) -> Int] :
           /\ e[0] = 0 /\ e[Len(bits)] = DoubleAndAdd(bits)
           /\ \A n \in 1 .. Len(bits) : e[n] = (2 * e[n - 1] + AddsAt(bits, n)) % Order
<1> DEFINE N == Len(bits)
           F(f) == [n \in 0 .. N |->
                      IF n = 0 THEN 0
                      ELSE (2 * f[n - 1] + (IF bits[Len(bits) + 1 - n] = 1 THEN Generator ELSE 0)) % Order]
           op == [p \in Int \X (1 .. N) |-> (2 * p[1] + AddsAt(bits, p[2])) % Order]
           encoded == CHOOSE f : f = F(f)
<1>1. \A n : AddsAt(bits, n) \in Int
  BY Parameters DEF AddsAt
<1>2. op \in Steps(Int, N)
  <2>1. ASSUME NEW p \in Int \X (1 .. N) PROVE (2 * p[1] + AddsAt(bits, p[2])) % Order \in Int
    <3>1. p[1] \in Int /\ 2 * p[1] + AddsAt(bits, p[2]) \in Int
      BY <1>1
    <3> QED BY <3>1, RestInGroup
  <2> QED BY <2>1 DEF Steps
<1>3. \A x \in Int : \A n \in 1 .. N : op[<<x, n>>] = (2 * x + AddsAt(bits, n)) % Order
  OBVIOUS
<1> HIDE DEF op
<1>4. PICK e \in [0 .. N -> Int] : e[0] = 0 /\ \A n \in 1 .. N : e[n] = op[<<e[n - 1], n>>]
  <2>1. N \in Nat /\ 0 \in Int
    OBVIOUS
  <2> HIDE DEF N
  <2>2. \E f : Repeats(f, Int, N, 0, op)
    BY Zenon, <1>2, <2>1, RecursionExists
  <2> QED BY <2>2 DEF Repeats
<1>5. \A n \in 1 .. N : e[n] = (2 * e[n - 1] + AddsAt(bits, n)) % Order
  <2>1. \A n \in 1 .. N : e[n - 1] \in Int
    BY <1>4
  <2> QED BY <1>3, <1>4, <2>1
<1>6. e = F(e)
  <2>1. \A n \in 0 .. N : n # 0 => n \in 1 .. N
    OBVIOUS
  <2>2. \A n \in 0 .. N : e[n] = F(e)[n]
    BY <1>4, <1>5, <2>1 DEF AddsAt
  <2>3. e = [n \in 0 .. N |-> e[n]] /\ F(e) = [n \in 0 .. N |-> F(e)[n]]
    OBVIOUS
  <2> HIDE DEF F
  <2> QED BY <2>2, <2>3
<1>7. encoded = F(encoded)
  <2> HIDE DEF F
  <2> QED BY <1>6
<1>8. DoubleAndAdd(bits) = encoded[N]
  BY DEF DoubleAndAdd
<1> HIDE DEF encoded
<1>9. encoded[0] = 0
  BY <1>7
<1>10. \A n \in 1 .. N : encoded[n] = (2 * encoded[n - 1] + AddsAt(bits, n)) % Order
  BY <1>7 DEF AddsAt
<1> DEFINE T == {n \in Nat : n <= N => encoded[n] = e[n]}
<1>11. 0 \in T
  BY <1>4, <1>9
<1>12. ASSUME NEW n \in Nat, n \in T PROVE n + 1 \in T
  <2>1. n + 1 <= N => n + 1 \in 1 .. N /\ n + 1 - 1 = n
    OBVIOUS
  <2> QED BY <1>5, <1>10, <1>12, <2>1
<1>13. N \in T
  <2> HIDE DEF T
  <2> QED BY <1>11, <1>12, InductionOnSet
<1> QED BY <1>4, <1>5, <1>8, <1>13

-----------------------------------------------------------------------------
PowersAt(bits, n, base) == IF bits[n] = 1 THEN base ELSE 0

LEMMA PowersLoop ==
  ASSUME NEW bits, Len(bits) \in Nat
  PROVE  \E l \in [0 .. Len(bits) -> [multiplier : Int, base : Int]] :
           /\ l[0] = [multiplier |-> 0, base |-> 1]
           /\ l[Len(bits)].multiplier = PowersSum(bits)
           /\ \A n \in 1 .. Len(bits) :
                /\ l[n].multiplier
                     = (l[n - 1].multiplier + PowersAt(bits, n, l[n - 1].base)) % Order
                /\ l[n].base = (2 * l[n - 1].base) % Order
<1> DEFINE N == Len(bits)
           R == [multiplier : Int, base : Int]
           start == [multiplier |-> 0, base |-> 1]
           Turn(r, n) == [multiplier |-> (r.multiplier + PowersAt(bits, n, r.base)) % Order,
                          base |-> (2 * r.base) % Order]
           F(f) == [n \in 0 .. N |->
                      IF n = 0 THEN [multiplier |-> 0, base |-> 1]
                      ELSE [multiplier |-> (f[n - 1].multiplier
                                              + (IF bits[n] = 1 THEN f[n - 1].base ELSE 0)) % Order,
                            base |-> (2 * f[n - 1].base) % Order]]
           op == [p \in R \X (1 .. N) |-> Turn(p[1], p[2])]
           loop == CHOOSE f : f = F(f)
<1>1. ASSUME NEW r \in R, NEW n PROVE Turn(r, n) \in R
  <2>1. r.multiplier \in Int /\ r.base \in Int
    OBVIOUS
  <2>2. r.multiplier + PowersAt(bits, n, r.base) \in Int /\ 2 * r.base \in Int
    BY <2>1 DEF PowersAt
  <2> QED BY <2>2, RestInGroup
<1>2. op \in Steps(R, N)
  <2>1. \A p \in R \X (1 .. N) : p[1] \in R
    OBVIOUS
  <2> HIDE DEF R, Turn
  <2> QED BY <1>1, <2>1 DEF Steps
<1>3. \A r \in R : \A n \in 1 .. N : op[<<r, n>>] = Turn(r, n)
  <2> HIDE DEF R, Turn
  <2> QED OBVIOUS
<1>4. start \in R
  OBVIOUS
<1> HIDE DEF op, R, start
<1>5. PICK l : /\ l \in [0 .. N -> R] /\ l[0] = start
               /\ \A n \in 1 .. N : l[n] = op[<<l[n - 1], n>>]
  <2>1. N \in Nat
    OBVIOUS
  <2> HIDE DEF N
  <2>2. \E f : Repeats(f, R, N, start, op)
    BY Zenon, <1>2, <1>4, <2>1, RecursionExists
  <2> QED BY <2>2 DEF Repeats
<1>6. \A n \in 1 .. N : l[n] = Turn(l[n - 1], n)
  <2>1. \A n \in 1 .. N : l[n - 1] \in R
    BY <1>5
  <2> HIDE DEF Turn
  <2> QED BY <1>3, <1>5, <2>1
<1>7. l = F(l)
  <2>1. \A n \in 0 .. N : n # 0 => n \in 1 .. N
    OBVIOUS
  <2>2. \A n \in 0 .. N : l[n] = F(l)[n]
    BY <1>5, <1>6, <2>1 DEF PowersAt, start
  <2>3. l = [n \in 0 .. N |-> l[n]] /\ F(l) = [n \in 0 .. N |-> F(l)[n]]
    BY <1>5
  <2> HIDE DEF F
  <2> QED BY <2>2, <2>3
<1>8. loop = F(loop)
  <2> HIDE DEF F
  <2> QED BY <1>7
<1>9. PowersSum(bits) = loop[N].multiplier
  BY DEF PowersSum
<1> HIDE DEF loop
<1>10. loop[0] = start
  BY <1>8 DEF start
<1>11. ASSUME NEW n \in 1 .. N PROVE loop[n] = Turn(loop[n - 1], n)
  <2>1. n \in 0 .. N /\ n # 0
    OBVIOUS
  <2>2. \A f : n \in 0 .. N /\ n # 0 => F(f)[n] = Turn(f[n - 1], n)
    BY DEF PowersAt
  <2> HIDE DEF F, Turn
  <2> QED BY <1>8, <2>1, <2>2
<1> DEFINE T == {n \in Nat : n <= N => loop[n] = l[n]}
<1>12. 0 \in T
  BY <1>5, <1>10
<1>13. ASSUME NEW n \in Nat, n \in T PROVE n + 1 \in T
  <2>1. n + 1 <= N => n + 1 \in 1 .. N /\ n + 1 - 1 = n
    OBVIOUS
  <2> HIDE DEF Turn
  <2> QED BY <1>6, <1>11, <1>13, <2>1
<1>14. N \in T
  <2> HIDE DEF T
  <2> QED BY <1>12, <1>13, InductionOnSet
<1>15. ASSUME NEW n \in 1 .. N
       PROVE  /\ l[n].multiplier
                   = (l[n - 1].multiplier + PowersAt(bits, n, l[n - 1].base)) % Order
              /\ l[n].base = (2 * l[n - 1].base) % Order
  <2>1. l[n] = Turn(l[n - 1], n)
    BY <1>6
  <2> QED BY <2>1
<1> HIDE DEF Turn
<1>16. l[N].multiplier = PowersSum(bits)
  BY <1>9, <1>14
<1> HIDE DEF F
<1> QED BY <1>5, <1>15, <1>16 DEF R, start

-----------------------------------------------------------------------------
IsRest(y, x, p) == y = x % p
Combines(y, x, a, g, b, h, c, k) == y = x - a * g - b * h + c * k

LEMMA DividesCombination ==
  ASSUME NEW p \in Nat, NEW x \in Int, NEW a \in Int, NEW b \in Int, NEW c \in Int,
         NEW g \in Int, NEW h \in Int, NEW k \in Int, NEW y,
         Divides(p, x), Divides(p, a), Divides(p, b), Divides(p, c),
         Combines(y, x, a, g, b, h, c, k)
  PROVE  Divides(p, y)
<1>1. PICK q \in Int : x = q * p BY DEF Divides
<1>2. PICK r \in Int : a = r * p BY DEF Divides
<1>3. PICK s \in Int : b = s * p BY DEF Divides
<1>4. PICK t \in Int : c = t * p BY DEF Divides
<1>5. PICK z : z = q - r * g - s * h + t * k
  OBVIOUS
<1>6. z \in Int
  BY <1>5
<1>7. y = z * p
  BY <1>1, <1>2, <1>3, <1>4, <1>5 DEF Combines
<1> QED BY <1>6, <1>7 DEF Divides

LEMMA RestIs ==
  ASSUME NEW p \in Nat \ {0}, NEW x \in Int, NEW y, IsRest(y, x, p)
  PROVE  y \in Int /\ Divides(p, x - y)
<1>1. x % p \in 0 .. (p - 1) /\ Divides(p, x - (x % p))
  BY Zenon, RestOf
<1>2. y \in 0 .. (p - 1) /\ Divides(p, x - y)
  BY Zenon, <1>1 DEF IsRest
<1>3. \A z : z \in 0 .. (p - 1) => z \in Int
  OBVIOUS
<1> QED BY Zenon, <1>2, <1>3

(* A turn of either loop, read together.                                   *)
LEMMA TurnTogether ==
  ASSUME NEW p \in Nat \ {0}, NEW g \in Int, NEW z \in Int, NEW u \in Int,
         NEW m \in Int, NEW b \in Int, NEW e \in Int, NEW m1, NEW b1, NEW e1 \in Int,
         IsRest(m1, m + u * b, p), IsRest(b1, 2 * b, p), IsRest(e, 2 * e1 + u * g, p),
         Divides(p, m * g + b * e - z)
  PROVE  Divides(p, m1 * g + b1 * e1 - z)
<1>1. PICK x, y, w, v, t : /\ x = m + u * b /\ y = 2 * b /\ w = 2 * e1 + u * g
                           /\ v = m * g + b * e - z /\ t = m1 * g + b1 * e1 - z
  OBVIOUS
<1>2. x \in Int /\ y \in Int /\ w \in Int /\ v \in Int /\ p \in Nat
  BY <1>1
<1>3. m1 \in Int /\ Divides(p, x - m1)
  BY Zenon, <1>1, <1>2, RestIs
<1>4. b1 \in Int /\ Divides(p, y - b1)
  BY Zenon, <1>1, <1>2, RestIs
<1>5. Divides(p, w - e)
  BY Zenon, <1>1, <1>2, RestIs
<1>6. PICK c, d, f : c = x - m1 /\ d = y - b1 /\ f = w - e
  OBVIOUS
<1>7. c \in Int /\ d \in Int /\ f \in Int
  BY <1>2, <1>3, <1>4, <1>6
<1>8. Divides(p, v) /\ Divides(p, c) /\ Divides(p, d) /\ Divides(p, f)
  BY Zenon, <1>1, <1>3, <1>4, <1>5, <1>6
<1>9. Combines(t, v, c, g, d, e1, f, b)
  BY <1>1, <1>3, <1>4, <1>6 DEF Combines
<1>10. Divides(p, t)
  BY Zenon, <1>2, <1>7, <1>8, <1>9, DividesCombination
<1> QED BY Zenon, <1>1, <1>10

(* The powers of two sum up to the multiple of the generator that doubling *)
(* and adding reaches.                                                     *)
LEMMA SumIsMultiple ==
  ASSUME NEW bits, Len(bits) \in Nat
  PROVE  /\ PowersSum(bits) \in Int /\ DoubleAndAdd(bits) \in Int
         /\ Divides(Order, PowersSum(bits) * Generator - DoubleAndAdd(bits))
<1> DEFINE N == Len(bits)
<1>0. N \in Nat /\ Order \in Nat \ {0} /\ Generator \in Int
  BY Parameters
<1>1. PICK e \in [0 .. N -> Int] :
         /\ e[0] = 0 /\ e[N] = DoubleAndAdd(bits)
         /\ \A n \in 1 .. N : e[n] = (2 * e[n - 1] + AddsAt(bits, n)) % Order
  BY Doubling
<1>2. PICK l \in [0 .. N -> [multiplier : Int, base : Int]] :
         /\ l[0] = [multiplier |-> 0, base |-> 1]
         /\ l[N].multiplier = PowersSum(bits)
         /\ \A n \in 1 .. N :
              /\ l[n].multiplier
                   = (l[n - 1].multiplier + PowersAt(bits, n, l[n - 1].base)) % Order
              /\ l[n].base = (2 * l[n - 1].base) % Order
  BY PowersLoop
<1>3. e[N] \in Int /\ l[N].multiplier \in Int /\ l[N].base \in Int
  BY <1>0, <1>1, <1>2
<1> DEFINE T == {n \in Nat : n <= N =>
             Divides(Order, l[n].multiplier * Generator + l[n].base * e[N - n] - e[N])}
<1>4. 0 \in T
  <2>1. 0 * Generator + 1 * e[N] - e[N] = 0 /\ N - 0 = N
    BY <1>0, <1>3
  <2>2. Divides(Order, 0)
    BY <1>0 DEF Divides
  <2> QED BY <1>2, <2>1, <2>2
<1>5. ASSUME NEW n \in Nat, n \in T PROVE n + 1 \in T
  <2> SUFFICES ASSUME n + 1 <= N
               PROVE  Divides(Order, l[n + 1].multiplier * Generator
                                       + l[n + 1].base * e[N - (n + 1)] - e[N])
    OBVIOUS
  <2>1. PICK m, b, m1, b1, d, d1 :
           /\ m = l[n].multiplier /\ b = l[n].base
           /\ m1 = l[n + 1].multiplier /\ b1 = l[n + 1].base
           /\ d = e[N - n] /\ d1 = e[N - (n + 1)]
    OBVIOUS
  <2>2. m \in Int /\ b \in Int /\ d \in Int /\ d1 \in Int
    <3>1. n \in 0 .. N /\ N - n \in 0 .. N /\ N - (n + 1) \in 0 .. N
      BY <1>0
    <3> QED BY <1>1, <1>2, <2>1, <3>1
  <2>3. PICK u : u = IF bits[n + 1] = 1 THEN 1 ELSE 0
    OBVIOUS
  <2>4. u \in Int
    BY <2>3
  <2>5. m1 = (m + u * b) % Order /\ b1 = (2 * b) % Order
    <3>1. n + 1 \in 1 .. N /\ n + 1 - 1 = n
      BY <1>0
    <3>2. m1 = (m + PowersAt(bits, n + 1, b)) % Order /\ b1 = (2 * b) % Order
      BY <1>2, <2>1, <3>1
    <3>3. PowersAt(bits, n + 1, b) = u * b
      BY <2>2, <2>3 DEF PowersAt
    <3> QED BY <3>2, <3>3
  <2>6. d = (2 * d1 + u * Generator) % Order
    <3>1. N - n \in 1 .. N /\ (N - n) - 1 = N - (n + 1) /\ N + 1 - (N - n) = n + 1
      BY <1>0
    <3>2. d = (2 * d1 + AddsAt(bits, N - n)) % Order
      BY <1>1, <2>1, <3>1
    <3>3. AddsAt(bits, N - n) = u * Generator
      BY <1>0, <2>3, <3>1 DEF AddsAt
    <3> QED BY <3>2, <3>3
  <2>7. Divides(Order, m * Generator + b * d - e[N])
    BY <1>5, <2>1
  <2>8. Divides(Order, m1 * Generator + b1 * d1 - e[N])
    <3>1. PICK z : z = e[N]
      OBVIOUS
    <3>2. z \in Int /\ Divides(Order, m * Generator + b * d - z)
      BY <1>3, <2>7, <3>1
    <3>3. m1 = (m + u * b) % Order /\ b1 = (2 * b) % Order /\ d = (2 * d1 + u * Generator) % Order
      BY <2>5, <2>6
    <3>4. /\ IsRest(m1, m + u * b, Order) /\ IsRest(b1, 2 * b, Order)
          /\ IsRest(d, 2 * d1 + u * Generator, Order)
      BY Zenon, <3>3 DEF IsRest
    <3>7. Divides(Order, m1 * Generator + b1 * d1 - z)
      BY Zenon, <1>0, <2>2, <2>4, <3>2, <3>4, TurnTogether
    <3> QED BY <3>1, <3>7
  <2> QED BY <2>1, <2>8
<1>6. N \in T
  <2> HIDE DEF T
  <2> QED BY <1>0, <1>4, <1>5, InductionOnSet
<1>7. l[N].multiplier * Generator + l[N].base * e[N - N] - e[N] = PowersSum(bits) * Generator - DoubleAndAdd(bits)
  <2>1. N - N = 0
    BY <1>0
  <2> QED BY <1>0, <1>1, <1>2, <1>3, <2>1
<1> QED BY <1>0, <1>1, <1>2, <1>3, <1>6, <1>7

-----------------------------------------------------------------------------
(* Sums over a sequence.                                                   *)
Weights(R) == [R -> Int]

Sums(h, f, s) ==
  /\ h \in [0 .. Len(s) -> Int] /\ h[0] = 0
  /\ \A n \in 1 .. Len(s) : h[n] = h[n - 1] + f[s[n]]

LEMMA SumLoop ==
  ASSUME NEW R, NEW f, f \in Weights(R), NEW s, s \in Seq(R)
  PROVE  \E h : Sums(h, f, s) /\ h[Len(s)] = SumOf(f, s)
<1> DEFINE N == Len(s)
           g == [n \in 1 .. N |-> f[s[n]]]
           F(h) == [n \in 0 .. N |-> IF n = 0 THEN 0 ELSE h[n - 1] + f[s[n]]]
           op == [p \in Int \X (1 .. N) |-> p[1] + g[p[2]]]
           upTo == CHOOSE h : h = F(h)
<1>0. N \in Nat
  OBVIOUS
<1>1. g \in [1 .. N -> Int] /\ \A n \in 1 .. N : g[n] = f[s[n]]
  <2>1. \A n \in 1 .. N : s[n] \in R
    OBVIOUS
  <2>2. \A x \in R : f[x] \in Int
    BY DEF Weights
  <2> QED BY <2>1, <2>2
<1> HIDE DEF g, N
<1>2. op \in Steps(Int, N)
  <2>1. ASSUME NEW p \in Int \X (1 .. N) PROVE p[1] + g[p[2]] \in Int
    BY <1>1
  <2> QED BY <2>1 DEF Steps
<1>3. \A x \in Int : \A n \in 1 .. N : op[<<x, n>>] = x + g[n]
  OBVIOUS
<1> HIDE DEF op
<1>4. PICK e : e \in [0 .. N -> Int] /\ e[0] = 0 /\ \A n \in 1 .. N : e[n] = op[<<e[n - 1], n>>]
  <2>1. 0 \in Int
    OBVIOUS
  <2>2. \E h : Repeats(h, Int, N, 0, op)
    BY Zenon, <1>0, <1>2, <2>1, RecursionExists
  <2> QED BY <2>2 DEF Repeats
<1>5. ASSUME NEW n \in 1 .. N PROVE e[n] = e[n - 1] + f[s[n]]
  <2>1. n - 1 \in 0 .. N
    BY <1>0
  <2>2. e[n - 1] \in Int
    BY <1>4, <2>1
  <2>3. e[n] = e[n - 1] + g[n]
    BY <1>3, <1>4, <2>2
  <2> QED BY <1>1, <2>3
<1>6. e = F(e)
  <2>1. \A n \in 0 .. N : n # 0 => n \in 1 .. N
    BY <1>0
  <2>2. \A n \in 0 .. N : e[n] = F(e)[n]
    BY <1>4, <1>5, <2>1
  <2>3. e = [n \in 0 .. N |-> e[n]] /\ F(e) = [n \in 0 .. N |-> F(e)[n]]
    BY <1>4
  <2> HIDE DEF F
  <2> QED BY <2>2, <2>3
<1>7. upTo = F(upTo)
  <2> HIDE DEF F
  <2> QED BY <1>6
<1>8. SumOf(f, s) = upTo[N]
  BY DEF SumOf, N
<1> HIDE DEF upTo
<1>9. upTo[0] = 0
  <2>1. 0 \in 0 .. N
    BY <1>0
  <2> QED BY <1>7, <2>1
<1>10. ASSUME NEW n \in 1 .. N PROVE upTo[n] = upTo[n - 1] + f[s[n]]
  <2>1. n \in 0 .. N /\ n # 0
    BY <1>0
  <2>2. \A h : n \in 0 .. N /\ n # 0 => F(h)[n] = h[n - 1] + f[s[n]]
    OBVIOUS
  <2> HIDE DEF F
  <2> QED BY <1>7, <2>1, <2>2
<1> HIDE DEF F
<1> DEFINE T == {n \in Nat : n <= N => upTo[n] = e[n]}
<1>11. 0 \in T
  BY <1>4, <1>9
<1>12. ASSUME NEW n \in Nat, n \in T PROVE n + 1 \in T
  <2> SUFFICES ASSUME n + 1 <= N PROVE upTo[n + 1] = e[n + 1]
    OBVIOUS
  <2>1. PICK k : k = n + 1
    OBVIOUS
  <2>2. k \in 1 .. N /\ k - 1 = n /\ n <= N
    BY <1>0, <2>1
  <2>3. upTo[n] = e[n]
    BY <1>12, <2>2
  <2>4. upTo[k] = upTo[n] + f[s[k]] /\ e[k] = e[n] + f[s[k]]
    BY <1>5, <1>10, <2>2
  <2> QED BY <2>1, <2>3, <2>4
<1>13. N \in T
  <2> HIDE DEF T
  <2> QED BY <1>0, <1>11, <1>12, InductionOnSet
<1>14. e[N] = SumOf(f, s)
  BY <1>0, <1>8, <1>13
<1>15. Sums(e, f, s)
  BY <1>4, <1>5 DEF Sums, N
<1> QED BY <1>14, <1>15 DEF N

(* Sums of sequences agree as far as the sequences do.                     *)
StartsWith(t, s) ==
  /\ Len(s) \in Nat /\ Len(t) \in Nat /\ Len(s) <= Len(t)
  /\ \A n \in 1 .. Len(s) : s[n] = t[n]

LEMMA SumsAgree ==
  ASSUME NEW f, NEW s, NEW t, StartsWith(t, s), NEW d, Sums(d, f, s), NEW h, Sums(h, f, t)
  PROVE  d[Len(s)] = h[Len(s)]
<1>0. PICK N : N = Len(s)
  OBVIOUS
<1>0a. N \in Nat /\ Len(t) \in Nat /\ N <= Len(t) /\ \A n \in 1 .. N : s[n] = t[n]
  BY <1>0 DEF StartsWith
<1> DEFINE T == {n \in Nat : n <= N => d[n] = h[n]}
<1>1. 0 \in T
  BY DEF Sums
<1>2. ASSUME NEW n \in Nat, n \in T PROVE n + 1 \in T
  <2> USE <1>0, <1>0a
  <2> SUFFICES ASSUME n + 1 <= N PROVE d[n + 1] = h[n + 1]
    OBVIOUS
  <2>1. PICK k : k = n + 1
    OBVIOUS
  <2>2. k \in 1 .. N /\ k \in 1 .. Len(t) /\ k \in 1 .. Len(s) /\ k - 1 = n /\ n <= N
    BY <2>1
  <2>3. d[n] = h[n] /\ s[k] = t[k]
    BY <1>2, <2>2
  <2>4. d[k] = d[n] + f[s[k]] /\ h[k] = h[n] + f[t[k]]
    BY <2>2 DEF Sums
  <2> QED BY <2>1, <2>3, <2>4
<1>3. Nat \subseteq T
  <2> HIDE DEF T
  <2> QED BY <1>1, <1>2, InductionOnSet
<1> QED BY <1>0, <1>0a, <1>3

LEMMA SumEmpty ==
  ASSUME NEW R, NEW f, f \in Weights(R)
  PROVE  SumOf(f, <<>>) = 0
<1>1. <<>> \in Seq(R) /\ Len(<<>>) = 0
  OBVIOUS
<1>2. \E h : Sums(h, f, <<>>) /\ h[Len(<<>>)] = SumOf(f, <<>>)
  BY Zenon, <1>1, SumLoop
<1> QED BY <1>1, <1>2 DEF Sums

LEMMA SumAppend ==
  ASSUME NEW R, NEW f, f \in Weights(R), NEW s, s \in Seq(R), NEW x, x \in R
  PROVE  /\ SumOf(f, s) \in Int
         /\ SumOf(f, Append(s, x)) = SumOf(f, s) + f[x]
<1>1. PICK t : t = Append(s, x)
  OBVIOUS
<1>2. PICK N : N = Len(s)
  OBVIOUS
<1>3. /\ t \in Seq(R) /\ N \in Nat /\ Len(t) = N + 1 /\ t[N + 1] = x
      /\ \A n \in 1 .. N : t[n] = s[n]
  BY <1>1, <1>2, AppendProperties
<1>4. PICK d : Sums(d, f, s) /\ d[N] = SumOf(f, s)
  BY Zenon, <1>2, SumLoop
<1>5. PICK h : Sums(h, f, t) /\ h[N + 1] = SumOf(f, t)
  <2>1. \E h : Sums(h, f, t) /\ h[Len(t)] = SumOf(f, t)
    BY Zenon, <1>3, SumLoop
  <2> QED BY <1>3, <2>1
<1>6. d[N] = h[N]
  <2>1. StartsWith(t, s)
    BY <1>2, <1>3 DEF StartsWith
  <2>2. d[Len(s)] = h[Len(s)]
    <3>1. Sums(d, f, s) /\ Sums(h, f, t)
      BY <1>4, <1>5
    <3> QED BY <2>1, <3>1, SumsAgree
  <2> QED BY <1>2, <2>2
<1>7. N + 1 \in 1 .. (N + 1) /\ N + 1 - 1 = N /\ N \in 0 .. N
  BY <1>3
<1>8. h[N + 1] = h[N] + f[x]
  <2>1. h[N + 1] = h[N + 1 - 1] + f[t[N + 1]]
    BY <1>3, <1>5, <1>7 DEF Sums
  <2> QED BY <1>3, <1>7, <2>1
<1>9. d[N] \in Int
  BY <1>2, <1>4, <1>7 DEF Sums
<1> QED BY <1>1, <1>4, <1>5, <1>6, <1>8, <1>9

(* One element replaced.                                                   *)
Replaces(u, s, j, R) ==
  u \in Seq(R) /\ Len(u) = Len(s) /\ \A n \in 1 .. Len(s) : n # j => u[n] = s[n]
Differ(a, b, c, d) == a \in Int /\ b \in Int /\ c \in Int /\ d = c - b + a

LEMMA SumReplaced ==
  ASSUME NEW R, NEW f, f \in Weights(R), NEW s, s \in Seq(R), NEW j, j \in 1 .. Len(s),
         NEW u, Replaces(u, s, j, R)
  PROVE  Differ(f[u[j]], f[s[j]], SumOf(f, s), SumOf(f, u))
<1> USE DEF Replaces
<1>1. PICK N : N = Len(s)
  OBVIOUS
<1>2. PICK x : x = u[j]
  OBVIOUS
<1>2a. /\ Len(u) = N /\ N \in Nat /\ j \in 1 .. N
       /\ u[j] = x /\ \A n \in 1 .. N : n # j => u[n] = s[n]
  BY <1>1, <1>2
<1>3. PICK d : /\ d \in [0 .. N -> Int] /\ d[0] = 0 /\ d[N] = SumOf(f, s)
               /\ \A n \in 1 .. N : d[n] = d[n - 1] + f[s[n]]
  <2>1. \E d : Sums(d, f, s) /\ d[Len(s)] = SumOf(f, s)
    BY Zenon, SumLoop
  <2> QED BY Zenon, <1>1, <2>1 DEF Sums
<1>4. PICK h : /\ h \in [0 .. N -> Int] /\ h[0] = 0 /\ h[N] = SumOf(f, u)
               /\ \A n \in 1 .. N : h[n] = h[n - 1] + f[u[n]]
  <2>1. \E h : Sums(h, f, u) /\ h[Len(u)] = SumOf(f, u)
    BY Zenon, SumLoop
  <2> QED BY Zenon, <1>2a, <2>1 DEF Sums
<1>5. f[s[j]] \in Int /\ f[x] \in Int /\ \A n \in 1 .. N : f[s[n]] \in Int
  <2>1. x \in R /\ \A n \in 1 .. N : s[n] \in R
    BY <1>1, <1>2a
  <2> QED BY <1>2a, <2>1 DEF Weights
<1> DEFINE T == {n \in Nat : n <= N => h[n] = d[n] + (IF j <= n THEN f[x] - f[s[j]] ELSE 0)}
<1>6. 0 \in T
  BY <1>2a, <1>3, <1>4
<1>7. ASSUME NEW n \in Nat, n \in T PROVE n + 1 \in T
  <2> SUFFICES ASSUME n + 1 <= N
               PROVE  h[n + 1] = d[n + 1] + (IF j <= n + 1 THEN f[x] - f[s[j]] ELSE 0)
    OBVIOUS
  <2>1. n + 1 \in 1 .. N /\ n + 1 - 1 = n /\ n \in 0 .. N /\ n <= N /\ j \in Int
    BY <1>2a
  <2>2. h[n + 1] = h[n] + f[u[n + 1]] /\ d[n + 1] = d[n] + f[s[n + 1]]
    BY <1>3, <1>4, <2>1
  <2>3. h[n] = d[n] + (IF j <= n THEN f[x] - f[s[j]] ELSE 0)
    BY <1>7, <2>1
  <2>4. d[n] \in Int /\ f[s[n + 1]] \in Int
    BY <1>3, <1>5, <2>1
  <2>5. CASE j = n + 1
    <3>1. f[u[n + 1]] = f[x] /\ ~ (j <= n) /\ j <= n + 1
      BY <1>2a, <2>1, <2>5
    <3> QED BY <1>5, <2>2, <2>3, <2>4, <2>5, <3>1
  <2>6. CASE j # n + 1
    <3>1. f[u[n + 1]] = f[s[n + 1]] /\ (j <= n <=> j <= n + 1)
      BY <1>2a, <2>1, <2>6
    <3> QED BY <1>5, <2>2, <2>3, <2>4, <3>1
  <2> QED BY <2>5, <2>6
<1>8. N \in T
  <2> HIDE DEF T
  <2> QED BY <1>2a, <1>6, <1>7, InductionOnSet
<1>9. h[N] = d[N] + (f[x] - f[s[j]]) /\ d[N] \in Int
  BY <1>2a, <1>3, <1>8
<1>10. f[u[j]] = f[x]
  BY <1>2a
<1>11. SumOf(f, u) = SumOf(f, s) - f[s[j]] + f[x] /\ SumOf(f, s) \in Int
  BY <1>3, <1>4, <1>5, <1>9
<1> QED BY <1>5, <1>10, <1>11 DEF Differ

-----------------------------------------------------------------------------
(* How often r is in a sequence, as a sum.                                 *)
Is(R, r) == [x \in R |-> IF x = r THEN 1 ELSE 0]
Places(s, r) == {i \in DOMAIN s : s[i] = r}

LEMMA IsType ==
  ASSUME NEW R, NEW r
  PROVE  Is(R, r) \in Weights(R) /\ \A x \in R : Is(R, r)[x] = IF x = r THEN 1 ELSE 0
BY DEF Is, Weights

LEMMA CountIsSum ==
  ASSUME NEW R, NEW s, s \in Seq(R), NEW r
  PROVE  IsFiniteSet(Places(s, r)) /\ Cardinality(Places(s, r)) = SumOf(Is(R, r), s)
<1>1. PICK N : N = Len(s)
  OBVIOUS
<1>2. N \in Nat /\ DOMAIN s = 1 .. N /\ \A n \in 1 .. N : s[n] \in R
  BY <1>1
<1>3. PICK f : f = Is(R, r)
  OBVIOUS
<1>4. f \in Weights(R) /\ \A x \in R : f[x] = IF x = r THEN 1 ELSE 0
  BY <1>3, IsType
<1>5. PICK h : /\ h \in [0 .. N -> Int] /\ h[0] = 0 /\ h[N] = SumOf(f, s)
               /\ \A n \in 1 .. N : h[n] = h[n - 1] + f[s[n]]
  <2>1. \E h : Sums(h, f, s) /\ h[Len(s)] = SumOf(f, s)
    BY Zenon, <1>4, SumLoop
  <2> QED BY Zenon, <1>1, <2>1 DEF Sums
<1> DEFINE UpTo(n) == {i \in 1 .. n : s[i] = r}
           T == {n \in Nat : n <= N => IsFiniteSet(UpTo(n)) /\ Cardinality(UpTo(n)) = h[n]}
<1>6. 0 \in T
  <2>1. UpTo(0) = {}
    OBVIOUS
  <2> HIDE DEF UpTo
  <2> QED BY <1>5, <2>1, FS_EmptySet
<1>7. ASSUME NEW n \in Nat, n \in T PROVE n + 1 \in T
  <2> SUFFICES ASSUME n + 1 <= N
               PROVE  IsFiniteSet(UpTo(n + 1)) /\ Cardinality(UpTo(n + 1)) = h[n + 1]
    OBVIOUS
  <2>1. n + 1 \in 1 .. N /\ n + 1 - 1 = n /\ n <= N /\ n \in 0 .. N
    BY <1>2
  <2>2. h[n + 1] = h[n] + f[s[n + 1]] /\ s[n + 1] \in R /\ h[n] \in Int
    BY <1>2, <1>5, <2>1
  <2>3. UpTo(n + 1) = IF s[n + 1] = r THEN UpTo(n) \cup {n + 1} ELSE UpTo(n)
    <3>1. \A i : i \in 1 .. (n + 1) <=> i \in 1 .. n \/ i = n + 1
      OBVIOUS
    <3> QED BY <3>1
  <2>4. n + 1 \notin UpTo(n)
    OBVIOUS
  <2>5. IsFiniteSet(UpTo(n)) /\ Cardinality(UpTo(n)) = h[n]
    BY <1>7, <2>1
  <2> HIDE DEF UpTo
  <2>6. CASE s[n + 1] = r
    <3>1. IsFiniteSet(UpTo(n) \cup {n + 1}) /\ Cardinality(UpTo(n) \cup {n + 1}) = Cardinality(UpTo(n)) + 1
      BY <2>4, <2>5, FS_AddElement
    <3> QED BY <1>4, <2>2, <2>3, <2>5, <2>6, <3>1
  <2>7. CASE s[n + 1] # r
    BY <1>4, <2>2, <2>3, <2>5, <2>7
  <2> QED BY <2>6, <2>7
<1>8. N \in T
  <2> HIDE DEF T
  <2> QED BY <1>2, <1>6, <1>7, InductionOnSet
<1>9. Places(s, r) = UpTo(N)
  BY <1>2 DEF Places
<1> QED BY <1>3, <1>5, <1>8, <1>9

-----------------------------------------------------------------------------
Longer(s, n) == Len(s) = n + 1
EndsWith(s, w, x, n, R) == w \in Seq(R) /\ x \in R /\ s = Append(w, x) /\ Len(w) = n

LEMMA LastOf ==
  ASSUME NEW R, NEW s, s \in Seq(R), NEW n, n \in Nat, Longer(s, n)
  PROVE  \E w, x : EndsWith(s, w, x, n, R)
<1>0. Len(s) = n + 1
  BY DEF Longer
<1> DEFINE w == [i \in 1 .. n |-> s[i]]
           x == s[n + 1]
<1>1. w \in Seq(R) /\ Len(w) = n /\ x \in R
  <2>1. s[n + 1] \in R /\ \A i \in 1 .. n : s[i] \in R
    BY <1>0
  <2> QED BY <2>1
<1>2. Append(w, x) \in Seq(R) /\ Len(Append(w, x)) = n + 1 /\ Append(w, x)[n + 1] = x
      /\ \A i \in 1 .. n : Append(w, x)[i] = w[i]
  BY <1>1, AppendProperties
<1>3. \A i \in 1 .. (n + 1) : s[i] = Append(w, x)[i]
  <2>1. \A i \in 1 .. (n + 1) : i = n + 1 \/ i \in 1 .. n
    OBVIOUS
  <2>2. \A i \in 1 .. n : w[i] = s[i]
    OBVIOUS
  <2> QED BY <1>2, <2>1, <2>2
<1>4. PICK t : t = Append(w, x)
  OBVIOUS
<1> HIDE DEF w
<1>5. s = t
  <2>1. t \in Seq(R) /\ Len(t) = Len(s) /\ \A i \in 1 .. Len(s) : s[i] = t[i]
    BY <1>0, <1>2, <1>3, <1>4
  <2> QED BY <2>1, SeqEqual
<1>6. EndsWith(s, w, x, n, R)
  BY <1>1, <1>4, <1>5 DEF EndsWith
<1> QED BY Zenon, <1>6

(* Taking one occurrence of x out of t: its last element goes there.       *)
LEMMA OneTaken ==
  ASSUME NEW R, NEW t, t \in Seq(R), NEW j, j \in DOMAIN t
  PROVE  \E u : /\ u \in Seq(R)
                /\ \A g : g \in Weights(R) =>
                     SumOf(g, u) \in Int /\ g[t[j]] \in Int /\ SumOf(g, t) = SumOf(g, u) + g[t[j]]
<1>1. PICK n \in Nat : Len(t) = n + 1
  <2>1. Len(t) \in Nat /\ Len(t) # 0
    OBVIOUS
  <2>2. Len(t) - 1 \in Nat /\ Len(t) = (Len(t) - 1) + 1
    BY <2>1
  <2> QED BY <2>2
<1>2. PICK v, y : v \in Seq(R) /\ y \in R /\ t = Append(v, y) /\ Len(v) = n
  <2>1. Longer(t, n) /\ n \in Nat
    BY <1>1 DEF Longer
  <2>2. \E v, y : EndsWith(t, v, y, n, R)
    BY Zenon, <2>1, LastOf
  <2> QED BY <2>2 DEF EndsWith
<1>3. /\ t[n + 1] = y /\ \A i \in 1 .. n : t[i] = v[i]
  BY <1>2, AppendProperties
<1>4. \A g : g \in Weights(R) => SumOf(g, v) \in Int /\ SumOf(g, t) = SumOf(g, v) + g[y]
  BY <1>2, SumAppend
<1>5. \A g : g \in Weights(R) => \A x \in R : g[x] \in Int
  BY DEF Weights
<1>6. CASE j = n + 1
  BY <1>2, <1>3, <1>4, <1>5, <1>6
<1>7. CASE j # n + 1
  <2>1. j \in 1 .. n
    BY <1>1, <1>7
  <2>2. PICK u : u = [v EXCEPT ![j] = y]
    OBVIOUS
  <2>3. /\ u \in Seq(R) /\ Len(u) = Len(v) /\ u[j] = y
        /\ \A i \in 1 .. Len(v) : i # j => u[i] = v[i]
    BY <1>2, <2>1, <2>2, ExceptSeq
  <2>4. j \in 1 .. Len(v) /\ v \in Seq(R)
    BY <1>2, <2>1
  <2>4a. Replaces(u, v, j, R)
    BY <2>3 DEF Replaces
  <2>5. ASSUME NEW g, g \in Weights(R)
        PROVE  SumOf(g, u) \in Int /\ g[t[j]] \in Int /\ SumOf(g, t) = SumOf(g, u) + g[t[j]]
    <3>1. Differ(g[u[j]], g[v[j]], SumOf(g, v), SumOf(g, u))
      BY Zenon, <2>4, <2>4a, <2>5, SumReplaced
    <3>2. SumOf(g, t) = SumOf(g, v) + g[u[j]] /\ g[t[j]] = g[v[j]]
      BY <1>3, <1>4, <2>1, <2>3, <2>5
    <3> QED BY <3>1, <3>2 DEF Differ
  <2> QED BY <2>3, <2>5
<1> QED BY Zenon, <1>6, <1>7

(* Sequences with the same elements, each as often, have the same sums.    *)
LEMMA SumsAlike ==
  ASSUME NEW R, NEW f, f \in Weights(R), NEW s, s \in Seq(R), NEW t, t \in Seq(R),
         \A r \in R : Cardinality(Places(s, r)) = Cardinality(Places(t, r))
  PROVE  SumOf(f, s) = SumOf(f, t)
<1> DEFINE Alike(a, b) == \A r \in R : SumOf(Is(R, r), a) = SumOf(Is(R, r), b)
           T == {n \in Nat : \A a \in Seq(R) : \A b \in Seq(R) :
                    Len(a) = n /\ Alike(a, b) => SumOf(f, a) = SumOf(f, b)}
<1>0. \A r : Is(R, r) \in Weights(R)
  BY IsType
<1>1. ASSUME NEW b, b \in Seq(R), NEW r \in R, SumOf(Is(R, r), b) # 0
      PROVE  \E j \in DOMAIN b : b[j] = r
  <2>1. Cardinality(Places(b, r)) # 0
    BY <1>1, CountIsSum
  <2>2. Places(b, r) # {}
    BY <2>1, FS_EmptySet
  <2> QED BY <2>2 DEF Places
<1>2. ASSUME NEW b, b \in Seq(R), NEW j \in DOMAIN b
      PROVE  SumOf(Is(R, b[j]), b) # 0
  <2>1. Places(b, b[j]) # {} /\ b[j] \in R
    BY <1>2 DEF Places
  <2>2. IsFiniteSet(Places(b, b[j])) /\ Cardinality(Places(b, b[j])) = SumOf(Is(R, b[j]), b)
    BY <1>2, CountIsSum
  <2> QED BY <2>1, <2>2, FS_EmptySet
<1>3. 0 \in T
  <2> SUFFICES ASSUME NEW a \in Seq(R), NEW b \in Seq(R), Len(a) = 0, Alike(a, b)
               PROVE  SumOf(f, a) = SumOf(f, b)
    BY Zenon
  <2>1. a = <<>>
    OBVIOUS
  <2>2. \A r \in R : SumOf(Is(R, r), a) = 0
    BY <1>0, <2>1, SumEmpty
  <2>3. b = <<>>
    <3> SUFFICES ASSUME b # <<>> PROVE FALSE
      OBVIOUS
    <3>1. 1 \in DOMAIN b /\ b[1] \in R
      OBVIOUS
    <3>2. SumOf(Is(R, b[1]), b) # 0
      BY <1>2, <3>1
    <3>3. SumOf(Is(R, b[1]), a) = 0 /\ SumOf(Is(R, b[1]), a) = SumOf(Is(R, b[1]), b)
      BY <2>2, <3>1
    <3> QED BY <3>2, <3>3
  <2> QED BY <2>1, <2>3
<1>4. ASSUME NEW n \in Nat, n \in T,
             NEW a \in Seq(R), NEW b \in Seq(R), Len(a) = n + 1, Alike(a, b)
      PROVE  SumOf(f, a) = SumOf(f, b)
  <2> HIDE DEF Alike
  <2>0. a \in Seq(R) /\ n \in Nat /\ Longer(a, n)
    BY <1>4 DEF Longer
  <2>1. PICK w, x : w \in Seq(R) /\ x \in R /\ a = Append(w, x) /\ Len(w) = n
    <3>1. \E w, x : EndsWith(a, w, x, n, R)
      BY Zenon, <2>0, LastOf
    <3> QED BY <3>1 DEF EndsWith
  <2>2. \A g : g \in Weights(R) => SumOf(g, w) \in Int /\ SumOf(g, a) = SumOf(g, w) + g[x]
    BY <2>1, SumAppend
  <2>3. PICK j \in DOMAIN b : b[j] = x
    <3>1. n + 1 \in DOMAIN a /\ a[n + 1] = x
      BY <2>1, AppendProperties
    <3>2. SumOf(Is(R, x), a) # 0
      BY <1>2, <3>1
    <3>3. SumOf(Is(R, x), b) # 0
      BY <1>4, <2>1, <3>2 DEF Alike
    <3> QED BY <1>1, <2>1, <3>3
  <2>4. PICK u : /\ u \in Seq(R)
                 /\ \A g : g \in Weights(R) =>
                      SumOf(g, u) \in Int /\ g[x] \in Int /\ SumOf(g, b) = SumOf(g, u) + g[x]
    <3>1. PICK u : /\ u \in Seq(R)
                   /\ \A g : g \in Weights(R) =>
                        SumOf(g, u) \in Int /\ g[b[j]] \in Int /\ SumOf(g, b) = SumOf(g, u) + g[b[j]]
      BY OneTaken
    <3> QED BY <2>3, <3>1
  <2>5. Alike(w, u)
    <3> SUFFICES ASSUME NEW r \in R PROVE SumOf(Is(R, r), w) = SumOf(Is(R, r), u)
      BY DEF Alike
    <3>1. PICK g : g = Is(R, r)
      OBVIOUS
    <3>2. g \in Weights(R) /\ SumOf(g, a) = SumOf(g, b)
      BY <1>0, <1>4, <3>1 DEF Alike
    <3>2a. SumOf(g, w) \in Int /\ SumOf(g, a) = SumOf(g, w) + g[x]
      BY Zenon, <2>2, <3>2
    <3>2b. SumOf(g, u) \in Int /\ g[x] \in Int /\ SumOf(g, b) = SumOf(g, u) + g[x]
      BY Zenon, <2>4, <3>2
    <3>2c. \A c, d, e, k \in Int : c + e = d + e => c = d
      OBVIOUS
    <3>3. SumOf(g, w) = SumOf(g, u)
      BY <3>2, <3>2a, <3>2b, <3>2c
    <3> QED BY <3>1, <3>3
  <2>6. SumOf(f, w) = SumOf(f, u)
    <3> HIDE DEF Alike
    <3> QED BY <1>4, <2>1, <2>4, <2>5
  <2> QED BY <2>2, <2>4, <2>6
<1>4a. ASSUME NEW n \in Nat, n \in T PROVE n + 1 \in T
  <2> HIDE DEF Alike
  <2>1. \A a \in Seq(R) : \A b \in Seq(R) :
           Len(a) = n + 1 /\ Alike(a, b) => SumOf(f, a) = SumOf(f, b)
    BY <1>4, <1>4a
  <2> QED BY <2>1
<1>5. Alike(s, t)
  <2> SUFFICES ASSUME NEW r \in R PROVE SumOf(Is(R, r), s) = SumOf(Is(R, r), t)
    OBVIOUS
  <2>1. Cardinality(Places(s, r)) = SumOf(Is(R, r), s)
    BY CountIsSum
  <2>2. Cardinality(Places(t, r)) = SumOf(Is(R, r), t)
    BY CountIsSum
  <2> QED BY <2>1, <2>2
<1>6. Len(s) \in T
  <2>1. Len(s) \in Nat
    OBVIOUS
  <2> HIDE DEF T
  <2> QED BY <1>3, <1>4a, <2>1, InductionOnSet
<1> HIDE DEF Alike
<1> QED BY <1>5, <1>6

-----------------------------------------------------------------------------
(* Numbers and their bits.                                                 *)
Halves(h, x, n) ==
  /\ h \in [0 .. n -> Nat] /\ h[0] = x
  /\ \A i \in 1 .. n : h[i] = h[i - 1] \div 2

LEMMA ShiftLoop ==
  ASSUME NEW x \in Nat, NEW N \in Nat
  PROVE  \E h : Halves(h, x, N) /\ h[N] = ShiftRight(x, N)
<1> DEFINE F(h) == [i \in 0 .. N |-> IF i = 0 THEN x ELSE h[i - 1] \div 2]
           op == [p \in Nat \X (1 .. N) |-> p[1] \div 2]
           shifted == CHOOSE h : h = F(h)
<1>1. op \in Steps(Nat, N)
  BY DEF Steps
<1>2. \A y \in Nat : \A i \in 1 .. N : op[<<y, i>>] = y \div 2
  OBVIOUS
<1> HIDE DEF op
<1>3. PICK e : e \in [0 .. N -> Nat] /\ e[0] = x /\ \A i \in 1 .. N : e[i] = op[<<e[i - 1], i>>]
  <2>1. \E h : Repeats(h, Nat, N, x, op)
    BY Zenon, <1>1, RecursionExists
  <2> QED BY <2>1 DEF Repeats
<1>4. ASSUME NEW i \in 1 .. N PROVE e[i] = e[i - 1] \div 2
  <2>1. i - 1 \in 0 .. N
    OBVIOUS
  <2>2. e[i - 1] \in Nat
    BY <1>3, <2>1
  <2> QED BY <1>2, <1>3, <2>2
<1>5. e = F(e)
  <2>1. \A i \in 0 .. N : i # 0 => i \in 1 .. N
    OBVIOUS
  <2>2. \A i \in 0 .. N : e[i] = F(e)[i]
    BY <1>3, <1>4, <2>1
  <2>3. e = [i \in 0 .. N |-> e[i]] /\ F(e) = [i \in 0 .. N |-> F(e)[i]]
    BY <1>3
  <2> HIDE DEF F
  <2> QED BY <2>2, <2>3
<1>6. shifted = F(shifted)
  <2> HIDE DEF F
  <2> QED BY <1>5
<1>7. ShiftRight(x, N) = shifted[N]
  BY DEF ShiftRight
<1> HIDE DEF shifted
<1>8. shifted[0] = x
  <2>1. 0 \in 0 .. N
    OBVIOUS
  <2> QED BY <1>6, <2>1
<1>9. ASSUME NEW i \in 1 .. N PROVE shifted[i] = shifted[i - 1] \div 2
  <2>1. i \in 0 .. N /\ i # 0
    OBVIOUS
  <2>2. \A h : i \in 0 .. N /\ i # 0 => F(h)[i] = h[i - 1] \div 2
    OBVIOUS
  <2> HIDE DEF F
  <2> QED BY <1>6, <2>1, <2>2
<1> HIDE DEF F
<1> DEFINE T == {i \in Nat : i <= N => shifted[i] = e[i]}
<1>10. 0 \in T
  BY <1>3, <1>8
<1>11. ASSUME NEW i \in Nat, i \in T PROVE i + 1 \in T
  <2> SUFFICES ASSUME i + 1 <= N PROVE shifted[i + 1] = e[i + 1]
    OBVIOUS
  <2>1. PICK k : k = i + 1
    OBVIOUS
  <2>2. k \in 1 .. N /\ k - 1 = i /\ i <= N
    BY <2>1
  <2>3. shifted[i] = e[i]
    BY <1>11, <2>2
  <2>4. shifted[k] = shifted[i] \div 2 /\ e[k] = e[i] \div 2
    BY <1>4, <1>9, <2>2
  <2> QED BY <2>1, <2>3, <2>4
<1>12. N \in T
  <2> HIDE DEF T
  <2> QED BY <1>10, <1>11, InductionOnSet
<1>13. e[N] = ShiftRight(x, N)
  BY <1>7, <1>12
<1>14. Halves(e, x, N)
  BY <1>3, <1>4 DEF Halves
<1> QED BY <1>13, <1>14

LEMMA HalvesAgree ==
  ASSUME NEW x \in Nat, NEW n \in Nat, NEW m \in Nat, n <= m,
         NEW d, Halves(d, x, n), NEW h, Halves(h, x, m)
  PROVE  d[n] = h[n]
<1> DEFINE T == {i \in Nat : i <= n => d[i] = h[i]}
<1>1. 0 \in T
  BY DEF Halves
<1>2. ASSUME NEW i \in Nat, i \in T PROVE i + 1 \in T
  <2> SUFFICES ASSUME i + 1 <= n PROVE d[i + 1] = h[i + 1]
    OBVIOUS
  <2>1. PICK k : k = i + 1
    OBVIOUS
  <2>2. k \in 1 .. n /\ k \in 1 .. m /\ k - 1 = i /\ i <= n
    BY <2>1
  <2>3. d[i] = h[i]
    BY <1>2, <2>2
  <2>4. d[k] = d[i] \div 2 /\ h[k] = h[i] \div 2
    BY <2>2 DEF Halves
  <2> QED BY <2>1, <2>3, <2>4
<1>3. n \in T
  <2> HIDE DEF T
  <2> QED BY <1>1, <1>2, InductionOnSet
<1> QED BY <1>3

LEMMA ShiftRightIs ==
  ASSUME NEW x \in Nat, NEW n \in Nat
  PROVE  /\ ShiftRight(x, n) \in Nat /\ ShiftRight(x, 0) = x
         /\ ShiftRight(x, n + 1) = ShiftRight(x, n) \div 2
<1>1. PICK m \in Nat : m = n + 1
  OBVIOUS
<1>2. PICK d : Halves(d, x, n) /\ d[n] = ShiftRight(x, n)
  BY Zenon, ShiftLoop
<1>3. PICK h : Halves(h, x, m) /\ h[m] = ShiftRight(x, m)
  BY Zenon, ShiftLoop
<1>4. d[n] = h[n]
  BY <1>1, <1>2, <1>3, HalvesAgree
<1>5. m \in 1 .. m /\ m - 1 = n /\ n \in 0 .. n
  BY <1>1
<1>6. h[m] = h[n] \div 2 /\ d[n] \in Nat
  BY <1>2, <1>3, <1>5 DEF Halves
<1>7. ShiftRight(x, 0) = x
  <2>1. 0 \in Nat
    OBVIOUS
  <2>2. \E z : Halves(z, x, 0) /\ z[0] = ShiftRight(x, 0)
    BY Zenon, <2>1, ShiftLoop
  <2> QED BY <2>2 DEF Halves
<1> QED BY <1>1, <1>2, <1>3, <1>4, <1>6, <1>7

(* All shifts of a number, as a function.                                  *)
Shifted(x) == [n \in Nat |-> ShiftRight(x, n)]
LEMMA ShiftedIs ==
  ASSUME NEW x \in Nat
  PROVE  /\ Shifted(x) \in [Nat -> Nat] /\ Shifted(x)[0] = x
         /\ \A n \in Nat : /\ Shifted(x)[n] = ShiftRight(x, n)
                           /\ Shifted(x)[n + 1] = Shifted(x)[n] \div 2
<1>1. \A n \in Nat : ShiftRight(x, n) \in Nat
  BY ShiftRightIs
<1>2. \A n \in Nat : Shifted(x)[n] = ShiftRight(x, n)
  BY DEF Shifted
<1>3. ASSUME NEW n \in Nat PROVE Shifted(x)[n + 1] = Shifted(x)[n] \div 2
  <2>1. PICK m \in Nat : m = n + 1
    OBVIOUS
  <2>2. ShiftRight(x, m) = ShiftRight(x, n) \div 2
    BY <2>1, ShiftRightIs
  <2> QED BY <1>2, <2>1, <2>2
<1>4. Shifted(x)[0] = x
  BY <1>2, ShiftRightIs
<1>5. Shifted(x) \in [Nat -> Nat]
  BY <1>1 DEF Shifted
<1> QED BY <1>2, <1>3, <1>4, <1>5

(* One shift after the other.                                              *)
LEMMA ShiftFurther ==
  ASSUME NEW x \in Nat, NEW a \in Nat, NEW b \in Nat
  PROVE  ShiftRight(ShiftRight(x, a), b) = ShiftRight(x, a + b)
<1>1. PICK f, g : f = Shifted(x) /\ g = Shifted(ShiftRight(x, a))
  OBVIOUS
<1>2. ShiftRight(x, a) \in Nat
  BY ShiftRightIs
<1>3. /\ f \in [Nat -> Nat] /\ f[a] = ShiftRight(x, a)
      /\ \A n \in Nat : f[n] = ShiftRight(x, n) /\ f[n + 1] = f[n] \div 2
  BY <1>1, ShiftedIs
<1>4. /\ g \in [Nat -> Nat] /\ g[0] = ShiftRight(x, a)
      /\ \A n \in Nat : g[n] = ShiftRight(ShiftRight(x, a), n) /\ g[n + 1] = g[n] \div 2
  BY <1>1, <1>2, ShiftedIs
<1> DEFINE T == {n \in Nat : g[n] = f[a + n]}
<1>5. 0 \in T
  BY <1>3, <1>4
<1>6. ASSUME NEW n \in Nat, n \in T PROVE n + 1 \in T
  <2>1. PICK m \in Nat : m = a + n
    OBVIOUS
  <2>2. g[n] = f[m] /\ a + (n + 1) = m + 1
    BY <1>6, <2>1
  <2>3. g[n + 1] = f[m + 1]
    BY <1>3, <1>4, <2>2
  <2> QED BY <2>2, <2>3
<1>7. b \in T
  <2> HIDE DEF T
  <2> QED BY <1>5, <1>6, InductionOnSet
<1>8. PICK c \in Nat : c = a + b
  OBVIOUS
<1> QED BY <1>3, <1>4, <1>7, <1>8

(* The bits of a byte of a number are bits of the number.                  *)
LEMMA HalfAgain ==
  ASSUME NEW u \in Nat, NEW v \in Nat, NEW q \in Int, NEW c \in Int, u - v = 2 * (q * c)
  PROVE  u % 2 = v % 2 /\ (u \div 2) - (v \div 2) = q * c
<1>1. PICK t \in Int : t = q * c
  OBVIOUS
<1>2. u = v + 2 * t
  BY <1>1
<1>3. u % 2 = v % 2 /\ u \div 2 = (v \div 2) + t
  BY <1>2
<1> QED BY <1>1, <1>3

LEMMA ByteBit ==
  ASSUME NEW x \in Nat, NEW k \in 0 .. 7
  PROVE  ShiftRight(x % 256, k) % 2 = ShiftRight(x, k) % 2
<1>1. PICK y \in Nat, q \in Int : y = x % 256 /\ x - y = 2 * (q * 128)
  <2>1. x % 256 \in Nat /\ x - (x % 256) = 2 * ((x \div 256) * 128) /\ x \div 256 \in Int
    OBVIOUS
  <2> QED BY <2>1
<1>2. PICK f, g : f = Shifted(x) /\ g = Shifted(y)
  OBVIOUS
<1>3. /\ f \in [Nat -> Nat] /\ f[0] = x
      /\ \A n \in Nat : f[n] = ShiftRight(x, n) /\ f[n + 1] = f[n] \div 2
  BY <1>2, ShiftedIs
<1>4. /\ g \in [Nat -> Nat] /\ g[0] = y
      /\ \A n \in Nat : g[n] = ShiftRight(y, n) /\ g[n + 1] = g[n] \div 2
  BY <1>2, ShiftedIs
<1> DEFINE Near(n, c) == f[n] - g[n] = 2 * (q * c)
           Then(n, c, m, d) ==
             n \in Nat /\ c \in Int /\ m = n + 1 /\ d \in Int /\ c = 2 * d
           Same(n) == f[n] % 2 = g[n] % 2
<1>5. ASSUME NEW n \in Nat, NEW c \in Int, Near(n, c)
      PROVE  Same(n) /\ f[n + 1] - g[n + 1] = q * c
  <2>1. f[n] \in Nat /\ g[n] \in Nat
    BY <1>3, <1>4
  <2>2. f[n] % 2 = g[n] % 2 /\ (f[n] \div 2) - (g[n] \div 2) = q * c
    BY <1>5, <2>1, HalfAgain
  <2> QED BY <1>3, <1>4, <2>2
<1>6. ASSUME NEW n, NEW c, NEW m, NEW d, Then(n, c, m, d), Near(n, c)
      PROVE  Same(n) /\ Near(m, d)
  <2>1. Same(n) /\ f[n + 1] - g[n + 1] = q * c
    BY <1>5, <1>6
  <2>2. f[m] - g[m] = q * (2 * d)
    BY <1>6, <2>1
  <2>3. q * (2 * d) = 2 * (q * d)
    BY <1>6
  <2> QED BY <2>1, <2>2, <2>3
<1>7. Near(0, 128)
  BY <1>1, <1>3, <1>4
<1>8. /\ Then(0, 128, 1, 64) /\ Then(1, 64, 2, 32) /\ Then(2, 32, 3, 16) /\ Then(3, 16, 4, 8)
      /\ Then(4, 8, 5, 4) /\ Then(5, 4, 6, 2) /\ Then(6, 2, 7, 1)
  OBVIOUS
<1>9. Same(0) /\ Same(1) /\ Same(2) /\ Same(3) /\ Same(4) /\ Same(5) /\ Same(6) /\ Near(7, 1)
  <2> HIDE DEF Near, Then, Same
  <2>1. Same(0) /\ Near(1, 64)
    BY <1>6, <1>8, <1>7
  <2>2. Same(1) /\ Near(2, 32)
    BY <1>6, <1>8, <2>1
  <2>3. Same(2) /\ Near(3, 16)
    BY <1>6, <1>8, <2>2
  <2>4. Same(3) /\ Near(4, 8)
    BY <1>6, <1>8, <2>3
  <2>5. Same(4) /\ Near(5, 4)
    BY <1>6, <1>8, <2>4
  <2>6. Same(5) /\ Near(6, 2)
    BY <1>6, <1>8, <2>5
  <2>7. Same(6) /\ Near(7, 1)
    BY <1>6, <1>8, <2>6
  <2> QED BY <2>1, <2>2, <2>3, <2>4, <2>5, <2>6, <2>7
<1>10. Same(7)
  <2> HIDE DEF Near, Same
  <2> QED BY <1>5, <1>9
<1>14. f[k] % 2 = g[k] % 2
  BY <1>9, <1>10
<1> QED BY <1>1, <1>3, <1>4, <1>14

SameBit(z, x, k) == ShiftRight(z, k) % 2 = ShiftRight(x, k) % 2

LEMMA ByteBitAt ==
  ASSUME NEW x \in Nat, NEW k \in 0 .. 7, NEW z, z = x % 256
  PROVE  SameBit(z, x, k)
BY Zenon, ByteBit DEF SameBit

-----------------------------------------------------------------------------
(* A number has as many bits as it takes to shift it away.                 *)
LEMMA BitSizeIs ==
  ASSUME NEW m \in Nat, m >= 1
  PROVE  BitSize(m) \in 1 .. m /\ ShiftRight(m, BitSize(m) - 1) = 1
<1>1. PICK f : f = Shifted(m)
  OBVIOUS
<1>2. /\ f \in [Nat -> Nat] /\ f[0] = m
      /\ \A n \in Nat : f[n] = ShiftRight(m, n) /\ f[n + 1] = f[n] \div 2
  BY <1>1, ShiftedIs
<1> DEFINE Reached(n) == \E j \in 0 .. n : f[j] = 1
           T == {n \in Nat : Reached(n) \/ (f[n] >= 2 /\ f[n] <= m - n)}
<1>3. 0 \in T
  BY <1>2
<1>4. ASSUME NEW n \in Nat, n \in T PROVE n + 1 \in T
  <2>1. CASE Reached(n)
    <3>1. \A j \in 0 .. n : j \in 0 .. (n + 1)
      OBVIOUS
    <3> QED BY <2>1, <3>1
  <2>2. CASE f[n] >= 2 /\ f[n] <= m - n
    <3>1. PICK u \in Nat, v \in Nat : u = f[n] /\ v = f[n + 1] /\ v = u \div 2
      BY <1>2
    <3>2. v >= 1 /\ v <= m - (n + 1)
      BY <2>2, <3>1
    <3>3. n + 1 \in 0 .. (n + 1) /\ n + 1 \in Nat
      OBVIOUS
    <3>4. CASE v = 1
      BY <3>1, <3>3, <3>4
    <3>5. CASE v # 1
      <4>1. f[n + 1] >= 2 /\ f[n + 1] <= m - (n + 1)
        BY <3>1, <3>2, <3>5
      <4> HIDE DEF Reached
      <4> QED BY <3>3, <4>1
    <3> QED BY <3>4, <3>5
  <2> QED BY <1>4, <2>1, <2>2
<1>5. m - 1 \in T
  <2>1. m - 1 \in Nat
    OBVIOUS
  <2> HIDE DEF T
  <2> QED BY <1>3, <1>4, <2>1, InductionOnSet
<1>6. PICK j \in 0 .. (m - 1) : f[j] = 1
  <2>1. ~ (f[m - 1] >= 2 /\ f[m - 1] <= m - (m - 1))
    <3>1. f[m - 1] \in Nat
      BY <1>2
    <3> QED BY <3>1
  <2> QED BY <1>5, <2>1
<1>7. \E n \in 1 .. m : ShiftRight(m, n - 1) = 1
  <2>1. PICK n : n = j + 1
    OBVIOUS
  <2>2. n \in 1 .. m /\ n - 1 = j /\ j \in Nat
    BY <2>1
  <2>3. ShiftRight(m, n - 1) = 1
    BY <1>2, <1>6, <2>2
  <2> QED BY <2>2, <2>3
<1> QED BY <1>7 DEF BitSize

LEMMA SmallerShiftedAway ==
  ASSUME NEW m \in Nat, m >= 1, NEW x \in 0 .. (m - 1), NEW n \in Nat, n >= BitSize(m)
  PROVE  ShiftRight(x, n) = 0
<1>1. PICK f, g, d : f = Shifted(m) /\ g = Shifted(x) /\ d = BitSize(m) - 1
  OBVIOUS
<1>2. d \in Nat /\ ShiftRight(m, d) = 1 /\ n >= d + 1
  BY <1>1, BitSizeIs
<1>3. /\ f \in [Nat -> Nat] /\ f[0] = m /\ f[d] = 1
      /\ \A i \in Nat : f[i + 1] = f[i] \div 2
  BY <1>1, <1>2, ShiftedIs
<1>4. /\ g \in [Nat -> Nat] /\ g[0] = x
      /\ \A i \in Nat : g[i] = ShiftRight(x, i) /\ g[i + 1] = g[i] \div 2
  <2>1. x \in Nat
    OBVIOUS
  <2> QED BY <1>1, <2>1, ShiftedIs
<1> DEFINE T == {i \in Nat : g[i] <= f[i]}
           Z == {i \in Nat : i >= d + 1 => g[i] = 0}
<1>5. 0 \in T
  BY <1>3, <1>4
<1>6. ASSUME NEW i \in Nat, i \in T PROVE i + 1 \in T
  <2>1. PICK u \in Nat, v \in Nat : u = g[i] /\ v = f[i] /\ u <= v
    BY <1>3, <1>4, <1>6
  <2>2. u \div 2 <= v \div 2
    BY <2>1
  <2> QED BY <1>3, <1>4, <2>1, <2>2
<1>7. g[d] <= 1
  <2>1. d \in T
    <3> HIDE DEF T
    <3> QED BY <1>2, <1>5, <1>6, InductionOnSet
  <2> QED BY <1>3, <2>1
<1>8. 0 \in Z
  BY <1>2
<1>9. ASSUME NEW i \in Nat, i \in Z PROVE i + 1 \in Z
  <2> SUFFICES ASSUME i + 1 >= d + 1 PROVE g[i + 1] = 0
    OBVIOUS
  <2>1. g[i + 1] = g[i] \div 2 /\ g[i] \in Nat
    BY <1>4
  <2>2. g[i] <= 1
    <3>1. i = d \/ i >= d + 1
      BY <1>2
    <3> QED BY <1>7, <1>9, <3>1
  <2> QED BY <2>1, <2>2
<1>10. n \in Z
  <2> HIDE DEF Z
  <2> QED BY <1>8, <1>9, InductionOnSet
<1> QED BY <1>2, <1>4, <1>10

-----------------------------------------------------------------------------
(* The value of bits, from the last.                                       *)
BitValues(v, bits) ==
  /\ v \in [0 .. Len(bits) -> Int] /\ v[0] = 0
  /\ \A n \in 1 .. Len(bits) : v[n] = bits[Len(bits) + 1 - n] + 2 * v[n - 1]

LEMMA ValueLoop ==
  ASSUME NEW bits, bits \in Seq(Int)
  PROVE  \E v : BitValues(v, bits) /\ v[Len(bits)] = FromBitsLE(bits)
<1> DEFINE N == Len(bits)
           F(h) == [n \in 0 .. N |-> IF n = 0 THEN 0 ELSE bits[N + 1 - n] + 2 * h[n - 1]]
           op == [p \in Int \X (1 .. N) |-> bits[N + 1 - p[2]] + 2 * p[1]]
           value == CHOOSE h : h = F(h)
<1>0. N \in Nat /\ \A n \in 1 .. N : bits[N + 1 - n] \in Int
  <2>1. N \in Nat /\ \A n \in 1 .. N : N + 1 - n \in 1 .. N
    OBVIOUS
  <2>2. \A n \in 1 .. N : bits[n] \in Int
    OBVIOUS
  <2> HIDE DEF N
  <2> QED BY <2>1, <2>2
<1>1. op \in Steps(Int, N)
  <2>1. ASSUME NEW p \in Int \X (1 .. N) PROVE bits[N + 1 - p[2]] + 2 * p[1] \in Int
    <3>1. p[1] \in Int /\ p[2] \in 1 .. N
      OBVIOUS
    <3>2. bits[N + 1 - p[2]] \in Int
      BY <1>0, <3>1
    <3> HIDE DEF N
    <3> QED BY <3>1, <3>2
  <2> QED BY <2>1 DEF Steps
<1>2. \A y \in Int : \A n \in 1 .. N : op[<<y, n>>] = bits[N + 1 - n] + 2 * y
  OBVIOUS
<1> HIDE DEF op
<1>3. PICK e : e \in [0 .. N -> Int] /\ e[0] = 0 /\ \A n \in 1 .. N : e[n] = op[<<e[n - 1], n>>]
  <2>1. 0 \in Int
    OBVIOUS
  <2> HIDE DEF N
  <2>2. \E h : Repeats(h, Int, N, 0, op)
    BY Zenon, <1>0, <1>1, <2>1, RecursionExists
  <2> QED BY <2>2 DEF Repeats
<1>4. ASSUME NEW n \in 1 .. N PROVE e[n] = bits[N + 1 - n] + 2 * e[n - 1]
  <2>1. n - 1 \in 0 .. N
    BY <1>0
  <2>2. e[n - 1] \in Int
    BY <1>3, <2>1
  <2> QED BY <1>2, <1>3, <2>2
<1>5. e = F(e)
  <2>1. \A n \in 0 .. N : n # 0 => n \in 1 .. N
    BY <1>0
  <2>2. \A n \in 0 .. N : e[n] = F(e)[n]
    BY <1>3, <1>4, <2>1
  <2>3. e = [n \in 0 .. N |-> e[n]] /\ F(e) = [n \in 0 .. N |-> F(e)[n]]
    BY <1>3
  <2> HIDE DEF F
  <2> QED BY <2>2, <2>3
<1>6. value = F(value)
  <2> HIDE DEF F
  <2> QED BY <1>5
<1>7. FromBitsLE(bits) = value[N]
  BY DEF FromBitsLE
<1> HIDE DEF value
<1>8. value[0] = 0
  <2>1. 0 \in 0 .. N
    BY <1>0
  <2> QED BY <1>6, <2>1
<1>9. ASSUME NEW n \in 1 .. N PROVE value[n] = bits[N + 1 - n] + 2 * value[n - 1]
  <2>1. n \in 0 .. N /\ n # 0
    BY <1>0
  <2>2. \A h : n \in 0 .. N /\ n # 0 => F(h)[n] = bits[N + 1 - n] + 2 * h[n - 1]
    OBVIOUS
  <2> HIDE DEF F
  <2> QED BY <1>6, <2>1, <2>2
<1> HIDE DEF F, N
<1> DEFINE T == {n \in Nat : n <= N => value[n] = e[n]}
<1>10. 0 \in T
  BY <1>3, <1>8
<1>11. ASSUME NEW n \in Nat, n \in T PROVE n + 1 \in T
  <2> SUFFICES ASSUME n + 1 <= N PROVE value[n + 1] = e[n + 1]
    OBVIOUS
  <2>1. PICK k : k = n + 1
    OBVIOUS
  <2>2. k \in 1 .. N /\ k - 1 = n /\ n <= N
    BY <1>0, <2>1
  <2>3. value[n] = e[n]
    BY <1>11, <2>2
  <2>4. value[k] = bits[N + 1 - k] + 2 * value[n] /\ e[k] = bits[N + 1 - k] + 2 * e[n]
    BY <1>4, <1>9, <2>2
  <2> QED BY <2>1, <2>3, <2>4
<1>12. N \in T
  <2> HIDE DEF T
  <2> QED BY <1>0, <1>10, <1>11, InductionOnSet
<1>13. e[N] = FromBitsLE(bits)
  BY <1>0, <1>7, <1>12
<1>14. BitValues(e, bits)
  BY <1>3, <1>4 DEF BitValues, N
<1> QED BY <1>13, <1>14 DEF N

(* Bits of x that are all there is of it have its value.                   *)
LEMMA BitsMakeNumber ==
  ASSUME NEW x \in Nat, NEW bits, bits \in Seq(Int), ShiftRight(x, Len(bits)) = 0,
         \A p \in 1 .. Len(bits) : bits[p] = ShiftRight(x, p - 1) % 2
  PROVE  FromBitsLE(bits) = x
<1>1. PICK f, L : f = Shifted(x) /\ L = Len(bits)
  OBVIOUS
<1>2. /\ f \in [Nat -> Nat] /\ f[0] = x
      /\ \A i \in Nat : f[i] = ShiftRight(x, i) /\ f[i + 1] = f[i] \div 2
  BY <1>1, ShiftedIs
<1>3. L \in Nat
  BY <1>1
<1>4. f[L] = 0 /\ \A p \in 1 .. L : bits[p] = f[p - 1] % 2
  <2>1. \A p \in 1 .. L : p - 1 \in Nat
    BY <1>3
  <2> QED BY <1>1, <1>2, <1>3, <2>1
<1>5. PICK v : /\ v[0] = 0 /\ v[L] = FromBitsLE(bits)
               /\ \A n \in 1 .. L : v[n] = bits[L + 1 - n] + 2 * v[n - 1]
  <2>1. \E v : BitValues(v, bits) /\ v[Len(bits)] = FromBitsLE(bits)
    BY Zenon, ValueLoop
  <2> QED BY Zenon, <1>1, <2>1 DEF BitValues
<1> DEFINE T == {n \in Nat : n <= L => v[n] = f[L - n]}
<1>6. 0 \in T
  BY <1>3, <1>4, <1>5
<1>7. ASSUME NEW n \in Nat, n \in T PROVE n + 1 \in T
  <2> SUFFICES ASSUME n + 1 <= L PROVE v[n + 1] = f[L - (n + 1)]
    OBVIOUS
  <2>1. PICK k, i : k = n + 1 /\ i = L - (n + 1)
    OBVIOUS
  <2>2. k \in 1 .. L /\ k - 1 = n /\ n <= L /\ i \in Nat /\ i + 1 = L - n /\ L + 1 - k = i + 1
        /\ i + 1 \in 1 .. L /\ (i + 1) - 1 = i
    BY <1>3, <2>1
  <2>3. v[n] = f[i + 1]
    BY <1>7, <2>2
  <2>4. v[k] = bits[i + 1] + 2 * v[n]
    BY <1>5, <2>2
  <2>5. bits[i + 1] = f[i] % 2
    BY <1>4, <2>2
  <2>6. f[i + 1] = f[i] \div 2 /\ f[i] \in Nat
    BY <1>2, <2>2
  <2>7. f[i] = (f[i] % 2) + 2 * (f[i] \div 2)
    BY <2>6
  <2> QED BY <2>1, <2>3, <2>4, <2>5, <2>6, <2>7
<1>8. L \in T
  <2> HIDE DEF T
  <2> QED BY <1>3, <1>6, <1>7, InductionOnSet
<1>9. L - L = 0 /\ v[L] = f[L - L]
  BY <1>3, <1>8
<1> QED BY <1>2, <1>5, <1>9

-----------------------------------------------------------------------------
(* Sequences put one after the other.                                      *)
Joins(f, seqs, n) == f[n] = IF n = 1 THEN seqs[n] ELSE f[n - 1] \o seqs[n]
Flattens(f, seqs) ==
  f[Len(seqs)] = FlattenSeq(seqs) /\ \A n \in 1 .. Len(seqs) : Joins(f, seqs, n)

LEMMA FlatLoop ==
  ASSUME NEW X, NEW seqs, seqs \in Seq(Seq(X)), Len(seqs) # 0
  PROVE  \E f : Flattens(f, seqs)
<1> DEFINE N == Len(seqs)
           F(f) == [i \in 1 .. N |-> IF i = 1 THEN seqs[i] ELSE f[i - 1] \o seqs[i]]
           flat == CHOOSE f : f = F(f)
           op == [p \in Seq(X) \X (1 .. N) |-> p[1] \o seqs[p[2]]]
<1>0. N \in Nat /\ \A i \in 1 .. N : seqs[i] \in Seq(X)
  OBVIOUS
<1>1. op \in Steps(Seq(X), N)
  <2>1. ASSUME NEW p \in Seq(X) \X (1 .. N) PROVE p[1] \o seqs[p[2]] \in Seq(X)
    <3>1. p[1] \in Seq(X) /\ seqs[p[2]] \in Seq(X)
      BY <1>0
    <3> QED BY <3>1, ConcatProperties
  <2> QED BY <2>1 DEF Steps
<1>2. \A x \in Seq(X) : \A n \in 1 .. N : op[<<x, n>>] = x \o seqs[n]
  OBVIOUS
<1>3. <<>> \in Seq(X)
  OBVIOUS
<1> HIDE DEF op
<1>4. PICK e : /\ e \in [0 .. N -> Seq(X)] /\ e[0] = <<>>
               /\ \A n \in 1 .. N : e[n] = op[<<e[n - 1], n>>]
  <2>1. N \in Nat
    BY <1>0
  <2> HIDE DEF N
  <2>2. \E h : Repeats(h, Seq(X), N, <<>>, op)
    BY Zenon, <1>1, <1>3, <2>1, RecursionExists
  <2> QED BY <2>2 DEF Repeats
<1>5. ASSUME NEW n \in 1 .. N
      PROVE  e[n] = (IF n = 1 THEN seqs[n] ELSE e[n - 1] \o seqs[n]) /\ e[n] \in Seq(X)
  <2>1. n - 1 \in 0 .. N /\ n \in 0 .. N /\ (n = 1 => n - 1 = 0) /\ seqs[n] \in Seq(X)
    BY <1>0
  <2>2. e[n - 1] \in Seq(X) /\ e[n] \in Seq(X)
    BY <1>4, <2>1
  <2>3. e[n] = e[n - 1] \o seqs[n]
    BY <1>2, <1>4, <2>2
  <2>4. n = 1 => e[n - 1] = <<>>
    BY <1>4, <2>1
  <2>5. <<>> \o seqs[n] = seqs[n]
    BY <2>1, ConcatEmptySeq
  <2> QED BY <2>2, <2>3, <2>4, <2>5
<1> DEFINE g == [i \in 1 .. N |-> e[i]]
<1>6. g = F(g)
  <2>1. \A i \in 1 .. N : i # 1 => i - 1 \in 1 .. N
    BY <1>0
  <2>2. \A i \in 1 .. N : g[i] = F(g)[i]
    BY <1>5, <2>1
  <2>3. g = [i \in 1 .. N |-> g[i]] /\ F(g) = [i \in 1 .. N |-> F(g)[i]]
    OBVIOUS
  <2> HIDE DEF F, g
  <2> QED BY <2>2, <2>3
<1>7. flat = F(flat)
  <2> HIDE DEF F, g
  <2> QED BY <1>6
<1>8. FlattenSeq(seqs) = flat[N]
  BY DEF FlattenSeq
<1> HIDE DEF flat
<1>9. ASSUME NEW n \in 1 .. N PROVE flat[n] = IF n = 1 THEN seqs[n] ELSE flat[n - 1] \o seqs[n]
  <2>1. \A f : F(f)[n] = IF n = 1 THEN seqs[n] ELSE f[n - 1] \o seqs[n]
    OBVIOUS
  <2> HIDE DEF F
  <2> QED BY <1>7, <2>1
<1> HIDE DEF F
<1>10. \A i \in 1 .. N : Joins(flat, seqs, i)
  BY <1>9 DEF Joins
<1> QED BY <1>8, <1>10 DEF Flattens

(* Sequences of one length: each is where the lengths say.                 *)
Laid(f, seqs, n) ==
  /\ Len(f) = 8 * n
  /\ \A i \in 1 .. n : \A k \in 1 .. 8 : f[8 * (i - 1) + k] = seqs[i][k]

LEMMA LaidNext ==
  ASSUME NEW X, NEW seqs, NEW n \in Nat, NEW f \in Seq(X), Laid(f, seqs, n),
         NEW s \in Seq(X), s = seqs[n + 1], Len(s) = 8
  PROVE  Laid(f \o s, seqs, n + 1)
<1>1. Len(f) = 8 * n /\ \A i \in 1 .. n : \A k \in 1 .. 8 : f[8 * (i - 1) + k] = seqs[i][k]
  BY DEF Laid
<1>2. PICK t : t = f \o s
  OBVIOUS
<1>3. /\ Len(t) = 8 * n + 8
      /\ \A p \in 1 .. (8 * n) : t[p] = f[p]
      /\ \A k \in 1 .. 8 : t[8 * n + k] = s[k]
  <2>1. /\ Len(t) = Len(f) + Len(s) /\ \A p \in 1 .. Len(f) : t[p] = f[p]
        /\ \A k \in 1 .. Len(s) : t[Len(f) + k] = s[k]
    <3>1. \A p \in 1 .. Len(f) + Len(s) : t[p] = IF p <= Len(f) THEN f[p] ELSE s[p - Len(f)]
      BY <1>2, ConcatProperties
    <3>2. Len(t) = Len(f) + Len(s)
      BY <1>2, ConcatProperties
    <3>3. Len(f) \in Nat /\ Len(s) \in Nat
      OBVIOUS
    <3>4. ASSUME NEW k \in 1 .. Len(s) PROVE t[Len(f) + k] = s[k]
      <4>1. PICK p : p = Len(f) + k
        OBVIOUS
      <4>2. p \in 1 .. Len(f) + Len(s) /\ ~ (p <= Len(f)) /\ p - Len(f) = k
        BY <3>3, <4>1
      <4> QED BY <3>1, <4>1, <4>2
    <3>5. \A p \in 1 .. Len(f) : p \in 1 .. Len(f) + Len(s) /\ p <= Len(f)
      BY <3>3
    <3> QED BY <3>1, <3>2, <3>4, <3>5
  <2> QED BY <1>1, <2>1
<1>4. ASSUME NEW i \in 1 .. (n + 1), NEW k \in 1 .. 8
      PROVE  t[8 * (i - 1) + k] = seqs[i][k]
  <2>1. CASE i = n + 1
    <3>1. 8 * (i - 1) + k = 8 * n + k
      BY <2>1
    <3> QED BY <1>3, <2>1, <3>1
  <2>2. CASE i # n + 1
    <3>1. i \in 1 .. n
      BY <2>2
    <3>2. 8 * (i - 1) + k \in 1 .. (8 * n)
      BY <3>1
    <3> QED BY <1>1, <1>3, <3>1, <3>2
  <2> QED BY <2>1, <2>2
<1>5. 8 * n + 8 = 8 * (n + 1)
  OBVIOUS
<1> QED BY <1>2, <1>3, <1>4, <1>5 DEF Laid

LEMMA FlatIsLaid ==
  ASSUME NEW X, NEW seqs, seqs \in Seq(Seq(X)),
         \A i \in 1 .. Len(seqs) : Len(seqs[i]) = 8
  PROVE  FlattenSeq(seqs) \in Seq(X) /\ Laid(FlattenSeq(seqs), seqs, Len(seqs))
<1>0. PICK N \in Nat : N = Len(seqs)
  OBVIOUS
<1>1. \A i \in 1 .. N : seqs[i] \in Seq(X) /\ Len(seqs[i]) = 8
  BY <1>0
<1>2. CASE N = 0
  <2>0. seqs = <<>> /\ Len(seqs) = 0
    <3>1. Len(seqs) = 0
      BY <1>0, <1>2
    <3> QED BY Zenon, <3>1, EmptySeq
  <2>1. FlattenSeq(seqs) = <<>>
    BY <2>0 DEF FlattenSeq
  <2>2. <<>> \in Seq(X) /\ Len(<<>>) = 0
    OBVIOUS
  <2>3. Laid(<<>>, seqs, 0)
    BY <2>2 DEF Laid
  <2> QED BY <1>0, <1>2, <2>1, <2>2, <2>3
<1>3. CASE N # 0
  <2>1. PICK f : f[N] = FlattenSeq(seqs) /\ \A n \in 1 .. N : Joins(f, seqs, n)
    <3>1. \E f : Flattens(f, seqs)
      BY <1>0, <1>3, FlatLoop
    <3> QED BY <1>0, <3>1 DEF Flattens
  <2> DEFINE T == {n \in Nat : n + 1 <= N => f[n + 1] \in Seq(X) /\ Laid(f[n + 1], seqs, n + 1)}
  <2>2. 0 \in T
    <3>1. 1 \in 1 .. N
      BY <1>3
    <3>2. f[1] = seqs[1]
      BY <2>1, <3>1 DEF Joins
    <3>3. seqs[1] \in Seq(X) /\ Len(seqs[1]) = 8
      BY <1>1, <3>1
    <3>4. Laid(seqs[1], seqs, 1)
      BY <3>3 DEF Laid
    <3> QED BY <3>2, <3>3, <3>4
  <2>3. ASSUME NEW n \in Nat, n \in T PROVE n + 1 \in T
    <3> SUFFICES ASSUME n + 1 + 1 <= N
                 PROVE  f[n + 1 + 1] \in Seq(X) /\ Laid(f[n + 1 + 1], seqs, n + 1 + 1)
      OBVIOUS
    <3>1. PICK j \in Nat, k \in Nat : j = n + 1 /\ k = j + 1
      OBVIOUS
    <3>2. k \in 1 .. N /\ k # 1 /\ k - 1 = j /\ n + 1 <= N
      BY <3>1
    <3>3. f[j] \in Seq(X) /\ Laid(f[j], seqs, j)
      BY <2>3, <3>1, <3>2
    <3>4. seqs[k] \in Seq(X) /\ Len(seqs[k]) = 8
      BY <1>1, <3>2
    <3>5. f[k] = f[j] \o seqs[k]
      BY <2>1, <3>2 DEF Joins
    <3>6. PICK s \in Seq(X) : s = seqs[j + 1] /\ Len(s) = 8 /\ f[k] = f[j] \o s
      BY <3>1, <3>4, <3>5
    <3>7. Laid(f[j] \o s, seqs, j + 1)
      BY <3>3, <3>6, LaidNext
    <3>8. f[j] \o s \in Seq(X)
      BY <3>3, ConcatProperties
    <3> QED BY <3>1, <3>6, <3>7, <3>8
  <2>4. N - 1 \in Nat /\ N - 1 + 1 = N
    BY <1>3
  <2>5. N - 1 \in T
    <3> HIDE DEF T
    <3> QED BY <2>2, <2>3, <2>4, InductionOnSet
  <2> QED BY <1>0, <2>1, <2>4, <2>5
<1> QED BY <1>2, <1>3

-----------------------------------------------------------------------------
(* The bytes of a scalar, as bits, make the scalar.                        *)
LEMMA ByteOfPlace ==
  ASSUME NEW n \in Nat, NEW p \in 1 .. 8 * n
  PROVE  \E i \in 1 .. n : \E k \in 1 .. 8 : p = 8 * (i - 1) + k
<1>1. PICK q, k : q = (p - 1) \div 8 /\ k = ((p - 1) % 8) + 1
  OBVIOUS
<1>2. q \in Nat /\ k \in 1 .. 8 /\ p = 8 * q + k
  BY <1>1
<1>3. q + 1 \in 1 .. n /\ p = 8 * ((q + 1) - 1) + k
  BY <1>2
<1> QED BY <1>2, <1>3

ShowsBits(bs, r) == \A p \in 1 .. Len(bs) : bs[p] = ShiftRight(r, p - 1) % 2

LEMMA ScalarBitsAre ==
  ASSUME NEW r \in Nat, NEW m \in Nat, r < m, NEW bs, bs = BitsLSBFirst(ScalarBytes(r, m))
  PROVE  bs \in Seq(Int) /\ Len(bs) >= BitSize(m) /\ ShowsBits(bs, r)
<1>1. PICK N \in Nat : N = (BitSize(m) + 7) \div 8 /\ 8 * N >= BitSize(m)
  <2>1. PICK b \in Nat : b = BitSize(m)
    BY BitSizeIs
  <2> QED BY <2>1
<1>2. PICK bytes : bytes = ScalarBytes(r, m)
  OBVIOUS
<1>3. DOMAIN bytes = 1 .. N /\ \A i \in 1 .. N : bytes[i] = ShiftRight(r, 8 * (i - 1)) % 256
  <2>1. (BitSize(m) + ByteBits - 1) \div ByteBits = N
    <3>1. PICK b \in Nat : b = BitSize(m)
      BY BitSizeIs
    <3>2. (b + 8 - 1) \div 8 = (b + 7) \div 8
      OBVIOUS
    <3> QED BY <1>1, <3>1, <3>2 DEF ByteBits
  <2>2. bytes = [i \in 1 .. N |-> ShiftRight(r, ByteBits * (i - 1)) % 256]
    BY <1>2, <2>1 DEF ScalarBytes
  <2> QED BY <2>2 DEF ByteBits
<1>4. \A i \in 1 .. N : bytes[i] \in Nat
  <2>1. ASSUME NEW i \in 1 .. N PROVE ShiftRight(r, 8 * (i - 1)) % 256 \in Nat
    <3>1. PICK y \in Nat : y = ShiftRight(r, 8 * (i - 1))
      <4>1. 8 * (i - 1) \in Nat
        OBVIOUS
      <4> QED BY <4>1, ShiftRightIs
    <3> QED BY <3>1
  <2> QED BY <1>3, <2>1
<1>5. PICK seqs : seqs = [i \in 1 .. N |-> BitsLE(bytes[i], 8)]
  OBVIOUS
<1>6. ASSUME NEW i \in 1 .. N
      PROVE  /\ seqs[i] \in Seq(Int) /\ Len(seqs[i]) = 8
             /\ \A k \in 1 .. 8 : seqs[i][k] = ShiftRight(bytes[i], k - 1) % 2
  <2>1. seqs[i] = [k \in 1 .. 8 |-> ShiftRight(bytes[i], k - 1) % 2]
    BY <1>5 DEF BitsLE
  <2>2. ASSUME NEW k \in 1 .. 8 PROVE ShiftRight(bytes[i], k - 1) % 2 \in Int
    <3>1. PICK y \in Nat : y = ShiftRight(bytes[i], k - 1)
      <4>1. k - 1 \in Nat /\ bytes[i] \in Nat
        BY <1>4
      <4> QED BY <4>1, ShiftRightIs
    <3> QED BY <3>1
  <2>3. seqs[i] \in [1 .. 8 -> Int]
    BY <2>1, <2>2
  <2> QED BY <2>1, <2>3
<1>7. seqs \in Seq(Seq(Int)) /\ Len(seqs) = N
  BY <1>5, <1>6
<1>8. PICK bits : bits = FlattenSeq(seqs)
  OBVIOUS
<1>9. bits \in Seq(Int) /\ Laid(bits, seqs, N)
  BY <1>6, <1>7, <1>8, FlatIsLaid
<1>10. bits = BitsLSBFirst(bytes)
  BY <1>3, <1>5, <1>8 DEF BitsLSBFirst, ByteBits
<1>11. ASSUME NEW p \in 1 .. Len(bits) PROVE bits[p] = ShiftRight(r, p - 1) % 2
  <2>1. p \in 1 .. 8 * N
    BY <1>9 DEF Laid
  <2>2. PICK i \in 1 .. N, k \in 1 .. 8 : p = 8 * (i - 1) + k
    BY <2>1, ByteOfPlace
  <2>3. bits[p] = seqs[i][k]
    BY <1>9, <2>2 DEF Laid
  <2>4. PICK a \in Nat, h \in 0 .. 7 : a = 8 * (i - 1) /\ h = k - 1
    OBVIOUS
  <2>5. PICK y : a = 8 * (i - 1) /\ y = ShiftRight(r, a) /\ h = k - 1
    BY <2>4
  <2>6. y \in Nat /\ bytes[i] = y % 256
    BY <1>3, <2>5, ShiftRightIs
  <2>7. seqs[i][k] = ShiftRight(y % 256, h) % 2
    <3>1. seqs[i][k] = ShiftRight(bytes[i], k - 1) % 2
      BY Zenon, <1>6
    <3> QED BY Zenon, <2>5, <2>6, <3>1
  <2>8. ShiftRight(y % 256, h) % 2 = ShiftRight(y, h) % 2
    <3>1. PICK z : z = y % 256
      OBVIOUS
    <3>2. SameBit(z, y, h)
      BY <2>6, <3>1, ByteBitAt
    <3> QED BY Zenon, <3>1, <3>2 DEF SameBit
  <2>9. ShiftRight(y, h) = ShiftRight(r, a + h)
    <3>1. h \in Nat
      OBVIOUS
    <3>2. ShiftRight(ShiftRight(r, a), h) = ShiftRight(r, a + h)
      BY <3>1, ShiftFurther
    <3> QED BY <2>5, <3>2
  <2>10. a + h = p - 1
    BY <2>2, <2>5
  <2> QED BY <2>3, <2>7, <2>8, <2>9, <2>10
<1>12. Len(bits) >= BitSize(m)
  BY <1>1, <1>9 DEF Laid
<1>13. ShowsBits(bits, r)
  BY Zenon, <1>11 DEF ShowsBits
<1> QED BY Zenon, <1>2, <1>9, <1>10, <1>12, <1>13

LEMMA ScalarBits ==
  ASSUME NEW r \in Nat, NEW m \in Nat, r < m
  PROVE  FromBitsLE(BitsLSBFirst(ScalarBytes(r, m))) = r
<1>1. PICK bits : bits = BitsLSBFirst(ScalarBytes(r, m))
  OBVIOUS
<1>2. /\ bits \in Seq(Int) /\ Len(bits) >= BitSize(m)
      /\ \A p \in 1 .. Len(bits) : bits[p] = ShiftRight(r, p - 1) % 2
  <2>1. bits \in Seq(Int) /\ Len(bits) >= BitSize(m) /\ ShowsBits(bits, r)
    BY Zenon, <1>1, ScalarBitsAre
  <2> QED BY Zenon, <2>1 DEF ShowsBits
<1>3. ShiftRight(r, Len(bits)) = 0
  <2>1. PICK n \in Nat : n = Len(bits) /\ n >= BitSize(m)
    BY <1>2, LenProperties
  <2>2. m >= 1 /\ r \in 0 .. (m - 1)
    OBVIOUS
  <2> QED BY <2>1, <2>2, SmallerShiftedAway
<1>4. FromBitsLE(bits) = r
  BY <1>2, <1>3, BitsMakeNumber
<1> QED BY <1>1, <1>4

LEMMA BitsOf ==
  ASSUME NEW randomness \in Randomness
  PROVE  Len(BitsMSBFirst(randomness)) \in Nat
<1> DEFINE Bits(i) == Reverse(BitsLE(randomness[i], ByteBits))
           X == {Bits(i)[k] : i \in DOMAIN randomness, k \in 1 .. ByteBits}
           seqs == [i \in DOMAIN randomness |-> Bits(i)]
<1>1. PICK n \in Nat : DOMAIN randomness = 1 .. n
  <2>1. randomness \in Seq(0 .. 255)
    BY SchemesAssumption
  <2> QED BY <2>1
<1>2. ASSUME NEW i \in DOMAIN randomness PROVE Bits(i) \in Seq(X) /\ Len(Bits(i)) = 8
  <2>1. PICK b : b = BitsLE(randomness[i], ByteBits)
    OBVIOUS
  <2>2. Len(b) = ByteBits /\ ByteBits = 8
    BY <2>1 DEF BitsLE, ByteBits
  <2>3. Bits(i) = [k \in 1 .. ByteBits |-> Bits(i)[k]]
    BY <2>1, <2>2 DEF Reverse
  <2>4. \A k \in 1 .. ByteBits : Bits(i)[k] \in X
    OBVIOUS
  <2> HIDE DEF Bits, X
  <2>5. [k \in 1 .. ByteBits |-> Bits(i)[k]] \in [1 .. ByteBits -> X]
    BY <2>4
  <2> QED BY <2>2, <2>3, <2>5
<1>3. seqs \in Seq(Seq(X))
  <2> HIDE DEF Bits, X
  <2> QED BY <1>1, <1>2
<1>4. FlattenSeq(seqs) \in Seq(X)
  <2>1. \A i \in 1 .. Len(seqs) : Len(seqs[i]) = 8
    <3>1. Len(seqs) = n
      BY <1>1
    <3> HIDE DEF Bits, X
    <3> QED BY <1>1, <1>2, <3>1
  <2> HIDE DEF seqs, X
  <2> QED BY <1>3, <2>1, FlatIsLaid
<1>5. BitsMSBFirst(randomness) = FlattenSeq(seqs)
  BY DEF BitsMSBFirst
<1> HIDE DEF X
<1> QED BY <1>4, <1>5, LenProperties

-----------------------------------------------------------------------------
(* Calculating with group elements: integers up to multiples of Order.     *)
Alike(x, y) == x \in Int /\ y \in Int /\ Divides(Order, x - y)

LEMMA AlikeRest ==
  ASSUME NEW x \in Int
  PROVE  Alike(x % Order, x) /\ Alike(x, x % Order)
<1>1. x % Order \in Int
  BY Zenon, RestInGroup
<1>2. PICK r : r = x % Order
  OBVIOUS
<1>3. r \in Int /\ Order \in Nat \ {0} /\ Divides(Order, x - (x % Order))
  <2>1. r \in Int
    BY <1>1, <1>2
  <2>2. Order \in Nat \ {0}
    BY Parameters
  <2> QED BY Zenon, <2>1, <2>2, RestOf
<1>4. Divides(Order, x - r)
  BY Zenon, <1>2, <1>3
<1>5. 0 - (x - r) = r - x /\ x - r \in Int
  BY <1>3
<1>6. Divides(Order, 0)
  BY <1>3 DEF Divides
<1>7. Divides(Order, r - x)
  <2>1. PICK q \in Int : x - r = q * Order
    BY <1>4 DEF Divides
  <2>2. r - x = (-q) * Order /\ -q \in Int
    BY <1>3, <2>1
  <2> QED BY <2>2 DEF Divides
<1>8. Alike(r, x) /\ Alike(x, r)
  BY <1>3, <1>4, <1>7 DEF Alike
<1> QED BY Zenon, <1>2, <1>8

LEMMA AlikeItself ==
  ASSUME NEW x \in Int
  PROVE  Alike(x, x)
<1>1. x - x = 0 * Order /\ 0 \in Int
  BY Parameters
<1> QED BY <1>1 DEF Alike, Divides

LEMMA AlikeTransitive ==
  ASSUME NEW x, NEW y, NEW z, Alike(x, y), Alike(y, z)
  PROVE  Alike(x, z)
<1>1. x \in Int /\ y \in Int /\ z \in Int /\ Order \in Int
  BY Parameters DEF Alike
<1>2. PICK q \in Int : x - y = q * Order
  BY DEF Alike, Divides
<1>3. PICK r \in Int : y - z = r * Order
  BY DEF Alike, Divides
<1>4. x - z = (q + r) * Order /\ q + r \in Int
  BY <1>1, <1>2, <1>3
<1> QED BY <1>1, <1>4 DEF Alike, Divides

LEMMA AlikeBoth ==
  ASSUME NEW x, NEW y, NEW z, Alike(x, y), Alike(z, y)
  PROVE  Alike(x, z)
<1>1. x \in Int /\ y \in Int /\ z \in Int /\ Order \in Int
  BY Parameters DEF Alike
<1>2. PICK q \in Int : x - y = q * Order
  BY DEF Alike, Divides
<1>3. PICK r \in Int : z - y = r * Order
  BY DEF Alike, Divides
<1>4. x - z = (q - r) * Order /\ q - r \in Int
  BY <1>1, <1>2, <1>3
<1> QED BY <1>1, <1>4 DEF Alike, Divides

LEMMA AlikeArithmetic ==
  ASSUME NEW x, NEW y, NEW u, NEW v, Alike(x, y), Alike(u, v)
  PROVE  Alike(x + u, y + v) /\ Alike(x - u, y - v) /\ Alike(x * u, y * v)
<1>1. x \in Int /\ y \in Int /\ u \in Int /\ v \in Int /\ Order \in Int
  BY Parameters DEF Alike
<1>2. PICK q \in Int : x - y = q * Order
  BY DEF Alike, Divides
<1>3. PICK r \in Int : u - v = r * Order
  BY DEF Alike, Divides
<1>4. (x + u) - (y + v) = (q + r) * Order /\ q + r \in Int
  BY <1>1, <1>2, <1>3
<1>5. (x - u) - (y - v) = (q - r) * Order /\ q - r \in Int
  BY <1>1, <1>2, <1>3
<1>6. x * u - y * v = (q * u + y * r) * Order /\ q * u + y * r \in Int
  <2>1. x * u - y * v = (x - y) * u + y * (u - v)
    BY <1>1
  <2>2. (q * Order) * u + y * (r * Order) = (q * u + y * r) * Order
    BY <1>1
  <2> QED BY <1>1, <1>2, <1>3, <2>1, <2>2
<1>7. x + u \in Int /\ y + v \in Int /\ x - u \in Int /\ y - v \in Int /\ x * u \in Int /\ y * v \in Int
  BY <1>1
<1> QED BY <1>4, <1>5, <1>6, <1>7 DEF Alike, Divides

(* Elements of the group that are alike are equal.                         *)
LEMMA AlikeEqual ==
  ASSUME NEW x \in Group, NEW y \in Group, Alike(x, y)
  PROVE  x = y
<1>1. x \in Int /\ y \in Int /\ Order \in Nat \ {0} /\ x - y < Order /\ -Order < x - y
  BY Parameters DEF Group, Scalars
<1>2. Divides(Order, x - y)
  BY DEF Alike
<1>3. x - y = 0
  BY <1>1, <1>2, SmallMultiple
<1> QED BY <1>1, <1>3

LEMMA AlikeProduct ==
  ASSUME NEW x \in Int, NEW y \in Int, Alike(x * y, 0)
  PROVE  Alike(x, 0) \/ Alike(y, 0)
<1>1. x * y \in Int /\ x * y - 0 = x * y /\ x - 0 = x /\ y - 0 = y /\ 0 \in Int
  OBVIOUS
<1>2. Divides(Order, x * y)
  BY <1>1 DEF Alike
<1>3. Divides(Order, x) \/ Divides(Order, y)
  BY Zenon, <1>2, Parameters, NoZeroDivisors
<1> QED BY <1>1, <1>3 DEF Alike

LEMMA MulAlike ==
  ASSUME NEW x \in Int, NEW y \in Int
  PROVE  Alike(Mul(x, y), x * y) /\ Mul(x, y) \in Group /\ Mul(x, y) \in Int
<1>1. PICK z : z = x * y
  OBVIOUS
<1>2. z \in Int
  BY <1>1
<1>3. Alike(z % Order, z) /\ z % Order \in Group /\ z % Order \in Int
  BY Zenon, <1>2, AlikeRest, RestInGroup
<1> QED BY Zenon, <1>1, <1>3 DEF Mul

(* The shift of a key is the generator times the signature's multiplier.   *)
Shifts == [randomness \in Randomness |-> KeyShift(randomness)]

LEMMA ShiftsMeet ==
  /\ Shifts \in Weights(Randomness)
  /\ \A randomness \in Randomness :
       /\ Shifts[randomness] = KeyShift(randomness) /\ Multiplier(randomness) \in Int
       /\ Alike(Multiplier(randomness) * Generator, KeyShift(randomness))
<1>1. ASSUME NEW randomness \in Randomness
      PROVE  /\ KeyShift(randomness) \in Int /\ Multiplier(randomness) \in Int
             /\ Alike(Multiplier(randomness) * Generator, KeyShift(randomness))
  <2>1. PICK bits : bits = BitsMSBFirst(randomness)
    OBVIOUS
  <2>2. Len(bits) \in Nat
    BY <2>1, BitsOf
  <2>3. /\ PowersSum(bits) \in Int /\ DoubleAndAdd(bits) \in Int
        /\ Divides(Order, PowersSum(bits) * Generator - DoubleAndAdd(bits))
    BY Zenon, <2>2, SumIsMultiple
  <2>4. KeyShift(randomness) = DoubleAndAdd(bits) /\ Multiplier(randomness) = PowersSum(bits)
    BY <2>1 DEF KeyShift, Multiplier
  <2>5. PowersSum(bits) * Generator \in Int
    BY <2>3, Parameters
  <2> QED BY Zenon, <2>3, <2>4, <2>5 DEF Alike
<1>2. Shifts \in Weights(Randomness)
  BY <1>1 DEF Shifts, Weights
<1> QED BY <1>1, <1>2 DEF Shifts

-----------------------------------------------------------------------------
LEMMA GeneratorIs == Generator \in Int /\ Alike(Generator, Generator) /\ ~ Alike(Generator, 0)
<1>1. Generator \in Int /\ Generator \in Group /\ 0 \in Group /\ Generator # 0
  BY Parameters, SchemesAssumption DEF Group, Scalars
<1> QED BY <1>1, AlikeItself, AlikeEqual

(* What verify recomputes, against what was signed.                        *)
Commits(p, s, e, w, S) == Alike(p, s * Generator + e * (w + S))
Claimed(pk, s, e) == (Mul(s, Generator) + Mul(e, pk)) % Order

LEMMA ClaimedFollows ==
  ASSUME NEW s \in Int, NEW e \in Int, NEW w \in Int, NEW K \in Int, NEW S \in Int,
         NEW pk, NEW p, Alike(pk, w + K), Commits(p, s, e, w, S)
  PROVE  Alike(Claimed(pk, s, e) - p, e * (K - S))
<1>1. pk \in Int /\ Generator \in Int
  BY GeneratorIs DEF Alike
<1>2. PICK a, b, c : a = s * Generator /\ b = e * (w + K) /\ c = e * (w + S)
  OBVIOUS
<1>3. Alike(Mul(s, Generator), a)
  BY Zenon, <1>1, <1>2, MulAlike
<1>4. Alike(Mul(e, pk), b)
  <2>1. Alike(Mul(e, pk), e * pk)
    BY Zenon, <1>1, MulAlike
  <2>2. Alike(e * pk, b)
    BY Zenon, <1>2, AlikeItself, AlikeArithmetic
  <2> QED BY Zenon, <2>1, <2>2, AlikeTransitive
<1>5. PICK d : d = Mul(s, Generator) + Mul(e, pk)
  OBVIOUS
<1>6. Alike(d, a + b)
  BY Zenon, <1>3, <1>4, <1>5, AlikeArithmetic
<1>7. Alike(d % Order, a + b)
  <2>1. d \in Int
    BY Zenon, <1>6 DEF Alike
  <2> QED BY Zenon, <1>6, <2>1, AlikeRest, AlikeTransitive
<1>8. Alike(p, a + c)
  BY Zenon, <1>2 DEF Commits
<1>9. Alike((d % Order) - p, (a + b) - (a + c))
  BY Zenon, <1>7, <1>8, AlikeArithmetic
<1>10. (a + b) - (a + c) = e * (K - S)
  <2>1. a \in Int
    BY <1>1, <1>2
  <2>2. b - c = e * (K - S) /\ b \in Int /\ c \in Int
    BY <1>2
  <2> QED BY <2>1, <2>2
<1>11. (d % Order) - p = Claimed(pk, s, e) - p
  BY Zenon, <1>5 DEF Claimed
<1> QED BY Zenon, <1>9, <1>10, <1>11

(* A signature just made, and one shifted once more.                       *)
LEMMA SignedCommits ==
  ASSUME NEW k \in Int, NEW e \in Int, NEW x \in Int
  PROVE  Commits(Mul(k, Generator), (k - e * x) % Order, e, x * Generator, 0)
<1>1. PICK g \in Int : g = Generator
  BY GeneratorIs
<1>2. PICK d \in Int : d = k - e * x
  OBVIOUS
<1>3. Alike(d % Order, d) /\ Alike(g, g)
  BY Zenon, <1>1, <1>2, AlikeRest, AlikeItself
<1>4. Alike((d % Order) * g, d * g)
  BY Zenon, <1>3, AlikeArithmetic
<1>5. PICK t \in Int : t = e * (x * g + 0)
  BY <1>1
<1>6. Alike((d % Order) * g + t, d * g + t)
  BY Zenon, <1>4, <1>5, AlikeItself, AlikeArithmetic
<1>7. d * g + t = k * g
  BY <1>1, <1>2, <1>5
<1>8. Alike(Mul(k, g), k * g)
  BY Zenon, MulAlike
<1>9. Alike(Mul(k, g), (d % Order) * g + t)
  <2>1. Alike(Mul(k, g), d * g + t)
    BY Zenon, <1>7, <1>8
  <2> QED BY Zenon, <1>6, <2>1, AlikeBoth
<1> QED BY Zenon, <1>1, <1>2, <1>5, <1>9 DEF Commits

LEMMA ShiftedCommits ==
  ASSUME NEW s \in Int, NEW e \in Int, NEW w \in Int, NEW S \in Int, NEW p,
         NEW M \in Int, NEW k \in Int, Alike(M * Generator, k), Commits(p, s, e, w, S)
  PROVE  Commits(p, (s - e * M) % Order, e, w, S + k)
<1>1. PICK g \in Int : g = Generator
  BY GeneratorIs
<1>2. PICK d \in Int : d = s - e * M
  OBVIOUS
<1>3. Alike(d % Order, d) /\ Alike(g, g)
  BY Zenon, <1>1, <1>2, AlikeRest, AlikeItself
<1>4. Alike((d % Order) * g, d * g)
  BY Zenon, <1>3, AlikeArithmetic
<1>5. Alike(d * g, s * g - e * k)
  <2>1. Alike(e * (M * g), e * k)
    BY Zenon, <1>1, AlikeItself, AlikeArithmetic
  <2>2. s * g \in Int
    BY <1>1
  <2>3. Alike(s * g - e * (M * g), s * g - e * k)
    BY Zenon, <2>1, <2>2, AlikeItself, AlikeArithmetic
  <2>4. d * g = s * g - e * (M * g)
    BY <1>1, <1>2
  <2> QED BY Zenon, <2>3, <2>4
<1>6. PICK t \in Int : t = e * (w + (S + k))
  OBVIOUS
<1>7. Alike((d % Order) * g + t, (s * g - e * k) + t)
  <2>1. Alike((d % Order) * g, s * g - e * k)
    BY Zenon, <1>4, <1>5, AlikeTransitive
  <2>2. Alike(t, t)
    BY Zenon, AlikeItself
  <2> QED BY Zenon, <2>1, <2>2, AlikeArithmetic
<1>8. (s * g - e * k) + t = s * g + e * (w + S)
  BY <1>1, <1>6
<1>9. Alike(p, s * g + e * (w + S))
  BY Zenon, <1>1 DEF Commits
<1>10. Alike(p, (d % Order) * g + t)
  <2>1. Alike((d % Order) * g + t, s * g + e * (w + S))
    BY Zenon, <1>7, <1>8
  <2> QED BY Zenon, <1>9, <2>1, AlikeBoth
<1> QED BY Zenon, <1>1, <1>2, <1>6, <1>10 DEF Commits

(* A key shifted once more.                                                *)
LEMMA ShiftedKey ==
  ASSUME NEW w \in Int, NEW K \in Int, NEW k \in Int, NEW pk, Alike(pk, w + K)
  PROVE  Alike((k + pk) % Order, w + (K + k))
<1>1. PICK d : d = k + pk
  OBVIOUS
<1>2. Alike(d, k + (w + K))
  BY Zenon, <1>1, AlikeItself, AlikeArithmetic
<1>3. Alike(d % Order, d)
  BY Zenon, <1>2, AlikeRest DEF Alike
<1>4. k + (w + K) = w + (K + k)
  OBVIOUS
<1> QED BY Zenon, <1>1, <1>2, <1>3, <1>4, AlikeTransitive

(* What a key y makes of a ciphertext of m for the key x.                  *)
LEMMA DecryptionIs ==
  ASSUME NEW pk, NEW x \in Int, NEW y \in Int, NEW m \in Int, NEW r \in Int,
         Alike(pk, x * Generator), NEW c, c = EncryptNative(pk, m, r)
  PROVE  /\ Alike(DecryptWith(y, c) - m, ((x - y) * r) * Generator)
         /\ DecryptWith(y, c) \in Group
<1>1. PICK g \in Int : g = Generator
  BY GeneratorIs
<1>2. PICK c1, c2 : c1 = Mul(r, g) /\ c2 = (m + Mul(r, pk)) % Order
  OBVIOUS
<1>3. c.c1 = c1 /\ c.c2 = c2
  BY <1>1, <1>2 DEF EncryptNative
<1>4. Alike(c2, m + r * (x * g))
  <2>1. pk \in Int /\ Alike(pk, x * g)
    BY Zenon, <1>1 DEF Alike
  <2>2. Alike(Mul(r, pk), r * pk)
    BY Zenon, <2>1, MulAlike
  <2>3. Alike(r * pk, r * (x * g))
    BY Zenon, <2>1, AlikeItself, AlikeArithmetic
  <2>4. PICK d : d = m + Mul(r, pk)
    OBVIOUS
  <2>5. Alike(d, m + r * (x * g))
    <3>1. Alike(Mul(r, pk), r * (x * g))
      BY Zenon, <2>2, <2>3, AlikeTransitive
    <3>2. Alike(m, m)
      BY Zenon, AlikeItself
    <3>3. Alike(m + Mul(r, pk), m + r * (x * g))
      BY Zenon, <3>1, <3>2, AlikeArithmetic
    <3> QED BY Zenon, <2>4, <3>3
  <2>6. Alike(d % Order, d)
    BY Zenon, <2>5, AlikeRest DEF Alike
  <2>7. Alike(d % Order, m + r * (x * g))
    BY Zenon, <2>5, <2>6, AlikeTransitive
  <2> QED BY Zenon, <1>2, <2>4, <2>7
<1>5. Alike(Mul(y, c1), y * (r * g))
  <2>1. Alike(c1, r * g) /\ c1 \in Int
    BY Zenon, <1>2, MulAlike
  <2>2. Alike(Mul(y, c1), y * c1)
    BY Zenon, <2>1, MulAlike
  <2>3. Alike(y * c1, y * (r * g))
    BY Zenon, <2>1, AlikeItself, AlikeArithmetic
  <2> QED BY Zenon, <2>2, <2>3, AlikeTransitive
<1>6. PICK d : d = c2 - Mul(y, c1)
  OBVIOUS
<1>7. Alike(d, (m + r * (x * g)) - y * (r * g))
  BY Zenon, <1>4, <1>5, <1>6, AlikeArithmetic
<1>8. Alike(d % Order, (m + r * (x * g)) - y * (r * g)) /\ d % Order \in Group
  <2>1. d \in Int
    BY Zenon, <1>7 DEF Alike
  <2>2. Alike(d % Order, d) /\ d % Order \in Group
    BY Zenon, <2>1, AlikeRest, RestInGroup
  <2> QED BY Zenon, <1>7, <2>2, AlikeTransitive
<1>9. Alike((d % Order) - m, ((m + r * (x * g)) - y * (r * g)) - m)
  BY Zenon, <1>8, AlikeItself, AlikeArithmetic
<1>10. ((m + r * (x * g)) - y * (r * g)) - m = ((x - y) * r) * g
  <2>1. r * (x * g) = (x * r) * g /\ y * (r * g) = (y * r) * g /\ (x * r) * g \in Int /\ (y * r) * g \in Int
    BY <1>1
  <2>2. ((x - y) * r) * g = (x * r) * g - (y * r) * g
    BY <1>1
  <2> QED BY <2>1, <2>2
<1>11. DecryptWith(y, c) = d % Order
  BY Zenon, <1>3, <1>6 DEF DecryptWith
<1> QED BY Zenon, <1>1, <1>8, <1>9, <1>10, <1>11

LEMMA CircuitEncrypts ==
  ASSUME NEW pk, NEW m, NEW r \in Scalars
  PROVE  EncryptVar(pk, m, r) = EncryptNative(pk, m, r)
<1>1. r \in Nat /\ Order \in Nat /\ r < Order
  BY Parameters DEF Scalars
<1>2. FromBitsLE(BitsLSBFirst(ScalarBytes(r, Order))) = r
  BY <1>1, ScalarBits
<1> QED BY <1>2 DEF EncryptVar, EncryptNative

-----------------------------------------------------------------------------
(* The invariant.  A key is the generator times its secret and the shifts  *)
(* it got; a signature commits to what its maker committed to, for a key   *)
(* with the shifts the signature got.                                      *)
KeysInv ==
  /\ secret \in Scalars \cup {Unmade}
  /\ secret = Unmade => keyShifts = <<>> /\ signature = <<>> /\ ciphertext = <<>>
  /\ keyShifts \in Seq(Randomness) /\ sigShifts \in Seq(Randomness)
  /\ scheme = "elgamal" => keyShifts = <<>>
  /\ secret # Unmade => Alike(public, secret * Generator + SumOf(Shifts, keyShifts))

SignatureIs(s, e, m, p) ==
  /\ signature = <<[response |-> s, challenge |-> e]>>
  /\ signed = <<[message |-> m, commitment |-> p]>>

SignatureInv ==
  /\ signature = <<>> => sigShifts = <<>>
  /\ signature # <<>> =>
       \E s \in Int, e \in Scalars, m \in Messages, p \in Group :
         /\ SignatureIs(s, e, m, p) /\ Challenge(p, m) = e
         /\ Commits(p, s, e, secret * Generator, SumOf(Shifts, sigShifts))

CiphertextIs(m, r, n, v) ==
  ciphertext = <<[message |-> m, r |-> r, native |-> n, circuit |-> v]>>

CiphertextInv ==
  /\ ciphertext # <<>> =>
       /\ scheme = "elgamal"
       /\ \E m \in Group, r \in Scalars : \E n, v :
            CiphertextIs(m, r, n, v) /\ n = EncryptNative(public, m, r) /\ v = n
  /\ decrypted # Unmade =>
       ciphertext # <<>> /\ decrypted = DecryptWith(secret, ciphertext[1].native)

SchemesInv == KeysInv /\ SignatureInv /\ CiphertextInv

LEMMA ScalarIs ==
  /\ Unmade \notin Scalars /\ Scalars \subseteq Int /\ Group = Scalars
  /\ \A x \in Scalars : x # Unmade /\ x \in Int /\ x * Generator \in Int
BY Parameters DEF Scalars, Group, Unmade

LEMMA ShiftSums ==
  ASSUME NEW s, s \in Seq(Randomness)
  PROVE  /\ SumOf(Shifts, s) \in Int
         /\ SumOf(Shifts, <<>>) = 0
         /\ \A r \in Randomness :
              /\ Append(s, r) \in Seq(Randomness)
              /\ SumOf(Shifts, Append(s, r)) = SumOf(Shifts, s) + KeyShift(r)
<1>1. \A r \in Randomness : SumOf(Shifts, Append(s, r)) = SumOf(Shifts, s) + KeyShift(r)
  <2> SUFFICES ASSUME NEW r \in Randomness
               PROVE  SumOf(Shifts, Append(s, r)) = SumOf(Shifts, s) + KeyShift(r)
    OBVIOUS
  <2>1. SumOf(Shifts, Append(s, r)) = SumOf(Shifts, s) + Shifts[r]
    BY SumAppend, ShiftsMeet
  <2> QED BY <2>1, ShiftsMeet
<1>2. SumOf(Shifts, <<>>) = 0
  BY SumEmpty, ShiftsMeet
<1>3. SumOf(Shifts, s) \in Int
  <2>1. \E h : Sums(h, Shifts, s) /\ h[Len(s)] = SumOf(Shifts, s)
    BY SumLoop, ShiftsMeet
  <2>2. Len(s) \in 0 .. Len(s)
    OBVIOUS
  <2> QED BY <2>1, <2>2 DEF Sums
<1> QED BY <1>1, <1>2, <1>3, AppendProperties

LEMMA SchemesStart ==
  SchemesInit => SchemesInv
BY DEF SchemesInit, SchemesInv, KeysInv, SignatureInv, CiphertextInv

LEMMA KeyGenKeeps ==
  ASSUME SchemesInv, NEW x \in Scalars, KeyGen(x)
  PROVE  SchemesInv'
<1>1. /\ secret = Unmade /\ secret' = x /\ public' = Mul(x, Generator)
      /\ UNCHANGED <<scheme, signature, signed, keyShifts, sigShifts, ciphertext, decrypted>>
  BY DEF KeyGen
<1>2. keyShifts = <<>> /\ signature = <<>> /\ ciphertext = <<>>
  BY <1>1 DEF SchemesInv, KeysInv
<1>3. Alike(Mul(x, Generator), x * Generator + SumOf(Shifts, <<>>))
  <2>1. Alike(Mul(x, Generator), x * Generator) /\ x * Generator \in Int
    BY Zenon, MulAlike, ScalarIs, GeneratorIs
  <2>2. SumOf(Shifts, <<>>) = 0
    BY SumEmpty, ShiftsMeet
  <2>3. x * Generator + SumOf(Shifts, <<>>) = x * Generator
    BY <2>1, <2>2
  <2> QED BY Zenon, <2>1, <2>3
<1>4. KeysInv'
  BY <1>1, <1>2, <1>3, ScalarIs DEF SchemesInv, KeysInv
<1>5. SignatureInv'
  BY <1>1, <1>2 DEF SchemesInv, SignatureInv
<1>6. CiphertextInv'
  BY <1>1, <1>2 DEF SchemesInv, CiphertextInv
<1> QED BY <1>4, <1>5, <1>6 DEF SchemesInv

LEMMA SignKeeps ==
  ASSUME SchemesInv, NEW k \in Scalars, NEW m \in Messages, Sign(k, m)
  PROVE  SchemesInv'
<1>1. PICK e, p : e = Challenge(Mul(k, Generator), m) /\ p = Mul(k, Generator)
  OBVIOUS
<1>2. PICK s : s = (k - e * secret) % Order
  OBVIOUS
<1>3. /\ secret # Unmade /\ signature = <<>> /\ e # Rejected
      /\ signature' = <<[response |-> s, challenge |-> e]>>
      /\ signed' = <<[message |-> m, commitment |-> p]>>
      /\ UNCHANGED <<scheme, secret, public, publicVar, keyShifts, sigShifts, ciphertext, decrypted>>
  BY <1>1, <1>2 DEF Sign
<1>4. p \in Group /\ e \in Scalars /\ secret \in Scalars /\ k \in Int /\ e \in Int /\ secret \in Int
  <2>1. p \in Group
    BY Zenon, <1>1, MulAlike, GeneratorIs, ScalarIs
  <2>2. e = Challenge(p, m)
    BY <1>1
  <2>3. e \in Scalars
    BY <1>3, <2>1, <2>2, SchemesAssumption
  <2>4. secret \in Scalars
    BY <1>3 DEF SchemesInv, KeysInv
  <2> QED BY <2>1, <2>3, <2>4, ScalarIs
<1>5. s \in Int
  <2>1. k - e * secret \in Int
    BY <1>4
  <2> QED BY Zenon, <1>2, <2>1, RestInGroup
<1>6. sigShifts = <<>> /\ sigShifts' = <<>>
  BY <1>3 DEF SchemesInv, SignatureInv
<1>7. Commits(p, s, e, secret * Generator, 0)
  BY Zenon, <1>1, <1>2, <1>4, SignedCommits
<1>8. Commits(p, s, e, secret' * Generator, SumOf(Shifts, sigShifts'))
  <2>1. SumOf(Shifts, sigShifts') = 0
    BY <1>6, SumEmpty, ShiftsMeet
  <2> QED BY <1>3, <1>7, <2>1
<1>9. SignatureInv'
  <2>1. SignatureIs(s, e, m, p)' /\ signature' # <<>>
    BY <1>3 DEF SignatureIs
  <2>2. Challenge(p, m) = e
    BY <1>1
  <2> QED BY <1>4, <1>5, <1>8, <2>1, <2>2 DEF SignatureInv
<1>10. KeysInv'
  BY <1>3, <1>4, ScalarIs DEF SchemesInv, KeysInv
<1>11. CiphertextInv'
  BY <1>3 DEF SchemesInv, CiphertextInv, CiphertextIs
<1> QED BY <1>9, <1>10, <1>11 DEF SchemesInv

LEMMA RandomizePublicKeyKeeps ==
  ASSUME SchemesInv, NEW r \in Randomness, RandomizePublicKey(r)
  PROVE  SchemesInv'
<1>1. /\ scheme = "schnorr" /\ secret # Unmade
      /\ public' = (KeyShift(r) + public) % Order /\ keyShifts' = Append(keyShifts, r)
      /\ UNCHANGED <<scheme, secret, signature, signed, sigShifts, ciphertext, decrypted>>
  BY DEF RandomizePublicKey
<1>2. /\ secret \in Scalars /\ keyShifts \in Seq(Randomness) /\ sigShifts \in Seq(Randomness)
      /\ Alike(public, secret * Generator + SumOf(Shifts, keyShifts))
  BY <1>1 DEF SchemesInv, KeysInv
<1>3. PICK w, K, k : /\ w = secret * Generator /\ K = SumOf(Shifts, keyShifts) /\ k = KeyShift(r)
  OBVIOUS
<1>4. /\ w \in Int /\ K \in Int /\ k \in Int
      /\ keyShifts' \in Seq(Randomness) /\ SumOf(Shifts, keyShifts') = K + k
  <2>1. k \in Int
    BY <1>3, ShiftsMeet DEF Alike
  <2> QED BY <1>1, <1>2, <1>3, <2>1, ScalarIs, ShiftSums
<1>5. Alike((k + public) % Order, w + (K + k))
  <2>1. Alike(public, w + K)
    BY <1>2, <1>3
  <2> QED BY Zenon, <1>4, <2>1, ShiftedKey
<1>6. secret' * Generator + SumOf(Shifts, keyShifts') = w + (K + k) /\ public' = (k + public) % Order
  BY <1>1, <1>3, <1>4
<1>7. Alike(public', secret' * Generator + SumOf(Shifts, keyShifts'))
  BY Zenon, <1>5, <1>6
<1>8. KeysInv'
  BY <1>1, <1>2, <1>4, <1>7, ScalarIs DEF SchemesInv, KeysInv
<1>9. SignatureInv'
  BY <1>1 DEF SchemesInv, SignatureInv, SignatureIs
<1>10. CiphertextInv'
  BY <1>1 DEF SchemesInv, CiphertextInv
<1> QED BY <1>8, <1>9, <1>10 DEF SchemesInv

LEMMA RandomizeSignatureKeeps ==
  ASSUME SchemesInv, NEW r \in Randomness, RandomizeSignature(r)
  PROVE  SchemesInv'
<1>1. /\ signature # <<>> /\ sigShifts' = Append(sigShifts, r)
      /\ signature' = <<[signature[1] EXCEPT !.response =
                           (@ - signature[1].challenge * Multiplier(r)) % Order]>>
      /\ UNCHANGED <<scheme, secret, public, publicVar, signed, keyShifts, ciphertext, decrypted>>
  BY DEF RandomizeSignature
<1>2. PICK s \in Int, e \in Scalars, m \in Messages, p \in Group :
        /\ SignatureIs(s, e, m, p) /\ Challenge(p, m) = e
        /\ Commits(p, s, e, secret * Generator, SumOf(Shifts, sigShifts))
  BY <1>1 DEF SchemesInv, SignatureInv
<1>3. secret \in Scalars /\ sigShifts \in Seq(Randomness)
  BY <1>1 DEF SchemesInv, KeysInv
<1>4. PICK w, S, k, M : /\ w = secret * Generator /\ S = SumOf(Shifts, sigShifts)
                        /\ k = KeyShift(r) /\ M = Multiplier(r)
  OBVIOUS
<1>5. /\ w \in Int /\ S \in Int /\ k \in Int /\ M \in Int /\ e \in Int
      /\ Alike(M * Generator, k)
      /\ sigShifts' \in Seq(Randomness) /\ SumOf(Shifts, sigShifts') = S + k
  <2>1. k \in Int /\ M \in Int /\ Alike(M * Generator, k)
    BY <1>4, ShiftsMeet DEF Alike
  <2> QED BY <1>1, <1>3, <1>4, <2>1, ScalarIs, ShiftSums
<1>6. PICK t : t = (s - e * M) % Order
  OBVIOUS
<1>7. t \in Int
  <2>1. s - e * M \in Int
    BY <1>5
  <2> QED BY Zenon, <1>6, <2>1, RestInGroup
<1>8. Commits(p, t, e, w, S + k)
  <2>1. Commits(p, s, e, w, S)
    BY Zenon, <1>2, <1>4
  <2> QED BY Zenon, <1>5, <1>6, <2>1, ShiftedCommits
<1>9. Commits(p, t, e, secret' * Generator, SumOf(Shifts, sigShifts'))
  BY <1>1, <1>4, <1>5, <1>8
<1>10. SignatureIs(t, e, m, p)'
  <2>1. signature[1] = [response |-> s, challenge |-> e] /\ signed' = <<[message |-> m, commitment |-> p]>>
    BY <1>1, <1>2 DEF SignatureIs
  <2>2. signature' = <<[response |-> (s - e * M) % Order, challenge |-> e]>>
    BY <1>1, <1>4, <2>1
  <2> QED BY <1>6, <2>1, <2>2 DEF SignatureIs
<1>11. SignatureInv'
  <2>1. signature' # <<>>
    BY <1>10 DEF SignatureIs
  <2> QED BY <1>2, <1>7, <1>9, <1>10, <2>1 DEF SignatureInv
<1>12. KeysInv'
  BY <1>1, <1>3, <1>5, ScalarIs DEF SchemesInv, KeysInv
<1>13. CiphertextInv'
  BY <1>1 DEF SchemesInv, CiphertextInv, CiphertextIs
<1> QED BY <1>11, <1>12, <1>13 DEF SchemesInv

LEMMA EncryptKeeps ==
  ASSUME SchemesInv, NEW m \in Group, NEW r \in Scalars, Encrypt(m, r)
  PROVE  SchemesInv'
<1>1. PICK n, v : n = EncryptNative(public, m, r) /\ v = EncryptVar(public, m, r)
  OBVIOUS
<1>2. /\ scheme = "elgamal" /\ secret # Unmade /\ ciphertext = <<>>
      /\ ciphertext' = <<[message |-> m, r |-> r, native |-> n, circuit |-> v]>>
      /\ UNCHANGED <<scheme, secret, public, publicVar, signature, signed, keyShifts, sigShifts, decrypted>>
  BY <1>1 DEF Encrypt
<1>3. KeysInv'
  BY <1>2 DEF SchemesInv, KeysInv
<1>4. SignatureInv'
  BY <1>2 DEF SchemesInv, SignatureInv, SignatureIs
<1>5. CiphertextInv'
  <2>1. CiphertextIs(m, r, n, v)' /\ decrypted' = Unmade
    BY <1>2 DEF CiphertextIs, SchemesInv, CiphertextInv
  <2>2. n = EncryptNative(public', m, r) /\ v = n
    BY <1>1, <1>2, CircuitEncrypts
  <2> QED BY <1>2, <2>1, <2>2 DEF CiphertextInv
<1> QED BY <1>3, <1>4, <1>5 DEF SchemesInv

LEMMA DecryptKeeps ==
  ASSUME SchemesInv, Decrypt
  PROVE  SchemesInv'
<1>1. /\ ciphertext # <<>> /\ decrypted' = DecryptWith(secret, ciphertext[1].native)
      /\ UNCHANGED <<scheme, secret, public, publicVar, signature, signed, keyShifts, sigShifts, ciphertext>>
  BY DEF Decrypt
<1>2. KeysInv'
  BY <1>1 DEF SchemesInv, KeysInv
<1>3. SignatureInv'
  BY <1>1 DEF SchemesInv, SignatureInv, SignatureIs
<1>4. CiphertextInv'
  <2>1. DecryptWith(secret', ciphertext'[1].native) = DecryptWith(secret, ciphertext[1].native)
    BY <1>1
  <2> QED BY <1>1, <2>1 DEF SchemesInv, CiphertextInv, CiphertextIs
<1> QED BY <1>2, <1>3, <1>4 DEF SchemesInv

LEMMA SchemesStutters ==
  ASSUME SchemesInv, UNCHANGED schemesVars
  PROVE  SchemesInv'
<1>1. UNCHANGED <<scheme, secret, public, signature, signed, keyShifts, sigShifts, ciphertext, decrypted>>
  BY DEF schemesVars
<1>2. KeysInv'
  BY <1>1 DEF SchemesInv, KeysInv
<1>3. SignatureInv'
  BY <1>1 DEF SchemesInv, SignatureInv, SignatureIs
<1>4. CiphertextInv'
  BY <1>1 DEF SchemesInv, CiphertextInv, CiphertextIs
<1> QED BY <1>2, <1>3, <1>4 DEF SchemesInv

-----------------------------------------------------------------------------
(* The invariant gives the properties.                                     *)
LEMMA TotalIs ==
  ASSUME NEW shifts
  PROVE  TotalShift(shifts) = SumOf(Shifts, shifts) % Order
BY DEF TotalShift, Shifts

LEMMA SameShiftsSum ==
  ASSUME KeysInv, SameShifts
  PROVE  SumOf(Shifts, keyShifts) = SumOf(Shifts, sigShifts)
<1>1. keyShifts \in Seq(Randomness) /\ sigShifts \in Seq(Randomness)
  BY DEF KeysInv
<1>2. \A r \in Randomness : Cardinality(Places(keyShifts, r)) = Cardinality(Places(sigShifts, r))
  BY DEF SameShifts, Places
<1> QED BY <1>1, <1>2, SumsAlike, ShiftsMeet

LEMMA ZeroInGroup == 0 \in Group /\ 0 \in Int
BY Parameters DEF Group, Scalars

LEMMA SignatureInvFollows ==
  ASSUME SchemesInv
  PROVE  SignatureFollowsKey
<1> SUFFICES ASSUME signature # <<>>
             PROVE  /\ SameShifts => Verify(public, signed[1].message, signature[1])
                    /\ ClaimedCommitment(public, signature[1]) = signed[1].commitment
                         <=> \/ signature[1].challenge = 0
                             \/ TotalShift(keyShifts) = TotalShift(sigShifts)
  BY DEF SignatureFollowsKey
<1>1. PICK s \in Int, e \in Scalars, m \in Messages, p \in Group :
        /\ SignatureIs(s, e, m, p) /\ Challenge(p, m) = e
        /\ Commits(p, s, e, secret * Generator, SumOf(Shifts, sigShifts))
  BY DEF SchemesInv, SignatureInv
<1>2. /\ signature[1].response = s /\ signature[1].challenge = e
      /\ signed[1].message = m /\ signed[1].commitment = p
  BY <1>1 DEF SignatureIs
<1>3. /\ secret \in Scalars /\ keyShifts \in Seq(Randomness) /\ sigShifts \in Seq(Randomness)
      /\ Alike(public, secret * Generator + SumOf(Shifts, keyShifts))
  BY DEF SchemesInv, KeysInv
<1>4. PICK w, K, S : w = secret * Generator /\ K = SumOf(Shifts, keyShifts) /\ S = SumOf(Shifts, sigShifts)
  OBVIOUS
<1>5. w \in Int /\ K \in Int /\ S \in Int /\ e \in Int /\ p \in Int
  BY <1>3, <1>4, ScalarIs, ShiftSums
<1>6. PICK C : C = Claimed(public, s, e)
  OBVIOUS
<1>7. C = ClaimedCommitment(public, signature[1])
  BY <1>2, <1>6 DEF Claimed, ClaimedCommitment
<1>8. Alike(C - p, e * (K - S))
  <2>1. Alike(public, w + K) /\ Commits(p, s, e, w, S)
    BY Zenon, <1>1, <1>3, <1>4
  <2> QED BY Zenon, <1>5, <1>6, <2>1, ClaimedFollows
<1>9. C \in Group /\ C \in Int
  <2>1. Mul(s, Generator) + Mul(e, public) \in Int
    <3>1. public \in Int
      BY <1>3 DEF Alike
    <3>2. Mul(s, Generator) \in Int /\ Mul(e, public) \in Int
      BY Zenon, <1>5, <3>1, MulAlike, GeneratorIs
    <3> QED BY <3>2
  <2> QED BY Zenon, <1>6, <2>1, RestInGroup DEF Claimed
<1>10. C = p <=> Alike(e * (K - S), 0)
  <2>1. ASSUME C = p PROVE Alike(e * (K - S), 0)
    <3>1. C - p = 0
      BY <1>5, <2>1
    <3>2. Alike(0, e * (K - S))
      BY Zenon, <1>8, <3>1
    <3> QED BY Zenon, <3>2, AlikeItself, AlikeBoth, ZeroInGroup DEF Alike
  <2>2. ASSUME Alike(e * (K - S), 0) PROVE C = p
    <3>1. Alike(C - p, 0)
      BY Zenon, <1>8, <2>2, AlikeTransitive
    <3>2. Alike((C - p) + p, 0 + p)
      BY Zenon, <1>5, <3>1, AlikeItself, AlikeArithmetic
    <3>3. (C - p) + p = C /\ 0 + p = p
      BY <1>5, <1>9
    <3>4. Alike(C, p)
      BY Zenon, <3>2, <3>3
    <3> QED BY Zenon, <1>1, <1>9, <3>4, AlikeEqual
  <2> QED BY <2>1, <2>2
<1>11. Alike(e * (K - S), 0) <=> e = 0 \/ K % Order = S % Order
  <2>1. PICK d \in Int : d = K - S
    BY <1>5
  <2>2. ASSUME Alike(e * d, 0) PROVE e = 0 \/ Alike(d, 0)
    <3>1. Alike(e, 0) \/ Alike(d, 0)
      BY Zenon, <1>5, <2>1, <2>2, AlikeProduct
    <3>2. Alike(e, 0) => e = 0
      <4>1. e \in Group
        BY <1>1, ScalarIs
      <4> QED BY Zenon, <4>1, AlikeEqual, ZeroInGroup
    <3> QED BY <3>1, <3>2
  <2>3. ASSUME e = 0 \/ Alike(d, 0) PROVE Alike(e * d, 0)
    <3>1. CASE e = 0
      <4>1. e * d = 0
        BY <2>1, <3>1
      <4> QED BY Zenon, <4>1, AlikeItself, ZeroInGroup
    <3>2. CASE Alike(d, 0)
      <4>1. Alike(e * d, e * 0)
        BY Zenon, <1>5, <3>2, AlikeItself, AlikeArithmetic
      <4>2. e * 0 = 0
        BY <1>5
      <4> QED BY Zenon, <4>1, <4>2
    <3> QED BY <2>3, <3>1, <3>2
  <2>4. Alike(d, 0) <=> K % Order = S % Order
    <3>1. K % Order = S % Order <=> Divides(Order, K - S)
      <4>1. Order \in Nat \ {0}
        BY Parameters
      <4> QED BY <1>5, <4>1, SameRest
    <3>2. d - 0 = d /\ 0 \in Int
      BY <2>1
    <3>3. Alike(d, 0) <=> Divides(Order, d)
      BY Zenon, <2>1, <3>2 DEF Alike
    <3> QED BY Zenon, <2>1, <3>1, <3>3
  <2> QED BY Zenon, <2>1, <2>2, <2>3, <2>4
<1>12. TotalShift(keyShifts) = K % Order /\ TotalShift(sigShifts) = S % Order
  BY Zenon, <1>4, TotalIs
<1>13. C = p <=> e = 0 \/ TotalShift(keyShifts) = TotalShift(sigShifts)
  BY Zenon, <1>10, <1>11, <1>12
<1>14. ASSUME SameShifts PROVE Verify(public, signed[1].message, signature[1])
  <2>1. K = S
    BY <1>4, <1>14, SameShiftsSum DEF SchemesInv
  <2>2. C = p
    BY Zenon, <1>12, <1>13, <2>1
  <2>3. Challenge(ClaimedCommitment(public, signature[1]), signed[1].message) = e
    BY <1>1, <1>2, <1>7, <2>2
  <2>4. e # Rejected
    BY <1>1, Parameters DEF Scalars, Rejected
  <2> QED BY <1>2, <2>3, <2>4 DEF Verify
<1> QED BY <1>2, <1>7, <1>13, <1>14

LEMMA CiphertextInvInverts ==
  ASSUME SchemesInv
  PROVE  DecryptionInverts
<1> SUFFICES ASSUME ciphertext # <<>>
             PROVE  LET c == ciphertext[1] IN
                    /\ c.circuit = c.native
                    /\ decrypted # Unmade => decrypted = c.message
                    /\ \A y \in Scalars : DecryptWith(y, c.native) = c.message <=> y = secret \/ c.r = 0
  BY DEF DecryptionInverts
<1>0. PICK m \in Group, r \in Scalars :
        \E n, v : CiphertextIs(m, r, n, v) /\ n = EncryptNative(public, m, r) /\ v = n
  BY DEF SchemesInv, CiphertextInv
<1>1. PICK n, v : CiphertextIs(m, r, n, v) /\ n = EncryptNative(public, m, r) /\ v = n
  BY <1>0
<1>2. ciphertext[1].message = m /\ ciphertext[1].r = r /\ ciphertext[1].native = n
      /\ ciphertext[1].circuit = ciphertext[1].native
  BY <1>1 DEF CiphertextIs
<1>3. secret \in Scalars /\ secret \in Int /\ Alike(public, secret * Generator)
  <2>1. /\ secret \in Scalars /\ keyShifts = <<>>
        /\ Alike(public, secret * Generator + SumOf(Shifts, keyShifts))
    BY DEF SchemesInv, KeysInv, CiphertextInv
  <2>2. secret \in Int /\ SumOf(Shifts, keyShifts) = 0 /\ secret * Generator \in Int
    BY <2>1, ScalarIs, SumEmpty, ShiftsMeet
  <2>3. secret * Generator + SumOf(Shifts, keyShifts) = secret * Generator
    BY <2>2
  <2> QED BY Zenon, <2>1, <2>2, <2>3
<1>4. m \in Int /\ r \in Int /\ r \in Group
  BY ScalarIs
<1>5. ASSUME NEW y \in Scalars
      PROVE  DecryptWith(y, n) = m <=> y = secret \/ r = 0
  <2>1. PICK d : d = DecryptWith(y, n)
    OBVIOUS
  <2>2. y \in Int /\ y \in Group /\ secret \in Group
    BY <1>3, ScalarIs
  <2>3. Alike(d - m, ((secret - y) * r) * Generator) /\ d \in Group
    BY Zenon, <1>1, <1>3, <1>4, <2>1, <2>2, DecryptionIs
  <2>4. PICK t \in Int : t = (secret - y) * r
    BY <1>3, <1>4, <2>2
  <2>5. d \in Int /\ secret - y \in Int
    BY <1>3, <2>2, <2>3, ScalarIs
  <2>6. ASSUME d = m PROVE y = secret \/ r = 0
    <3>1. d - m = 0
      BY <1>4, <2>6
    <3>2. Alike(0, t * Generator)
      BY Zenon, <2>3, <2>4, <3>1
    <3>3. Alike(t * Generator, 0)
      BY Zenon, <3>2, AlikeItself, AlikeBoth, ZeroInGroup DEF Alike
    <3>4. Alike(t, 0)
      BY Zenon, <2>4, <3>3, AlikeProduct, GeneratorIs
    <3>5. Alike(secret - y, 0) \/ Alike(r, 0)
      BY Zenon, <1>4, <2>4, <2>5, <3>4, AlikeProduct
    <3>6. Alike(r, 0) => r = 0
      BY Zenon, <1>4, AlikeEqual, ZeroInGroup
    <3>7. Alike(secret - y, 0) => y = secret
      <4> SUFFICES ASSUME Alike(secret - y, 0) PROVE y = secret
        OBVIOUS
      <4>1. Alike((secret - y) + y, 0 + y)
        BY Zenon, <2>2, AlikeItself, AlikeArithmetic
      <4>2. (secret - y) + y = secret /\ 0 + y = y
        BY <1>3, <2>2
      <4>3. Alike(secret, y)
        BY Zenon, <4>1, <4>2
      <4>4. secret = y
        BY Zenon, <2>2, <4>3, AlikeEqual
      <4> QED BY <4>4
    <3> QED BY <3>5, <3>6, <3>7
  <2>7. ASSUME y = secret \/ r = 0 PROVE d = m
    <3>1. t = 0
      BY <1>3, <1>4, <2>2, <2>4, <2>7
    <3>2. t * Generator = 0
      BY <3>1, GeneratorIs
    <3>3. Alike(d - m, 0)
      BY Zenon, <2>3, <2>4, <3>2
    <3>4. Alike((d - m) + m, 0 + m)
      BY Zenon, <1>4, <3>3, AlikeItself, AlikeArithmetic
    <3>5. (d - m) + m = d /\ 0 + m = m
      BY <1>4, <2>5
    <3>6. Alike(d, m)
      BY Zenon, <3>4, <3>5
    <3> QED BY Zenon, <1>1, <2>3, <3>6, AlikeEqual
  <2> QED BY <2>1, <2>6, <2>7
<1>6. decrypted # Unmade => decrypted = m
  <2>1. decrypted # Unmade => decrypted = DecryptWith(secret, n)
    BY <1>2 DEF SchemesInv, CiphertextInv
  <2>2. DecryptWith(secret, n) = m
    BY <1>3, <1>5
  <2> QED BY <2>1, <2>2
<1> QED BY <1>2, <1>5, <1>6

LEMMA SchemesInvHolds == SchemesSpec => []SchemesInv
<1>1. SchemesInit => SchemesInv
  BY SchemesStart
<1>2. SchemesInv /\ [SchemesNext]_schemesVars => SchemesInv'
  <2> SUFFICES ASSUME SchemesInv, [SchemesNext]_schemesVars PROVE SchemesInv'
    OBVIOUS
  <2>1. CASE \E x \in Scalars : KeyGen(x)
    BY <2>1, KeyGenKeeps
  <2>2. CASE \E k \in Scalars, m \in Messages : Sign(k, m)
    BY <2>2, SignKeeps
  <2>3. CASE \E r \in Randomness : RandomizePublicKey(r)
    BY <2>3, RandomizePublicKeyKeeps
  <2>4. CASE \E r \in Randomness : RandomizeSignature(r)
    BY <2>4, RandomizeSignatureKeeps
  <2>5. CASE \E m \in Group, r \in Scalars : Encrypt(m, r)
    BY <2>5, EncryptKeeps
  <2>6. CASE Decrypt
    BY <2>6, DecryptKeeps
  <2>7. CASE UNCHANGED schemesVars
    BY <2>7, SchemesStutters
  <2> QED BY <2>1, <2>2, <2>3, <2>4, <2>5, <2>6, <2>7 DEF SchemesNext
<1> QED BY <1>1, <1>2, PTL DEF SchemesSpec

(* A signature follows its key: a signature and the key it is checked      *)
(* against, shifted by the same randomness as often, in any order and by   *)
(* bit loops that run in opposite directions, verify; and only shifts of   *)
(* the same sum let verify recompute the signer's commitment.              *)
THEOREM SchnorrSignatureFollowsKey == SchemesSpec => []SignatureFollowsKey
<1>1. SchemesSpec => []SchemesInv
  BY SchemesInvHolds
<1>2. SchemesInv => SignatureFollowsKey
  BY SignatureInvFollows
<1> QED BY <1>1, <1>2, PTL

(* What is encrypted is what decryption gives, with the secret key and no  *)
(* other unless the ciphertext is not blinded at all; and the gadget, that *)
(* multiplies by the bits of the bytes of r, makes the same ciphertext.    *)
THEOREM ElGamalDecryptionInverts == SchemesSpec => []DecryptionInverts
<1>1. SchemesSpec => []SchemesInv
  BY SchemesInvHolds
<1>2. SchemesInv => DecryptionInverts
  BY CiphertextInvInverts
<1> QED BY <1>1, <1>2, PTL

-----------------------------------------------------------------------------
(* The permutations.                                                       *)
Gadgets == [Cells -> FpVars]

LEMMA RestInField ==
  /\ P \in Nat \ {0, 1} /\ 0 \in Field /\ 1 \in Field
  /\ \A x \in Nat : x % P \in Field
  /\ \A x \in Field : x \in Nat
BY PAssumption DEF Field

LEMMA RestProduct ==
  ASSUME NEW x \in Field, NEW y \in Field, NEW z \in Field
  PROVE  (x * y) % P \in Field /\ (x + y * z) % P \in Field /\ (x + y) % P \in Field
<1>1. x \in Nat /\ y \in Nat /\ z \in Nat
  BY RestInField
<1>2. x * y \in Nat /\ x + y * z \in Nat /\ x + y \in Nat
  BY <1>1
<1> QED BY <1>2, RestInField

LEMMA PowIs ==
  ASSUME NEW x \in Field, NEW n \in Nat
  PROVE  Pow(x, n) \in Field
<1> DEFINE F(h) == [k \in 0 .. n |-> IF k = 0 THEN 1 ELSE (x * h[k - 1]) % P]
           op == [p \in Field \X (1 .. n) |-> (x * p[1]) % P]
           powers == CHOOSE h : h = F(h)
<1>1. op \in Steps(Field, n)
  <2>1. ASSUME NEW p \in Field \X (1 .. n) PROVE (x * p[1]) % P \in Field
    BY RestProduct
  <2> QED BY <2>1 DEF Steps
<1>2. \A y \in Field : \A k \in 1 .. n : op[<<y, k>>] = (x * y) % P
  OBVIOUS
<1> HIDE DEF op
<1>3. PICK e : e \in [0 .. n -> Field] /\ e[0] = 1 /\ \A k \in 1 .. n : e[k] = op[<<e[k - 1], k>>]
  <2>1. 1 \in Field
    BY RestInField
  <2>2. \E h : Repeats(h, Field, n, 1, op)
    BY Zenon, <1>1, <2>1, RecursionExists
  <2> QED BY <2>2 DEF Repeats
<1>4. ASSUME NEW k \in 1 .. n PROVE e[k] = (x * e[k - 1]) % P
  <2>1. k - 1 \in 0 .. n
    OBVIOUS
  <2>2. e[k - 1] \in Field
    BY <1>3, <2>1
  <2> QED BY <1>2, <1>3, <2>2
<1>5. e = F(e)
  <2>1. \A k \in 0 .. n : k # 0 => k \in 1 .. n
    OBVIOUS
  <2>2. \A k \in 0 .. n : e[k] = F(e)[k]
    BY <1>3, <1>4, <2>1
  <2>3. e = [k \in 0 .. n |-> e[k]] /\ F(e) = [k \in 0 .. n |-> F(e)[k]]
    BY <1>3
  <2> HIDE DEF F
  <2> QED BY <2>2, <2>3
<1>6. powers = F(powers)
  <2> HIDE DEF F
  <2> QED BY <1>5
<1>7. Pow(x, n) = powers[n]
  BY DEF Pow
<1> HIDE DEF powers
<1>8. powers[0] = 1
  <2>1. 0 \in 0 .. n
    OBVIOUS
  <2> QED BY <1>6, <2>1
<1>9. ASSUME NEW k \in 1 .. n PROVE powers[k] = (x * powers[k - 1]) % P
  <2>1. k \in 0 .. n /\ k # 0
    OBVIOUS
  <2>2. \A h : k \in 0 .. n /\ k # 0 => F(h)[k] = (x * h[k - 1]) % P
    OBVIOUS
  <2> HIDE DEF F
  <2> QED BY <1>6, <2>1, <2>2
<1> HIDE DEF F
<1> DEFINE T == {k \in Nat : k <= n => powers[k] \in Field}
<1>10. 0 \in T
  BY <1>8, RestInField
<1>11. ASSUME NEW k \in Nat, k \in T PROVE k + 1 \in T
  <2> SUFFICES ASSUME k + 1 <= n PROVE powers[k + 1] \in Field
    OBVIOUS
  <2>1. PICK j : j = k + 1
    OBVIOUS
  <2>2. j \in 1 .. n /\ j - 1 = k /\ k <= n
    BY <2>1
  <2>3. powers[k] \in Field
    BY <1>11, <2>2
  <2>4. powers[j] = (x * powers[k]) % P
    BY <1>9, <2>2
  <2> QED BY <2>1, <2>3, <2>4, RestProduct
<1>12. n \in T
  <2> HIDE DEF T
  <2> QED BY <1>10, <1>11, InductionOnSet
<1> QED BY <1>7, <1>12

LEMMA DotIs ==
  ASSUME NEW s \in Vectors, NEW row \in Vectors
  PROVE  Dot(s, row) \in Field
<1> DEFINE F(h) == [j \in 0 .. Width |->
                      IF j = 0 THEN 0 ELSE (h[j - 1] + s[j - 1] * row[j - 1]) % P]
           op == [p \in Field \X (1 .. Width) |-> (p[1] + s[p[2] - 1] * row[p[2] - 1]) % P]
           sums == CHOOSE h : h = F(h)
<1>0. Width \in Nat
  BY WidthAssumption
<1>1. \A j \in 1 .. Width : s[j - 1] \in Field /\ row[j - 1] \in Field
  <2>1. \A j \in 1 .. Width : j - 1 \in Cells
    BY <1>0 DEF Cells
  <2> QED BY <2>1 DEF Vectors
<1>2. op \in Steps(Field, Width)
  <2>1. ASSUME NEW p \in Field \X (1 .. Width)
        PROVE  (p[1] + s[p[2] - 1] * row[p[2] - 1]) % P \in Field
    <3>1. p[1] \in Field /\ s[p[2] - 1] \in Field /\ row[p[2] - 1] \in Field
      BY <1>1
    <3> QED BY <3>1, RestProduct
  <2> QED BY <2>1 DEF Steps
<1>3. \A y \in Field : \A j \in 1 .. Width : op[<<y, j>>] = (y + s[j - 1] * row[j - 1]) % P
  OBVIOUS
<1> HIDE DEF op
<1>4. PICK e : /\ e \in [0 .. Width -> Field] /\ e[0] = 0
               /\ \A j \in 1 .. Width : e[j] = op[<<e[j - 1], j>>]
  <2>1. 0 \in Field
    BY RestInField
  <2>2. \E h : Repeats(h, Field, Width, 0, op)
    BY Zenon, <1>0, <1>2, <2>1, RecursionExists
  <2> QED BY <2>2 DEF Repeats
<1>5. ASSUME NEW j \in 1 .. Width PROVE e[j] = (e[j - 1] + s[j - 1] * row[j - 1]) % P
  <2>1. j - 1 \in 0 .. Width
    BY <1>0
  <2>2. e[j - 1] \in Field
    BY <1>4, <2>1
  <2> QED BY <1>3, <1>4, <2>2
<1>6. e = F(e)
  <2>1. \A j \in 0 .. Width : j # 0 => j \in 1 .. Width
    BY <1>0
  <2>2. \A j \in 0 .. Width : e[j] = F(e)[j]
    BY <1>4, <1>5, <2>1
  <2>3. e = [j \in 0 .. Width |-> e[j]] /\ F(e) = [j \in 0 .. Width |-> F(e)[j]]
    BY <1>4
  <2> HIDE DEF F
  <2> QED BY <2>2, <2>3
<1>7. sums = F(sums)
  <2> HIDE DEF F
  <2> QED BY <1>6
<1>8. Dot(s, row) = sums[Width]
  BY DEF Dot
<1> HIDE DEF sums
<1>9. sums[0] = 0
  <2>1. 0 \in 0 .. Width
    BY <1>0
  <2> QED BY <1>7, <2>1
<1>10. ASSUME NEW j \in 1 .. Width PROVE sums[j] = (sums[j - 1] + s[j - 1] * row[j - 1]) % P
  <2>1. j \in 0 .. Width /\ j # 0
    BY <1>0
  <2>2. \A h : j \in 0 .. Width /\ j # 0 => F(h)[j] = (h[j - 1] + s[j - 1] * row[j - 1]) % P
    OBVIOUS
  <2> HIDE DEF F
  <2> QED BY <1>7, <2>1, <2>2
<1> HIDE DEF F
<1> DEFINE T == {j \in Nat : j <= Width => sums[j] \in Field}
<1>11. 0 \in T
  BY <1>9, RestInField
<1>12. ASSUME NEW j \in Nat, j \in T PROVE j + 1 \in T
  <2> SUFFICES ASSUME j + 1 <= Width PROVE sums[j + 1] \in Field
    OBVIOUS
  <2>1. PICK k : k = j + 1
    OBVIOUS
  <2>2. k \in 1 .. Width /\ k - 1 = j /\ j <= Width
    BY <1>0, <2>1
  <2>3. sums[j] \in Field /\ s[k - 1] \in Field /\ row[k - 1] \in Field
    BY <1>1, <1>12, <2>2
  <2>4. sums[k] = (sums[j] + s[k - 1] * row[k - 1]) % P
    BY <1>10, <2>2
  <2>5. (sums[j] + s[k - 1] * row[k - 1]) % P \in Field
    BY Zenon, <2>3, RestProduct
  <2> QED BY <2>1, <2>4, <2>5
<1>13. Width \in T
  <2> HIDE DEF T
  <2> QED BY <1>0, <1>11, <1>12, InductionOnSet
<1> QED BY <1>0, <1>8, <1>13

-----------------------------------------------------------------------------
(* A step that keeps equal vectors equal and different ones different.     *)
Meets(n, g, n1, g1) ==
  /\ n1 \in Vectors /\ g1 \in Gadgets
  /\ n1 = Values(g1) <=> n = Values(g)

LEMMA VectorsAre ==
  /\ \A f : (\A i \in Cells : f[i] \in Field) => [i \in Cells |-> f[i]] \in Vectors
  /\ \A n \in Vectors : n = [i \in Cells |-> n[i]] /\ \A i \in Cells : n[i] \in Field
  /\ \A g \in Gadgets : /\ Values(g) \in Vectors
                        /\ \A i \in Cells : /\ g[i] \in FpVars /\ g[i].value \in Field
                                            /\ g[i].variable \in BOOLEAN
                                            /\ Values(g)[i] = g[i].value
BY DEF Vectors, Gadgets, FpVars, Values

(* Cell by cell, a bijection.                                              *)
LEMMA CellsMeet ==
  ASSUME NEW n, n \in Vectors, NEW g, g \in Gadgets, NEW n1, NEW g1,
         n1 \in Vectors, g1 \in Gadgets,
         \A i \in Cells : n1[i] = g1[i].value <=> n[i] = g[i].value
  PROVE  Meets(n, g, n1, g1)
<1>1. ASSUME NEW a \in Vectors, NEW b \in Vectors
      PROVE  a = b <=> \A i \in Cells : a[i] = b[i]
  <2>1. ASSUME \A i \in Cells : a[i] = b[i] PROVE a = b
    BY <2>1 DEF Vectors
  <2> QED BY <2>1
<1>2. Values(g) \in Vectors /\ Values(g1) \in Vectors
  BY VectorsAre
<1>3. /\ n1 = Values(g1) <=> \A i \in Cells : n1[i] = Values(g1)[i]
      /\ n = Values(g) <=> \A i \in Cells : n[i] = Values(g)[i]
  BY <1>1, <1>2
<1>4. \A i \in Cells : Values(g1)[i] = g1[i].value /\ Values(g)[i] = g[i].value
  BY DEF Values
<1>5. n1 = Values(g1) <=> n = Values(g)
  BY <1>3, <1>4
<1> QED BY <1>5 DEF Meets

LEMMA AddedEqual ==
  ASSUME NEW a \in Field, NEW b \in Field, NEW r \in Field
  PROVE  (a + r) % P = (b + r) % P <=> a = b
<1>1. a \in Int /\ b \in Int /\ r \in Int /\ P \in Nat \ {0} /\ a - b < P /\ -P < a - b
  BY RestInField DEF Field
<1>2. ASSUME (a + r) % P = (b + r) % P PROVE a = b
  <2>1. Divides(P, (a + r) - (b + r))
    <3>1. a + r \in Int /\ b + r \in Int
      BY <1>1
    <3> QED BY <1>1, <1>2, <3>1, SameRest
  <2>2. (a + r) - (b + r) = a - b
    BY <1>1
  <2>3. a - b = 0
    BY <1>1, <2>1, <2>2, SmallMultiple
  <2> QED BY <1>1, <2>3
<1> QED BY <1>2

LEMMA AddMeets ==
  ASSUME NEW n, n \in Vectors, NEW g, g \in Gadgets, NEW row, row \in Vectors
  PROVE  Meets(n, g, AddRow(n, row), VarAddRow(g, row))
<1>1. PICK n1, g1 : n1 = AddRow(n, row) /\ g1 = VarAddRow(g, row)
  OBVIOUS
<1>2. ASSUME NEW i \in Cells
      PROVE  /\ n[i] \in Field /\ row[i] \in Field /\ g[i].value \in Field
             /\ (n[i] + row[i]) % P \in Field /\ (g[i].value + row[i]) % P \in Field
             /\ (n[i] + row[i]) % P = (g[i].value + row[i]) % P <=> n[i] = g[i].value
  <2>1. n[i] \in Field /\ row[i] \in Field /\ g[i].value \in Field
    BY VectorsAre
  <2> QED BY <2>1, AddedEqual, RestProduct
<1>3. n1 = [i \in Cells |-> (n[i] + row[i]) % P]
  BY <1>1 DEF AddRow
<1>4. g1 = [i \in Cells |-> [variable |-> g[i].variable, value |-> (g[i].value + row[i]) % P]]
  <2>1. \A i \in Cells : [g[i] EXCEPT !.value = (@ + row[i]) % P]
                           = [variable |-> g[i].variable, value |-> (g[i].value + row[i]) % P]
    <3> SUFFICES ASSUME NEW i \in Cells, NEW y
                 PROVE  [g[i] EXCEPT !.value = y] = [variable |-> g[i].variable, value |-> y]
      OBVIOUS
    <3>1. g[i] \in FpVars
      BY VectorsAre
    <3> QED BY <3>1 DEF FpVars
  <2> QED BY <1>1, <2>1 DEF VarAddRow
<1>5. n1 \in Vectors
  BY <1>2, <1>3 DEF Vectors
<1>6. g1 \in Gadgets
  <2>1. \A i \in Cells : g[i].variable \in BOOLEAN
    BY VectorsAre
  <2> QED BY <1>2, <1>4, <2>1 DEF Gadgets, FpVars
<1>7. \A i \in Cells : n1[i] = g1[i].value <=> n[i] = g[i].value
  BY <1>2, <1>3, <1>4
<1>8. Meets(n, g, n1, g1)
  BY <1>5, <1>6, <1>7, CellsMeet
<1> QED BY <1>1, <1>8

(* The matrix.                                                             *)
LEMMA MulMeets ==
  ASSUME NEW n, n \in Vectors, NEW g, g \in Gadgets
  PROVE  Meets(n, g, MulMatrix(n, Mds), VarMulMatrix(g, Mds))
<1>1. PICK n1, g1, t : n1 = MulMatrix(n, Mds) /\ g1 = VarMulMatrix(g, Mds) /\ t = Values(g)
  OBVIOUS
<1>2. t \in Vectors
  BY <1>1, VectorsAre
<1>3. ASSUME NEW s \in Vectors PROVE \A i \in Cells : Dot(s, Mds[i]) \in Field
  <2> SUFFICES ASSUME NEW i \in Cells PROVE Dot(s, Mds[i]) \in Field
    OBVIOUS
  <2>1. Mds[i] \in Vectors
    BY RoundsAssumption
  <2> QED BY <2>1, DotIs
<1>4. n1 \in Vectors
  BY <1>1, <1>3 DEF MulMatrix, Vectors
<1>5. g1 = [i \in Cells |-> [variable |-> \E j \in Cells : g[j].variable, value |-> Dot(t, Mds[i])]]
  BY <1>1 DEF VarMulMatrix
<1>6. g1 \in Gadgets
  <2>1. (\E j \in Cells : g[j].variable) \in BOOLEAN
    OBVIOUS
  <2> QED BY <1>2, <1>3, <1>5, <2>1 DEF Gadgets, FpVars
<1>7. Values(g1) = MulMatrix(t, Mds)
  BY <1>5 DEF Values, MulMatrix
<1>8. n1 = Values(g1) <=> n = t
  BY <1>1, <1>2, <1>7, RoundsAssumption
<1> QED BY <1>1, <1>4, <1>6, <1>8 DEF Meets

(* Powers.                                                                 *)
LEMMA PowsInvert ==
  /\ Alpha \in Nat /\ AlphaInv \in Nat
  /\ \A x \in Field : /\ Pow(x, Alpha) \in Field /\ Pow(x, AlphaInv) \in Field
                      /\ Pow(Pow(x, Alpha), AlphaInv) = x /\ Pow(Pow(x, AlphaInv), Alpha) = x
BY RoundsAssumption, PowIs

LEMMA SBoxMeets ==
  ASSUME NEW n, n \in Vectors, NEW g, g \in Gadgets, NEW full
  PROVE  Meets(n, g, SBox(n, full), VarSBox(g, full))
<1>1. PICK n1, g1 : n1 = SBox(n, full) /\ g1 = VarSBox(g, full)
  OBVIOUS
<1>2. ASSUME NEW i \in Cells
      PROVE  /\ n1[i] = IF full \/ i = 0 THEN Pow(n[i], Alpha) ELSE n[i]
             /\ g1[i] = IF full \/ i = 0 THEN VarPow(g[i], Alpha) ELSE g[i]
             /\ n[i] \in Field /\ g[i] \in FpVars /\ g[i].value \in Field
  <2>1. n[i] \in Field /\ g[i] \in FpVars /\ g[i].value \in Field
    BY VectorsAre
  <2> QED BY <1>1, <2>1 DEF SBox, VarSBox
<1>3. ASSUME NEW c \in FpVars
      PROVE  VarPow(c, Alpha) \in FpVars /\ VarPow(c, Alpha).value = Pow(c.value, Alpha)
  <2>1. c.value \in Field
    BY DEF FpVars
  <2>2. Pow(c.value, Alpha) \in Field
    BY <2>1, PowsInvert
  <2>3. PICK y : y = Pow(c.value, Alpha)
    OBVIOUS
  <2>4. VarPow(c, Alpha) = [c EXCEPT !.value = y]
    BY <2>3 DEF VarPow
  <2> QED BY <2>2, <2>3, <2>4 DEF FpVars
<1>4. ASSUME NEW i \in Cells
      PROVE  /\ n1[i] \in Field /\ g1[i] \in FpVars
             /\ n1[i] = g1[i].value <=> n[i] = g[i].value
  <2>1. CASE full \/ i = 0
    <3>1. n1[i] = Pow(n[i], Alpha) /\ g1[i] \in FpVars /\ g1[i].value = Pow(g[i].value, Alpha)
      BY <1>2, <1>3, <2>1
    <3> QED BY <1>2, <3>1, PowsInvert
  <2>2. CASE ~ (full \/ i = 0)
    BY <1>2, <2>2
  <2> QED BY <2>1, <2>2
<1>5. n1 \in Vectors
  <2>1. n1 = [i \in Cells |-> IF full \/ i = 0 THEN Pow(n[i], Alpha) ELSE n[i]]
    BY <1>1 DEF SBox
  <2> QED BY <1>4, <2>1 DEF Vectors
<1>6. g1 \in Gadgets
  <2>1. g1 = [i \in Cells |-> IF full \/ i = 0 THEN VarPow(g[i], Alpha) ELSE g[i]]
    BY <1>1 DEF VarSBox
  <2> QED BY <1>4, <2>1 DEF Gadgets
<1>7. Meets(n, g, n1, g1)
  BY <1>4, <1>5, <1>6, CellsMeet
<1> QED BY <1>1, <1>7

-----------------------------------------------------------------------------
VarPowIs(c, e) == VarPow(c, e) \in FpVars /\ VarPow(c, e).value = Pow(c.value, e)
LEMMA VarPows ==
  ASSUME NEW c \in FpVars
  PROVE  VarPowIs(c, Alpha) /\ VarPowIs(c, AlphaInv)
<1>1. c.value \in Field
  BY DEF FpVars
<1>2. ASSUME NEW e, Pow(c.value, e) \in Field PROVE VarPowIs(c, e)
  <2>1. PICK y : y = Pow(c.value, e)
    OBVIOUS
  <2>2. VarPow(c, e) = [c EXCEPT !.value = y]
    BY <2>1 DEF VarPow
  <2> QED BY <1>2, <2>1, <2>2 DEF FpVars, VarPowIs
<1> QED BY <1>1, <1>2, PowsInvert

(* Whatever witness the constraints admit, it has the power that permute   *)
(* computes.                                                               *)
LEMMA WitnessIs ==
  ASSUME NEW c \in FpVars, NEW i, NEW w, w \in SBoxCells(c, i)
  PROVE  w \in FpVars /\ w.value = Pow(c.value, IF VarForward(i) THEN Alpha ELSE AlphaInv)
<1>0. c.value \in Field /\ \A x \in Witnesses : x \in FpVars /\ x.value \in Field
  BY DEF FpVars, Witnesses
<1>1. CASE VarForward(i)
  <2>1. w \in ForwardCells(c)
    BY <1>1 DEF SBoxCells
  <2>2. CASE Alpha = 5 /\ predicate /\ c.variable
    <3>1. w \in Witnesses /\ Pow(c.value, 5) = w.value
      BY <2>1, <2>2 DEF ForwardCells, Deg5Mul
    <3> QED BY <1>0, <1>1, <2>2, <3>1
  <2>3. CASE ~ (Alpha = 5 /\ predicate /\ c.variable)
    <3>1. w = VarPow(c, Alpha)
      BY <2>1, <2>3 DEF ForwardCells
    <3> QED BY <1>1, <3>1, VarPows DEF VarPowIs
  <2> QED BY <2>2, <2>3
<1>2. CASE ~ VarForward(i)
  <2>1. w \in InverseCells(c)
    BY <1>2 DEF SBoxCells
  <2>2. CASE w \in Witnesses /\ Pow(w.value, Alpha) = c.value
    <3>1. w.value \in Field /\ w \in FpVars
      BY <1>0, <2>2
    <3>2. w.value = Pow(c.value, AlphaInv)
      BY <2>2, <3>1, PowsInvert
    <3> QED BY <1>2, <3>1, <3>2
  <2>3. CASE w = VarPow(c, AlphaInv)
    BY <1>2, <2>3, VarPows DEF VarPowIs
  <2>4. \/ w \in Witnesses /\ Pow(w.value, Alpha) = c.value
        \/ w = VarPow(c, AlphaInv)
    BY <2>1 DEF InverseCells, Deg5Mul
  <2> QED BY <2>2, <2>3, <2>4
<1> QED BY <1>1, <1>2

(* Native sponge and gadget take the same turn.                            *)
LEMMA SameTurn ==
  ASSUME NEW i \in Nat
  PROVE  /\ VarFull(i) <=> Full(i)
         /\ VarPartial(i) <=> Partial(i)
         /\ VarForward(i) <=> Forward(i)
<1>1. VarForward(i) <=> Forward(i)
  BY DEF VarForward, Forward
<1>2. VarPartial(i) <=> Partial(i)
  BY Zenon DEF VarPartial, Partial, VarHalf, Half
<1>3. VarFull(i) <=> Full(i)
  BY Zenon DEF VarFull, Full, VarHalf, Half
<1> QED BY <1>1, <1>2, <1>3, Zenon

LEMMA RescueSBoxMeets ==
  ASSUME NEW n, n \in Vectors, NEW g, g \in Gadgets, NEW i \in Nat, NEW u, u \in RescueVarSBox(g, i)
  PROVE  Meets(n, g, RescueSBox(n, i), u)
<1>1. PICK n1, e : n1 = RescueSBox(n, i) /\ e = IF VarForward(i) THEN Alpha ELSE AlphaInv
  OBVIOUS
<1>2. n1 = [c \in Cells |-> Pow(n[c], e)]
  BY <1>1, SameTurn DEF RescueSBox
<1>3. ASSUME NEW x \in Field, NEW y \in Field
      PROVE  Pow(x, e) \in Field /\ (Pow(x, e) = Pow(y, e) <=> x = y)
  BY <1>1, PowsInvert
<1>4. ASSUME NEW c \in Cells
      PROVE  /\ u[c] \in FpVars /\ u[c].value = Pow(g[c].value, e)
             /\ n[c] \in Field /\ g[c].value \in Field
  <2>1. n[c] \in Field /\ g[c] \in FpVars /\ g[c].value \in Field
    BY VectorsAre
  <2>2. u[c] \in SBoxCells(g[c], i)
    BY DEF RescueVarSBox
  <2> QED BY <1>1, <2>1, <2>2, WitnessIs
<1>5. n1 \in Vectors
  BY <1>2, <1>3, <1>4 DEF Vectors
<1>6. u \in Gadgets
  <2>1. u = [c \in Cells |-> u[c]]
    BY DEF RescueVarSBox
  <2> QED BY <1>4, <2>1 DEF Gadgets
<1>7. \A c \in Cells : n1[c] = u[c].value <=> n[c] = g[c].value
  BY <1>2, <1>3, <1>4
<1>8. Meets(n, g, n1, u)
  BY <1>5, <1>6, <1>7, CellsMeet
<1> QED BY <1>1, <1>8

-----------------------------------------------------------------------------
(* The invariant.                                                          *)
RoundsInv ==
  /\ kind \in {"poseidon", "rescue"} /\ round \in Nat
  /\ native \in Vectors /\ gadget \in Gadgets
  /\ AgreeIffSameStart

LEMMA MeetsKeeps ==
  ASSUME RoundsInv, Meets(native, gadget, native', gadget'), same' = same,
         kind' = kind, round' \in Nat
  PROVE  RoundsInv'
BY DEF RoundsInv, AgreeIffSameStart, Meets

LEMMA MeetsTwice ==
  ASSUME NEW n, NEW g, NEW n1, NEW g1, NEW n2, NEW g2,
         Meets(n, g, n1, g1), Meets(n1, g1, n2, g2)
  PROVE  Meets(n, g, n2, g2)
BY DEF Meets

LEMMA RoundKeeps ==
  ASSUME RoundsInv, NEW full, round \in 0 .. (FullRounds + PartialRounds - 1),
         NativeRound(full), VarRound(full),
         round' = round + 1, kind' = kind, same' = same
  PROVE  RoundsInv'
<1>1. PICK row : row = Ark[round + 1] /\ row \in Vectors
  BY RoundsAssumption
<1>2. PICK n1, g1, n2, g2 :
        /\ n1 = AddRow(native, row) /\ g1 = VarAddRow(gadget, row)
        /\ n2 = SBox(n1, full) /\ g2 = VarSBox(g1, full)
  OBVIOUS
<1>3. /\ native' = MulMatrix(n2, Mds) /\ gadget' = VarMulMatrix(g2, Mds)
      /\ round' = round + 1 /\ kind' = kind /\ same' = same
  BY <1>1, <1>2 DEF NativeRound, VarRound
<1>4. native \in Vectors /\ gadget \in Gadgets /\ round' \in Nat
  BY <1>3 DEF RoundsInv
<1>5. Meets(native, gadget, n1, g1)
  BY <1>1, <1>2, <1>4, AddMeets
<1>6. Meets(n1, g1, n2, g2)
  BY <1>2, <1>5, SBoxMeets DEF Meets
<1>7. Meets(n2, g2, native', gadget')
  BY <1>3, <1>6, MulMeets DEF Meets
<1>8. Meets(native, gadget, native', gadget')
  BY Zenon, <1>5, <1>6, <1>7, MeetsTwice
<1> QED BY <1>3, <1>4, <1>8, MeetsKeeps

LEMMA FirstKeyKeeps ==
  ASSUME RoundsInv, FirstKey
  PROVE  RoundsInv'
<1>1. /\ native' = AddRow(native, Arc[1]) /\ gadget' = VarAddRow(gadget, Arc[1])
      /\ round' = 1 /\ kind' = kind /\ same' = same
  BY DEF FirstKey, constant
<1>2. Arc[1] \in Vectors
  <2>1. 1 \in 1 .. (2 * Rounds + 1)
    BY RoundsAssumption
  <2> QED BY <2>1, RoundsAssumption
<1>3. Meets(native, gadget, native', gadget')
  BY <1>1, <1>2, AddMeets DEF RoundsInv
<1> QED BY <1>1, <1>3, MeetsKeeps

LEMMA RescueRoundKeeps ==
  ASSUME RoundsInv, RescueRound
  PROVE  RoundsInv'
<1>1. PICK row : row = Arc[round + 1] /\ row \in Vectors
  <2>1. round + 1 \in 1 .. (2 * Rounds + 1)
    BY RoundsAssumption DEF RescueRound
  <2> QED BY <2>1, RoundsAssumption
<1>2. PICK u : /\ u \in RescueVarSBox(gadget, round - 1)
               /\ gadget' = VarAddRow(VarMulMatrix(u, Mds), row)
  BY <1>1 DEF RescueRound
<1>3. PICK n1, n2, g2 :
        /\ n1 = RescueSBox(native, round - 1)
        /\ n2 = MulMatrix(n1, Mds) /\ g2 = VarMulMatrix(u, Mds)
  OBVIOUS
<1>4. /\ native' = AddRow(n2, row) /\ gadget' = VarAddRow(g2, row)
      /\ round' = round + 1 /\ kind' = kind /\ same' = same
  BY <1>1, <1>2, <1>3 DEF RescueRound, constant
<1>5. native \in Vectors /\ gadget \in Gadgets /\ round' \in Nat
  BY <1>4 DEF RoundsInv
<1>6. Meets(native, gadget, n1, u)
  <2>1. round - 1 \in Nat
    BY RoundsAssumption DEF RescueRound
  <2> QED BY <1>2, <1>3, <1>5, <2>1, RescueSBoxMeets
<1>7. Meets(n1, u, n2, g2)
  BY <1>3, <1>6, MulMeets DEF Meets
<1>8. Meets(n2, g2, native', gadget')
  BY <1>1, <1>4, <1>7, AddMeets DEF Meets
<1>9. Meets(native, gadget, native', gadget')
  BY Zenon, <1>6, <1>7, <1>8, MeetsTwice
<1> QED BY <1>4, <1>5, <1>9, MeetsKeeps

LEMMA RoundsInvHolds == RoundsSpec => []RoundsInv
<1>1. RoundsInit => RoundsInv
  <2> SUFFICES ASSUME RoundsInit PROVE RoundsInv
    OBVIOUS
  <2>1. PICK start \in Starts : native = start.native /\ gadget = start.gadget
    BY DEF RoundsInit
  <2>2. native \in Vectors /\ gadget \in Gadgets
    BY <2>1, RoundsAssumption DEF Gadgets
  <2> QED BY <2>2 DEF RoundsInit, RoundsInv, AgreeIffSameStart
<1>2. RoundsInv /\ [RoundsNext]_roundsVars => RoundsInv'
  <2> SUFFICES ASSUME RoundsInv, [RoundsNext]_roundsVars PROVE RoundsInv'
    OBVIOUS
  <2>1. CASE PoseidonRound
    <3>1. /\ round \in Nat /\ round' = round + 1 /\ kind' = kind /\ same' = same
      BY <2>1 DEF PoseidonRound, constant, RoundsInv
    <3>2. CASE Full(round) /\ NativeRound(TRUE)
      <4>1. round \in 0 .. (FullRounds + PartialRounds - 1) /\ ~ Partial(round)
        BY <3>1, <3>2, RoundsAssumption DEF Full, Partial, Half
      <4>2. VarRound(TRUE)
        BY <2>1, <3>1, <4>1, SameTurn DEF PoseidonRound
      <4> QED BY <3>1, <3>2, <4>1, <4>2, RoundKeeps
    <3>3. CASE Partial(round) /\ NativeRound(FALSE)
      <4>1. round \in 0 .. (FullRounds + PartialRounds - 1) /\ ~ Full(round)
        BY <3>1, <3>3, RoundsAssumption DEF Full, Partial, Half
      <4>2. VarRound(FALSE)
        BY <2>1, <3>1, <4>1, SameTurn DEF PoseidonRound
      <4> QED BY <3>1, <3>3, <4>1, <4>2, RoundKeeps
    <3> QED BY <2>1, <3>2, <3>3 DEF PoseidonRound
  <2>3. CASE FirstKey
    BY <2>3, FirstKeyKeeps
  <2>4. CASE RescueRound
    BY <2>4, RescueRoundKeeps
  <2>5. CASE Again
    BY <2>5 DEF Again, RoundsInv, AgreeIffSameStart, constant
  <2>6. CASE UNCHANGED roundsVars
    BY <2>6 DEF roundsVars, RoundsInv, AgreeIffSameStart
  <2> QED BY <2>1, <2>3, <2>4, <2>5, <2>6 DEF RoundsNext
<1> QED BY <1>1, <1>2, PTL DEF RoundsSpec

(* The circuits compute the permutations: in every field, for every prover *)
(* and however often permute is called, gadget and native sponge agree     *)
(* exactly if they started alike.                                          *)
THEOREM PermutationsAgree == RoundsSpec => []AgreeIffSameStart
<1>1. RoundsSpec => []RoundsInv
  BY RoundsInvHolds
<1>2. RoundsInv => AgreeIffSameStart
  BY DEF RoundsInv
<1> QED BY <1>1, <1>2, PTL

(* The witness the code computes meets the constraint it enforces.         *)
LEMMA HonestWitnessIs ==
  ASSUME NEW c \in FpVars, c.variable, NEW i
  PROVE  HonestWitness(c, i) \in SBoxCells(c, i)
<1>0. c.value \in Field /\ c.variable = TRUE /\ c = [variable |-> TRUE, value |-> c.value]
  BY DEF FpVars
<1>1. PICK e, y : e = (IF VarForward(i) THEN Alpha ELSE AlphaInv) /\ y = Pow(c.value, e)
  OBVIOUS
<1>2. PICK w : w = [variable |-> TRUE, value |-> y]
  OBVIOUS
<1>3. w = HonestWitness(c, i)
  BY <1>1, <1>2 DEF HonestWitness
<1>4. y \in Field /\ w \in Witnesses /\ w.value = y
  <2>1. y \in Field
    BY <1>0, <1>1, PowsInvert
  <2> QED BY <1>2, <2>1 DEF Witnesses
<1>5. CASE VarForward(i)
  <2>1. w = VarPow(c, Alpha)
    <3>1. VarPow(c, Alpha) = [c EXCEPT !.value = y]
      BY <1>1, <1>5 DEF VarPow
    <3> QED BY <1>0, <1>2, <3>1
  <2>2. Pow(c.value, Alpha) = w.value
    BY <1>1, <1>4, <1>5
  <2>3. w \in ForwardCells(c)
    BY <1>4, <2>1, <2>2 DEF ForwardCells, Deg5Mul
  <2> QED BY <1>3, <1>5, <2>3 DEF SBoxCells
<1>6. CASE ~ VarForward(i)
  <2>1. Pow(w.value, Alpha) = c.value
    BY <1>0, <1>1, <1>4, <1>6, PowsInvert
  <2>2. w \in InverseCells(c)
    BY <1>0, <1>4, <2>1 DEF InverseCells, Deg5Mul
  <2> QED BY <1>3, <1>6, <2>2 DEF SBoxCells
<1> QED BY <1>5, <1>6

(* Completeness, for every field.                                          *)
THEOREM HonestProofsAccepted == RoundsSpec => []HonestProofAccepted
<1>1. RoundsSpec => []RoundsInv
  BY RoundsInvHolds
<1>2. RoundsInv => HonestProofAccepted
  <2> SUFFICES ASSUME RoundsInv, NEW c \in Cells, gadget[c].variable
               PROVE  HonestWitness(gadget[c], round - 1) \in SBoxCells(gadget[c], round - 1)
    BY DEF HonestProofAccepted
  <2>1. gadget[c] \in FpVars
    BY VectorsAre DEF RoundsInv
  <2> QED BY <2>1, HonestWitnessIs
<1> QED BY <1>1, <1>2, PTL

-----------------------------------------------------------------------------
(* Windowed hashes.  The element of a sequence at p, behind its end a      *)
(* zero: what filling up with zeros leaves alone.                          *)
ValueAt(s, p) == IF p <= Len(s) THEN s[p] ELSE 0

LEMMA ResizedIs ==
  ASSUME NEW X, 0 \in X, NEW s \in Seq(X), NEW n \in Nat
  PROVE  /\ Resized(s, n) \in Seq(X) /\ Len(Resized(s, n)) = n
         /\ \A p \in 1 .. n : Resized(s, n)[p] = ValueAt(s, p)
<1>1. PICK t : t = Resized(s, n)
  OBVIOUS
<1>2. t = [p \in 1 .. n |-> ValueAt(s, p)]
  BY <1>1 DEF Resized, ValueAt
<1>3. ASSUME NEW p \in 1 .. n PROVE ValueAt(s, p) \in X
  <2>1. CASE p <= Len(s)
    <3>1. p \in 1 .. Len(s)
      BY <2>1, LenProperties
    <3>2. s[p] \in X
      BY <3>1, ElementOfSeq
    <3> QED BY <2>1, <3>2 DEF ValueAt
  <2>2. CASE ~ (p <= Len(s))
    BY <2>2 DEF ValueAt
  <2> QED BY <2>1, <2>2
<1>4. t \in [1 .. n -> X]
  BY <1>2, <1>3
<1> QED BY <1>1, <1>2, <1>4

LEMMA ValueInSet ==
  ASSUME NEW X, 0 \in X, NEW s \in Seq(X), NEW p \in Nat \ {0}
  PROVE  ValueAt(s, p) \in X
<1>1. CASE p <= Len(s)
  <2>1. p \in 1 .. Len(s)
    BY <1>1, LenProperties
  <2>2. s[p] \in X
    BY <2>1, ElementOfSeq
  <2> QED BY <1>1, <2>2 DEF ValueAt
<1>2. CASE ~ (p <= Len(s))
  BY <1>2 DEF ValueAt
<1> QED BY <1>1, <1>2

(* Two sequences that agree behind their ends, too.                        *)
SameFilled(s, t) == \A p \in Nat \ {0} : ValueAt(s, p) = ValueAt(t, p)

LEMMA ResizedSame ==
  ASSUME NEW X, 0 \in X, NEW s \in Seq(X), NEW n \in Nat, Len(s) <= n
  PROVE  SameFilled(Resized(s, n), s)
<1>1. PICK t : t = Resized(s, n)
  OBVIOUS
<1>2. t \in Seq(X) /\ Len(t) = n /\ \A p \in 1 .. n : t[p] = ValueAt(s, p)
  BY <1>1, ResizedIs
<1>3. ASSUME NEW p \in Nat \ {0} PROVE ValueAt(t, p) = ValueAt(s, p)
  <2>1. CASE p <= n
    BY <1>2, <2>1 DEF ValueAt
  <2>2. CASE ~ (p <= n)
    <3>1. ~ (p <= Len(s))
      BY <2>2, LenProperties
    <3> QED BY <1>2, <2>2, <3>1 DEF ValueAt
  <2> QED BY <2>1, <2>2
<1> QED BY <1>1, <1>3 DEF SameFilled

LEMMA SameWhenResized ==
  ASSUME NEW X, 0 \in X, NEW s \in Seq(X), NEW t \in Seq(X), SameFilled(s, t), NEW n \in Nat
  PROVE  Resized(s, n) = Resized(t, n)
<1>1. /\ Resized(s, n) \in Seq(X) /\ Len(Resized(s, n)) = n
      /\ \A p \in 1 .. n : Resized(s, n)[p] = ValueAt(s, p)
  BY ResizedIs
<1>2. /\ Resized(t, n) \in Seq(X) /\ Len(Resized(t, n)) = n
      /\ \A p \in 1 .. n : Resized(t, n)[p] = ValueAt(t, p)
  BY ResizedIs
<1>3. \A p \in 1 .. n : Resized(s, n)[p] = Resized(t, n)[p]
  BY <1>1, <1>2 DEF SameFilled
<1> QED BY <1>1, <1>2, <1>3, SeqEqual

(* Zeros behind the last bit do not change the number.                     *)
LEMMA FilledValue ==
  ASSUME NEW s \in Seq(Int), NEW n \in Nat, Len(s) <= n
  PROVE  FromBitsLE(Resized(s, n)) = FromBitsLE(s)
<1>1. PICK t, L : t = Resized(s, n) /\ L = Len(s)
  OBVIOUS
<1>2. t \in Seq(Int) /\ Len(t) = n /\ \A p \in 1 .. n : t[p] = ValueAt(s, p)
  BY <1>1, 0 \in Int, ResizedIs
<1>3. L \in Nat /\ L <= n /\ \A p \in 1 .. n : t[p] = IF p <= L THEN s[p] ELSE 0
  BY <1>1, <1>2 DEF ValueAt
<1>4. PICK v : /\ v[0] = 0 /\ v[L] = FromBitsLE(s)
               /\ \A i \in 1 .. L : v[i] = s[L + 1 - i] + 2 * v[i - 1]
  <2>1. \E v : BitValues(v, s) /\ v[Len(s)] = FromBitsLE(s)
    BY Zenon, ValueLoop
  <2> QED BY Zenon, <1>1, <2>1 DEF BitValues
<1>5. PICK w : /\ w[0] = 0 /\ w[n] = FromBitsLE(t)
               /\ \A i \in 1 .. n : w[i] = t[n + 1 - i] + 2 * w[i - 1]
  <2>1. \E w : BitValues(w, t) /\ w[Len(t)] = FromBitsLE(t)
    BY Zenon, <1>2, ValueLoop
  <2> QED BY Zenon, <1>2, <2>1 DEF BitValues
<1> DEFINE Z == {i \in Nat : i <= n - L => w[i] = 0}
           T == {i \in Nat : i <= L => w[n - L + i] = v[i]}
<1>6. 0 \in Z
  BY <1>5
<1>7. ASSUME NEW i \in Nat, i \in Z PROVE i + 1 \in Z
  <2> SUFFICES ASSUME i + 1 <= n - L PROVE w[i + 1] = 0
    OBVIOUS
  <2>1. PICK k, p : k = i + 1 /\ p = n - i
    OBVIOUS
  <2>2. k \in 1 .. n /\ k - 1 = i /\ n + 1 - k = p /\ p \in 1 .. n /\ ~ (p <= L) /\ i <= n - L
    BY <1>3, <2>1
  <2>3. w[k] = t[p] + 2 * w[i] /\ t[p] = 0 /\ w[i] = 0
    BY <1>3, <1>5, <1>7, <2>2
  <2> QED BY <2>1, <2>3
<1>8. n - L \in Nat /\ w[n - L] = 0
  <2>1. n - L \in Nat
    BY <1>3
  <2>2. n - L \in Z
    <3> HIDE DEF Z
    <3> QED BY <1>6, <1>7, <2>1, InductionOnSet
  <2> QED BY <2>1, <2>2
<1>9. 0 \in T
  BY <1>4, <1>8
<1>10. ASSUME NEW i \in Nat, i \in T PROVE i + 1 \in T
  <2> SUFFICES ASSUME i + 1 <= L PROVE w[n - L + (i + 1)] = v[i + 1]
    OBVIOUS
  <2>1. PICK k, j, p : k = i + 1 /\ j = n - L + (i + 1) /\ p = L - i
    OBVIOUS
  <2>2. /\ k \in 1 .. L /\ k - 1 = i /\ L + 1 - k = p
        /\ j \in 1 .. n /\ j - 1 = n - L + i /\ n + 1 - j = p
        /\ p \in 1 .. n /\ p <= L /\ i <= L
    BY <1>3, <2>1
  <2>3. w[j] = t[p] + 2 * w[n - L + i] /\ t[p] = s[p] /\ w[n - L + i] = v[i]
    BY <1>3, <1>5, <1>10, <2>2
  <2>4. v[k] = s[p] + 2 * v[i]
    BY <1>4, <2>2
  <2> QED BY <2>1, <2>3, <2>4
<1>11. L \in T
  <2> HIDE DEF T
  <2> QED BY <1>3, <1>9, <1>10, InductionOnSet
<1>12. w[n - L + L] = v[L] /\ n - L + L = n
  BY <1>3, <1>11
<1> QED BY <1>1, <1>4, <1>5, <1>12

LEMMA SameFilledValue ==
  ASSUME NEW s \in Seq(Int), NEW t \in Seq(Int), SameFilled(s, t)
  PROVE  FromBitsLE(s) = FromBitsLE(t)
<1>1. PICK n \in Nat : Len(s) <= n /\ Len(t) <= n
  <2>1. Len(s) \in Nat /\ Len(t) \in Nat
    BY LenProperties
  <2>2. \A a, b \in Nat : a <= a + b /\ b <= a + b /\ a + b \in Nat
    OBVIOUS
  <2> QED BY <2>1, <2>2
<1>2. Resized(s, n) = Resized(t, n)
  BY SameWhenResized, 0 \in Int
<1>3. FromBitsLE(Resized(s, n)) = FromBitsLE(s) /\ FromBitsLE(Resized(t, n)) = FromBitsLE(t)
  BY <1>1, FilledValue
<1> QED BY <1>2, <1>3

-----------------------------------------------------------------------------
(* How many chunks of n a length has.                                      *)
LEMMA ChunksReach ==
  ASSUME NEW L \in Nat, NEW n \in Nat \ {0}, NEW w \in Nat \ {0}
  PROVE  /\ (L + n - 1) \div n \in Nat
         /\ w <= (L + n - 1) \div n <=> (w - 1) * n < L
<1>1. PICK C \in Int, r \in Int : C = (L + n - 1) \div n /\ r = (L + n - 1) % n
  OBVIOUS
<1>2. r \in 0 .. (n - 1) /\ L + n - 1 = C * n + r
  <2>1. PICK x \in Int : x = L + n - 1
    OBVIOUS
  <2>2. x % n \in 0 .. (n - 1) /\ x = n * (x \div n) + (x % n)
    BY <2>1
  <2> QED BY <1>1, <2>1, <2>2
<1>3. C >= 0
  <2>1. C <= -1 => C * n <= -n
    OBVIOUS
  <2> QED BY <1>2, <2>1
<1>4. w <= C => (w - 1) * n < L
  <2>1. w <= C => w * n <= C * n
    OBVIOUS
  <2>2. (w - 1) * n = w * n - n
    OBVIOUS
  <2> QED BY <1>2, <2>1, <2>2
<1>5. w > C => (w - 1) * n >= L
  <2>1. w - 1 >= C => (w - 1) * n >= C * n
    OBVIOUS
  <2> QED BY <1>2, <2>1
<1>6. (w - 1) * n \in Int
  OBVIOUS
<1> QED BY <1>1, <1>3, <1>4, <1>5, <1>6

(* A chunk: its length, and its elements.                                  *)
ChunkLen(L, n, w) == IF w * n < L THEN n ELSE L - (w - 1) * n

(* Chunk w of n, and every chunk.                                          *)
ChunkOf(h, s, n, w) ==
  /\ Len(h) = ChunkLen(Len(s), n, w) /\ ChunkLen(Len(s), n, w) \in 1 .. n
  /\ \A k \in 1 .. ChunkLen(Len(s), n, w) : h[k] = s[(w - 1) * n + k]

AllChunks(cs, s, n, X) == \A w \in 1 .. Len(cs) : cs[w] \in Seq(X) /\ ChunkOf(cs[w], s, n, w)

LEMMA ChunksAre ==
  ASSUME NEW X, NEW s \in Seq(X), NEW n \in Nat \ {0}
  PROVE  /\ InChunks(s, n) \in Seq(Seq(X))
         /\ Len(InChunks(s, n)) = (Len(s) + n - 1) \div n
         /\ AllChunks(InChunks(s, n), s, n, X)
<1>1. PICK L, C, cs : L = Len(s) /\ C = (L + n - 1) \div n /\ cs = InChunks(s, n)
  OBVIOUS
<1>2. L \in Nat
  BY <1>1, LenProperties
<1>3. C \in Nat /\ \A w \in Nat \ {0} : w <= C <=> (w - 1) * n < L
  <2>1. C \in Nat
    <3>1. 1 \in Nat \ {0}
      OBVIOUS
    <3> QED BY <1>1, <1>2, <3>1, ChunksReach
  <2>2. \A w \in Nat \ {0} : w <= C <=> (w - 1) * n < L
    BY <1>1, <1>2, ChunksReach
  <2> QED BY <2>1, <2>2
<1>4. cs = [w \in 1 .. C |-> SubSeq(s, (w - 1) * n + 1, IF w * n < L THEN w * n ELSE L)]
  BY <1>1 DEF InChunks
<1>5. ASSUME NEW w \in 1 .. C
      PROVE  /\ cs[w] \in Seq(X) /\ Len(cs[w]) = ChunkLen(L, n, w)
             /\ ChunkLen(L, n, w) \in 1 .. n
             /\ \A k \in 1 .. ChunkLen(L, n, w) : cs[w][k] = s[(w - 1) * n + k]
  <2>1. PICK a, b : a = (w - 1) * n /\ b = IF w * n < L THEN w * n ELSE L
    OBVIOUS
  <2>2. a \in Nat /\ a < L /\ w * n = a + n
    <3>1. w \in Nat \ {0}
      OBVIOUS
    <3>2. (w - 1) * n \in Nat /\ w * n = (w - 1) * n + n
      BY <3>1
    <3>3. (w - 1) * n < L
      BY <1>3, <3>1
    <3> QED BY <2>1, <3>2, <3>3
  <2>3. b = (IF a + n < L THEN a + n ELSE L) /\ ChunkLen(L, n, w) = b - a
    BY <1>2, <2>1, <2>2 DEF ChunkLen
  <2>4. b \in Nat /\ a <= b /\ b <= L /\ b - a \in 1 .. n
    BY <1>2, <2>2, <2>3
  <2>5. cs[w] = SubSeq(s, a + 1, b)
    BY <1>4, <2>1
  <2>6. /\ SubSeq(s, a + 1, b) \in Seq(X) /\ Len(SubSeq(s, a + 1, b)) = b - a
        /\ \A k \in 1 .. (b - a) : SubSeq(s, a + 1, b)[k] = s[a + k]
    <3>1. a \in Nat /\ b \in Nat /\ a <= b /\ b <= Len(s)
      BY <1>1, <2>2, <2>4
    <3>2. SubSeq(s, a + 1, b) \in Seq(X) /\ SliceAt(SubSeq(s, a + 1, b), s, a, b)
      BY Zenon, <3>1, SliceOf
    <3> QED BY Zenon, <3>2 DEF SliceAt
  <2> QED BY <2>1, <2>3, <2>4, <2>5, <2>6
<1>6. cs \in Seq(Seq(X)) /\ Len(cs) = C
  <2>1. cs \in [1 .. C -> Seq(X)]
    BY <1>4, <1>5
  <2> QED BY <1>3, <2>1
<1>7. ASSUME NEW w \in 1 .. Len(cs) PROVE cs[w] \in Seq(X) /\ ChunkOf(cs[w], s, n, w)
  <2>1. w \in 1 .. C
    BY Zenon, <1>6
  <2>2. /\ cs[w] \in Seq(X) /\ Len(cs[w]) = ChunkLen(L, n, w)
        /\ ChunkLen(L, n, w) \in 1 .. n
        /\ \A k \in 1 .. ChunkLen(L, n, w) : cs[w][k] = s[(w - 1) * n + k]
    BY <1>5, <2>1
  <2> QED BY Zenon, <1>1, <2>2 DEF ChunkOf
<1>8. AllChunks(cs, s, n, X)
  BY Zenon, <1>7 DEF AllChunks
<1> QED BY Zenon, <1>1, <1>6, <1>8

LEMMA ChunkIs ==
  ASSUME NEW X, NEW s \in Seq(X), NEW n \in Nat \ {0}, NEW w \in 1 .. Len(InChunks(s, n))
  PROVE  InChunks(s, n)[w] \in Seq(X) /\ ChunkOf(InChunks(s, n)[w], s, n, w)
<1>1. AllChunks(InChunks(s, n), s, n, X)
  BY ChunksAre
<1> QED BY Zenon, <1>1 DEF AllChunks

(* Window w of n elements, with zeros behind the end.                      *)
Window(s, n, w) == [k \in 1 .. n |-> ValueAt(s, (w - 1) * n + k)]

LEMMA WindowIs ==
  ASSUME NEW X, 0 \in X, NEW s \in Seq(X), NEW n \in Nat \ {0}, NEW w \in Nat \ {0}
  PROVE  /\ Window(s, n, w) \in Seq(X) /\ Len(Window(s, n, w)) = n
         /\ \A k \in 1 .. n : Window(s, n, w)[k] = ValueAt(s, (w - 1) * n + k)
<1>1. (w - 1) * n \in Nat
  OBVIOUS
<1>2. PICK a \in Nat : a = (w - 1) * n
  BY <1>1
<1>3. \A k \in 1 .. n : ValueAt(s, a + k) \in X
  <2> TAKE k \in 1 .. n
  <2>1. PICK p \in Nat \ {0} : p = a + k
    OBVIOUS
  <2>2. ValueAt(s, p) \in X
    BY ValueInSet
  <2> QED BY <2>1, <2>2
<1>4. Window(s, n, w) = [k \in 1 .. n |-> ValueAt(s, a + k)]
  BY <1>2 DEF Window
<1>5. PICK t : t = Window(s, n, w)
  OBVIOUS
<1>6. t \in [1 .. n -> X] /\ \A k \in 1 .. n : t[k] = ValueAt(s, a + k)
  BY <1>3, <1>4, <1>5
<1>7. t \in Seq(X) /\ Len(t) = n
  BY <1>6
<1> QED BY <1>2, <1>5, <1>6, <1>7

(* A chunk is its window, but for zeros at the end; where there is no      *)
(* chunk the window is zeros.                                              *)
LEMMA ChunkFillsWindow ==
  ASSUME NEW X, 0 \in X, NEW s \in Seq(X), NEW n \in Nat \ {0}, NEW w \in 1 .. Len(InChunks(s, n))
  PROVE  InChunks(s, n)[w] \in Seq(X) /\ SameFilled(InChunks(s, n)[w], Window(s, n, w))
<1>1. PICK L, c, a, l : /\ L = Len(s) /\ c = InChunks(s, n)[w] /\ a = (w - 1) * n
                        /\ l = ChunkLen(Len(s), n, w)
  OBVIOUS
<1>2. c \in Seq(X) /\ Len(c) = l /\ l \in 1 .. n /\ \A k \in 1 .. l : c[k] = s[a + k]
  <2>1. c \in Seq(X) /\ ChunkOf(c, s, n, w)
    BY Zenon, <1>1, ChunkIs
  <2> QED BY Zenon, <1>1, <2>1 DEF ChunkOf
<1>3. w \in Nat \ {0} /\ L \in Nat /\ a \in Nat
  <2>1. w \in Nat \ {0}
    OBVIOUS
  <2>2. (w - 1) * n \in Nat
    BY <2>1
  <2> QED BY <1>1, <2>1, <2>2, LenProperties
<1>4. w * n = a + n
  BY <1>1, <1>3
<1>5. l = IF a + n < L THEN n ELSE L - a
  BY <1>1, <1>4 DEF ChunkLen
<1>6. PICK t : /\ t = Window(s, n, w) /\ Len(t) = n
               /\ \A k \in 1 .. n : t[k] = ValueAt(s, a + k)
  BY <1>1, <1>3, WindowIs
<1>7. ASSUME NEW p \in Nat \ {0} PROVE ValueAt(c, p) = ValueAt(t, p)
  <2>1. CASE p <= l
    <3>1. p \in 1 .. l /\ p \in 1 .. n /\ a + p <= L
      BY <1>2, <1>3, <1>5, <2>1
    <3>2. c[p] = s[a + p] /\ t[p] = s[a + p]
      BY <1>1, <1>2, <1>6, <3>1 DEF ValueAt
    <3>3. p <= n
      BY <3>1
    <3> QED BY <1>2, <1>6, <2>1, <3>2, <3>3 DEF ValueAt
  <2>2. CASE ~ (p <= l)
    <3>1. ValueAt(c, p) = 0
      BY <1>2, <2>2 DEF ValueAt
    <3>2. CASE p <= n
      <4>1. p \in 1 .. n /\ ~ (a + p <= L)
        BY <1>2, <1>3, <1>5, <2>2, <3>2
      <4>2. t[p] = 0
        BY <1>1, <1>6, <4>1 DEF ValueAt
      <4> QED BY <1>6, <3>1, <3>2, <4>2 DEF ValueAt
    <3>3. CASE ~ (p <= n)
      BY <1>6, <3>1, <3>3 DEF ValueAt
    <3> QED BY <3>2, <3>3
  <2> QED BY <2>1, <2>2
<1> QED BY <1>1, <1>2, <1>6, <1>7 DEF SameFilled

LEMMA NoChunkNoWindow ==
  ASSUME NEW X, 0 \in X, NEW s \in Seq(X), NEW n \in Nat \ {0}, NEW w \in Nat \ {0},
         w > Len(InChunks(s, n))
  PROVE  SameFilled(<<>>, Window(s, n, w))
<1>1. PICK L, a, C : L = Len(s) /\ a = (w - 1) * n /\ C = (L + n - 1) \div n
  OBVIOUS
<1>2. L \in Nat /\ Len(InChunks(s, n)) = C
  BY <1>1, LenProperties, ChunksAre
<1>3. a \in Nat /\ a >= L
  <2>1. (w - 1) * n \in Nat
    OBVIOUS
  <2>2. C \in Nat /\ (w <= C <=> a < L)
    BY <1>1, <1>2, ChunksReach
  <2> QED BY <1>1, <1>2, <2>1, <2>2
<1>4. PICK t : /\ t = Window(s, n, w) /\ Len(t) = n
               /\ \A k \in 1 .. n : t[k] = ValueAt(s, a + k)
  BY <1>1, WindowIs
<1>5. ASSUME NEW p \in Nat \ {0} PROVE ValueAt(t, p) = 0
  <2>1. CASE p <= n
    <3>1. p \in 1 .. n /\ ~ (a + p <= L)
      BY <1>2, <1>3, <2>1
    <3>2. t[p] = 0
      BY <1>1, <1>4, <3>1 DEF ValueAt
    <3> QED BY <1>4, <2>1, <3>2 DEF ValueAt
  <2>2. CASE ~ (p <= n)
    BY <1>4, <2>2 DEF ValueAt
  <2> QED BY <2>1, <2>2
<1>6. \A p \in Nat \ {0} : ValueAt(<<>>, p) = 0
  BY DEF ValueAt
<1> QED BY <1>4, <1>5, <1>6 DEF SameFilled

LEMMA EmptyValue == FromBitsLE(<<>>) = 0
<1>1. <<>> \in Seq(Int) /\ Len(<<>>) = 0
  OBVIOUS
<1>2. \E v : BitValues(v, <<>>) /\ v[Len(<<>>)] = FromBitsLE(<<>>)
  BY Zenon, <1>1, ValueLoop
<1> QED BY <1>1, <1>2 DEF BitValues

(* The sum, window by window: a missing window adds what zeros would.      *)
WindowSums(s) == [w \in 1 .. NumWindows |-> WindowScalar(Window(s, WindowSize, w))]

LEMMA PedersenSumIs ==
  ASSUME NEW s \in Seq(Int)
  PROVE  PedersenSum(s) = WindowSums(s)
<1>1. PICK n, cs : n = WindowSize /\ cs = InChunks(s, WindowSize)
  OBVIOUS
<1>2. n \in Nat \ {0} /\ NumWindows \in Nat \ {0} /\ HashOrder \in Nat \ {0}
  BY <1>1, WindowAssumption
<1>3. cs \in Seq(Seq(Int))
  BY <1>1, <1>2, ChunksAre
<1>4. PICK C \in Nat : C = Len(cs) /\ DOMAIN cs = 1 .. C
  BY <1>3, LenProperties
<1>5. ASSUME NEW w \in 1 .. NumWindows
      PROVE  (IF w \in 1 .. C THEN WindowScalar(cs[w]) ELSE 0) = WindowScalar(Window(s, n, w))
  <2>0. w \in Nat \ {0} /\ 0 \in Int
    BY <1>2
  <2>1. CASE w \in 1 .. C
    <3>1. cs[w] \in Seq(Int) /\ SameFilled(cs[w], Window(s, n, w)) /\ Window(s, n, w) \in Seq(Int)
      BY <1>1, <1>2, <1>4, <2>0, <2>1, ChunkFillsWindow, WindowIs
    <3>2. FromBitsLE(cs[w]) = FromBitsLE(Window(s, n, w))
      BY <3>1, SameFilledValue
    <3> QED BY <2>1, <3>2 DEF WindowScalar
  <2>2. CASE w \notin 1 .. C
    <3>1. w > C
      BY <2>0, <2>2
    <3>2. SameFilled(<<>>, Window(s, n, w)) /\ Window(s, n, w) \in Seq(Int) /\ <<>> \in Seq(Int)
      BY <1>1, <1>2, <1>4, <2>0, <3>1, NoChunkNoWindow, WindowIs
    <3>3. FromBitsLE(Window(s, n, w)) = 0
      BY <3>2, SameFilledValue, EmptyValue
    <3>4. 0 % HashOrder = 0
      BY <1>2
    <3> QED BY <2>2, <3>3, <3>4 DEF WindowScalar
  <2> QED BY <2>1, <2>2
<1>6. PedersenSum(s) = Windows([w \in 1 .. C |-> WindowScalar(cs[w])])
  BY <1>1, <1>4 DEF PedersenSum
<1>7. PedersenSum(s) = [w \in 1 .. NumWindows |-> IF w \in 1 .. C THEN WindowScalar(cs[w]) ELSE 0]
  BY <1>6 DEF Windows
<1> QED BY <1>1, <1>5, <1>7 DEF WindowSums

LEMMA SameWindowSums ==
  ASSUME NEW s \in Seq(Int), NEW t \in Seq(Int), SameFilled(s, t)
  PROVE  PedersenSum(s) = PedersenSum(t)
<1>1. ASSUME NEW w \in 1 .. NumWindows PROVE Window(s, WindowSize, w) = Window(t, WindowSize, w)
  <2>1. ASSUME NEW k \in 1 .. WindowSize
        PROVE  ValueAt(s, (w - 1) * WindowSize + k) = ValueAt(t, (w - 1) * WindowSize + k)
    <3>1. w \in Nat \ {0} /\ WindowSize \in Nat \ {0}
      BY WindowAssumption
    <3>2. (w - 1) * WindowSize \in Nat
      BY <3>1
    <3>3. PICK a \in Nat : a = (w - 1) * WindowSize
      BY <3>2
    <3>4. a + k \in Nat \ {0}
      BY <3>1
    <3> QED BY <3>3, <3>4 DEF SameFilled
  <2> QED BY <2>1 DEF Window
<1>2. WindowSums(s) = WindowSums(t)
  BY <1>1 DEF WindowSums
<1> QED BY <1>2, PedersenSumIs

-----------------------------------------------------------------------------
(* Bytes as bits, and zero bytes as zero bits.                             *)
LEMMA ZeroShifted ==
  ASSUME NEW n \in Nat
  PROVE  ShiftRight(0, n) = 0
<1>1. 0 \in Nat
  OBVIOUS
<1>2. PICK f : f = Shifted(0)
  OBVIOUS
<1>3. f[0] = 0 /\ \A i \in Nat : f[i] = ShiftRight(0, i) /\ f[i + 1] = f[i] \div 2
  BY <1>1, <1>2, ShiftedIs
<1> DEFINE T == {i \in Nat : f[i] = 0}
<1>4. 0 \in T
  BY <1>3
<1>5. ASSUME NEW i \in Nat, i \in T PROVE i + 1 \in T
  <2>1. f[i + 1] = f[i] \div 2 /\ f[i] = 0
    BY <1>3, <1>5
  <2> QED BY <2>1
<1>6. n \in T
  <2> HIDE DEF T
  <2> QED BY <1>4, <1>5, InductionOnSet
<1> QED BY <1>3, <1>6

Bits == {0, 1}
LEMMA BitsLEIs ==
  ASSUME NEW x \in Nat, NEW n \in Nat
  PROVE  /\ BitsLE(x, n) \in Seq(Bits) /\ Len(BitsLE(x, n)) = n
         /\ \A k \in 1 .. n : BitsLE(x, n)[k] = ShiftRight(x, k - 1) % 2
<1>1. PICK t : t = BitsLE(x, n)
  OBVIOUS
<1>2. t = [k \in 1 .. n |-> ShiftRight(x, k - 1) % 2]
  BY <1>1 DEF BitsLE
<1>3. ASSUME NEW k \in 1 .. n PROVE ShiftRight(x, k - 1) % 2 \in Bits
  <2>1. PICK y \in Nat : y = ShiftRight(x, k - 1)
    <3>1. k - 1 \in Nat
      OBVIOUS
    <3> QED BY <3>1, ShiftRightIs
  <2>2. y % 2 \in {0, 1}
    OBVIOUS
  <2> QED BY <2>1, <2>2 DEF Bits
<1>4. t \in [1 .. n -> Bits]
  BY <1>2, <1>3
<1>5. t \in Seq(Bits) /\ Len(t) = n
  BY <1>4
<1> QED BY <1>1, <1>2, <1>5

LEMMA BytesAsBits ==
  ASSUME NEW bytes \in Seq(Nat)
  PROVE  /\ BitsLSBFirst(bytes) \in Seq(Bits)
         /\ Len(BitsLSBFirst(bytes)) = 8 * Len(bytes)
         /\ \A i \in 1 .. Len(bytes) : \A k \in 1 .. 8 :
              BitsLSBFirst(bytes)[8 * (i - 1) + k] = ShiftRight(bytes[i], k - 1) % 2
<1>1. PICK N, seqs : N = Len(bytes) /\ seqs = [i \in DOMAIN bytes |-> BitsLE(bytes[i], ByteBits)]
  OBVIOUS
<1>2. N \in Nat /\ DOMAIN bytes = 1 .. N /\ \A i \in 1 .. N : bytes[i] \in Nat
  BY <1>1, LenProperties, ElementOfSeq
<1>3. seqs = [i \in 1 .. N |-> BitsLE(bytes[i], 8)]
  BY <1>1, <1>2 DEF ByteBits
<1>4. ASSUME NEW i \in 1 .. N
      PROVE  /\ seqs[i] \in Seq(Bits) /\ Len(seqs[i]) = 8
             /\ \A k \in 1 .. 8 : seqs[i][k] = ShiftRight(bytes[i], k - 1) % 2
  <2>1. bytes[i] \in Nat /\ 8 \in Nat
    BY <1>2
  <2>2. /\ BitsLE(bytes[i], 8) \in Seq(Bits) /\ Len(BitsLE(bytes[i], 8)) = 8
        /\ \A k \in 1 .. 8 : BitsLE(bytes[i], 8)[k] = ShiftRight(bytes[i], k - 1) % 2
    BY <2>1, BitsLEIs
  <2> QED BY <1>3, <2>2
<1>5. seqs \in Seq(Seq(Bits)) /\ Len(seqs) = N
  BY <1>2, <1>3, <1>4
<1>6. FlattenSeq(seqs) \in Seq(Bits) /\ Laid(FlattenSeq(seqs), seqs, N)
  BY <1>4, <1>5, FlatIsLaid
<1>7. BitsLSBFirst(bytes) = FlattenSeq(seqs)
  BY <1>1 DEF BitsLSBFirst
<1>8. PICK f : f = FlattenSeq(seqs)
  OBVIOUS
<1>9. Len(f) = 8 * N /\ \A i \in 1 .. N : \A k \in 1 .. 8 : f[8 * (i - 1) + k] = seqs[i][k]
  <2>1. Len(seqs) = N
    BY Zenon, <1>5
  <2> QED BY Zenon, <1>6, <1>8, <2>1 DEF Laid
<1>10. \A i \in 1 .. N : \A k \in 1 .. 8 : f[8 * (i - 1) + k] = ShiftRight(bytes[i], k - 1) % 2
  <2>1. ASSUME NEW i \in 1 .. N, NEW k \in 1 .. 8
        PROVE  f[8 * (i - 1) + k] = ShiftRight(bytes[i], k - 1) % 2
    <3>1. seqs[i][k] = ShiftRight(bytes[i], k - 1) % 2
      BY <1>4
    <3>2. f[8 * (i - 1) + k] = seqs[i][k]
      BY <1>9
    <3> QED BY Zenon, <3>1, <3>2
  <2> QED BY Zenon, <2>1
<1>11. f \in Seq(Bits) /\ f = BitsLSBFirst(bytes)
  BY Zenon, <1>6, <1>7, <1>8
<1> QED BY Zenon, <1>1, <1>9, <1>10, <1>11

LEMMA BitOfBytes ==
  ASSUME NEW bytes \in Seq(Nat), NEW i \in Nat \ {0}, NEW k \in 1 .. 8
  PROVE  ValueAt(BitsLSBFirst(bytes), 8 * (i - 1) + k) = ShiftRight(ValueAt(bytes, i), k - 1) % 2
<1>1. PICK bs, L : bs = BitsLSBFirst(bytes) /\ L = Len(bytes)
  OBVIOUS
<1>2. /\ L \in Nat /\ Len(bs) = 8 * L
      /\ \A j \in 1 .. L : bs[8 * (j - 1) + k] = ShiftRight(bytes[j], k - 1) % 2
  BY <1>1, BytesAsBits, LenProperties
<1>3. CASE i <= L
  <2>1. i \in 1 .. L /\ 8 * (i - 1) + k <= 8 * L
    BY <1>2, <1>3
  <2> QED BY <1>1, <1>2, <1>3, <2>1 DEF ValueAt
<1>4. CASE ~ (i <= L)
  <2>1. ~ (8 * (i - 1) + k <= 8 * L)
    BY <1>2, <1>4
  <2>2. ShiftRight(0, k - 1) = 0 /\ 0 % 2 = 0
    <3>1. k - 1 \in Nat
      OBVIOUS
    <3> QED BY <3>1, ZeroShifted
  <2> QED BY <1>1, <1>2, <1>4, <2>1, <2>2 DEF ValueAt
<1> QED BY <1>3, <1>4

LEMMA SameFilledBytes ==
  ASSUME NEW s \in Seq(Nat), NEW t \in Seq(Nat), SameFilled(s, t)
  PROVE  SameFilled(BitsLSBFirst(s), BitsLSBFirst(t))
<1>1. ASSUME NEW p \in Nat \ {0} PROVE ValueAt(BitsLSBFirst(s), p) = ValueAt(BitsLSBFirst(t), p)
  <2>1. p \in 1 .. 8 * p /\ p \in Nat
    OBVIOUS
  <2>2. PICK i \in 1 .. p, k \in 1 .. 8 : p = 8 * (i - 1) + k
    BY <2>1, ByteOfPlace
  <2>3. i \in Nat \ {0}
    OBVIOUS
  <2>4. ValueAt(s, i) = ValueAt(t, i)
    BY <2>3 DEF SameFilled
  <2>5. /\ ValueAt(BitsLSBFirst(s), 8 * (i - 1) + k) = ShiftRight(ValueAt(s, i), k - 1) % 2
        /\ ValueAt(BitsLSBFirst(t), 8 * (i - 1) + k) = ShiftRight(ValueAt(t, i), k - 1) % 2
    BY <2>3, BitOfBytes
  <2> QED BY <2>2, <2>4, <2>5
<1> QED BY <1>1 DEF SameFilled

LEMMA BitsAreNumbers == \A s \in Seq(Bits) : s \in Seq(Int)
  BY DEF Bits
LEMMA BytesAreNumbers == \A s \in Seq(ByteValues) : s \in Seq(Nat)
<1> SUFFICES ASSUME NEW s \in Seq(ByteValues) PROVE s \in Seq(Nat)
  OBVIOUS
<1>1. \A b \in ByteValues : b \in Nat
  BY DEF ByteValues
<1>2. Len(s) \in Nat /\ s \in [1 .. Len(s) -> ByteValues]
  BY LenProperties
<1>3. s \in [1 .. Len(s) -> Nat]
  BY <1>1, <1>2
<1> QED BY <1>2, <1>3

(* The hash of bytes does not see the zeros filled up behind them.         *)
LEMMA FilledHash ==
  ASSUME NEW s \in Seq(Nat), NEW t \in Seq(Nat), SameFilled(s, t)
  PROVE  PedersenSum(BitsLSBFirst(s)) = PedersenSum(BitsLSBFirst(t))
<1>1. SameFilled(BitsLSBFirst(s), BitsLSBFirst(t))
  BY SameFilledBytes
<1>2. BitsLSBFirst(s) \in Seq(Int) /\ BitsLSBFirst(t) \in Seq(Int)
  BY BytesAsBits, BitsAreNumbers
<1> QED BY <1>1, <1>2, SameWindowSums

LEMMA WindowsHold ==
  /\ InputSizeBits \in Nat /\ InputBytes \in Nat
  /\ InputBytes = InputSizeBits \div 8 /\ HalfInputSizeBits = InputSizeBits \div 2
<1>1. WindowSize * NumWindows \in Nat
  BY WindowAssumption
<1>2. InputSizeBits \in Nat
  BY <1>1 DEF InputSizeBits
<1> QED BY <1>2 DEF InputBytes, HalfInputSizeBits, ByteBits

LEMMA BytesFit ==
  ASSUME NEW L \in Nat
  PROVE  /\ L * ByteBits = 8 * L
         /\ L * ByteBits <= InputSizeBits <=> L <= InputBytes
         /\ L * ByteBits <= InputSizeBits /\ ~ (L * ByteBits < InputSizeBits) => L = InputBytes
  BY WindowsHold DEF ByteBits

(* What is filled up before it is hashed.                                  *)
Padded(x) ==
  IF Len(x) * ByteBits < InputSizeBits THEN Resized(x, InputBytes) ELSE x

LEMMA PaddedIs ==
  ASSUME NEW x \in Seq(Nat), Len(x) * ByteBits <= InputSizeBits
  PROVE  /\ Padded(x) \in Seq(Nat) /\ SameFilled(Padded(x), x)
         /\ Padded(x) = Resized(x, InputBytes) /\ Len(Padded(x)) = InputBytes
<1>1. PICK L \in Nat : L = Len(x)
  BY LenProperties
<1>2. L <= InputBytes /\ InputBytes \in Nat /\ (~ (L * ByteBits < InputSizeBits) => L = InputBytes)
  BY <1>1, BytesFit, WindowsHold
<1>3. 0 \in Nat
  OBVIOUS
<1>4. /\ Resized(x, InputBytes) \in Seq(Nat) /\ Len(Resized(x, InputBytes)) = InputBytes
      /\ \A p \in 1 .. InputBytes : Resized(x, InputBytes)[p] = ValueAt(x, p)
  BY <1>2, <1>3, ResizedIs
<1>5. SameFilled(Resized(x, InputBytes), x)
  BY <1>1, <1>2, <1>3, ResizedSame
<1>6. ~ (L * ByteBits < InputSizeBits) => x = Resized(x, InputBytes)
  <2> SUFFICES ASSUME L = InputBytes PROVE x = Resized(x, InputBytes)
    BY <1>2
  <2>1. \A p \in 1 .. InputBytes : x[p] = Resized(x, InputBytes)[p]
    BY <1>1, <1>4 DEF ValueAt
  <2> QED BY <1>1, <1>4, <2>1, SeqEqual
<1>7. Padded(x) = Resized(x, InputBytes)
  BY <1>1, <1>6 DEF Padded
<1> QED BY <1>4, <1>5, <1>7

LEMMA PedersenEvaluateIs ==
  ASSUME NEW x \in Seq(Nat)
  PROVE  PedersenEvaluate(x) = IF Len(x) * ByteBits > InputSizeBits THEN Panic
                               ELSE <<PedersenSum(BitsLSBFirst(x))>>
<1>0. PICK L \in Nat : L = Len(x) /\ L * ByteBits \in Nat /\ InputSizeBits \in Nat
  BY LenProperties, WindowsHold DEF ByteBits
<1>1. CASE L * ByteBits > InputSizeBits
  BY <1>0, <1>1 DEF PedersenEvaluate
<1>2. CASE ~ (L * ByteBits > InputSizeBits)
  <2>1. Len(x) * ByteBits <= InputSizeBits
    BY <1>0, <1>2
  <2>2. PedersenSum(BitsLSBFirst(Padded(x))) = PedersenSum(BitsLSBFirst(x))
    BY <2>1, PaddedIs, FilledHash
  <2>3. PedersenEvaluate(x) = <<PedersenSum(BitsLSBFirst(Padded(x)))>>
    BY <1>0, <1>2 DEF PedersenEvaluate, Padded
  <2> QED BY <1>0, <1>2, <2>2, <2>3
<1> QED BY <1>1, <1>2

LEMMA PedersenVarSum ==
  ASSUME NEW x \in Seq(Nat), Len(x) * ByteBits <= InputSizeBits
  PROVE  PedersenSum(Resized(BitsLSBFirst(x), InputSizeBits)) = PedersenSum(BitsLSBFirst(x))
<1>1. PICK bs : bs = BitsLSBFirst(x)
  OBVIOUS
<1>2. bs \in Seq(Int) /\ Len(bs) = 8 * Len(x)
  BY <1>1, BytesAsBits, BitsAreNumbers
<1>3. 0 \in Int /\ InputSizeBits \in Nat /\ Len(bs) <= InputSizeBits
  <2>1. PICK L \in Nat : L = Len(x)
    BY LenProperties
  <2> QED BY <1>2, <2>1, WindowsHold DEF ByteBits
<1>4. SameFilled(Resized(bs, InputSizeBits), bs) /\ Resized(bs, InputSizeBits) \in Seq(Int)
  BY <1>2, <1>3, ResizedSame, ResizedIs
<1> QED BY <1>1, <1>2, <1>4, SameWindowSums

LEMMA PedersenVarIs ==
  ASSUME NEW x \in Seq(Nat)
  PROVE  PedersenVar(x) = PedersenEvaluate(x)
<1>0. PICK L \in Nat : L = Len(x) /\ L * ByteBits \in Nat /\ InputSizeBits \in Nat
  BY LenProperties, WindowsHold DEF ByteBits
<1>1. CASE L * ByteBits > InputSizeBits
  BY <1>0, <1>1, PedersenEvaluateIs DEF PedersenVar
<1>2. CASE ~ (L * ByteBits > InputSizeBits)
  <2>1. Len(x) * ByteBits <= InputSizeBits
    BY <1>0, <1>2
  <2>2. PedersenSum(Resized(BitsLSBFirst(x), InputSizeBits)) = PedersenSum(BitsLSBFirst(x))
    BY <2>1, PedersenVarSum
  <2> QED BY <1>0, <1>2, <2>2, PedersenEvaluateIs DEF PedersenVar
<1> QED BY <1>1, <1>2

-----------------------------------------------------------------------------
(* Native code and gadget.                                                 *)
Agrees(d, c) == IF debug THEN c = d ELSE c # Panic => c = d

LEMMA AgreesWhenEqual ==
  ASSUME NEW d, NEW c, c = d
  PROVE  Agrees(d, c)
  BY DEF Agrees

(* Two inputs in one buffer.                                               *)
LEMMA HalvesFit ==
  ASSUME NEW L \in Nat
  PROVE  /\ InputBytes = (2 * HalfInputSizeBits) \div ByteBits
         /\ 2 * L <= InputBytes <=> ~ (L * ByteBits > HalfInputSizeBits)
         /\ 2 * L > InputBytes <=> 2 * L * ByteBits > InputSizeBits
<1>1. PICK I \in Nat, h \in Nat : I = InputSizeBits /\ h = I \div 2
  BY WindowsHold
<1>2. InputBytes = I \div 8 /\ HalfInputSizeBits = h
  BY <1>1, WindowsHold
<1>3. I \div 8 = (2 * h) \div 8
  BY <1>1
<1>4. 2 * L <= I \div 8 <=> ~ (8 * L > h)
  BY <1>1
<1>5. 2 * L > I \div 8 <=> 16 * L > I
  BY <1>1
<1> QED BY <1>1, <1>2, <1>3, <1>4, <1>5 DEF ByteBits

LEMMA JoinedIs ==
  ASSUME NEW l \in Seq(Nat), NEW r \in Seq(Nat), Len(l) = Len(r)
  PROVE  l \o r \in Seq(Nat) /\ Len(l) \in Nat /\ Len(l \o r) = 2 * Len(l)
<1>1. l \o r \in Seq(Nat) /\ Len(l \o r) = Len(l) + Len(r) /\ Len(l) \in Nat
  BY ConcatProperties, LenProperties
<1> QED BY <1>1

LEMMA BufferIs ==
  ASSUME NEW l \in Seq(Nat), NEW r \in Seq(Nat), Len(l) = Len(r), 2 * Len(l) <= InputBytes
  PROVE  /\ Buffer(l, r, InputBytes) \in Seq(Nat)
         /\ Len(Buffer(l, r, InputBytes)) = InputBytes
         /\ SameFilled(Buffer(l, r, InputBytes), l \o r)
<1>1. l \o r \in Seq(Nat) /\ Len(l \o r) <= InputBytes
  BY JoinedIs
<1>2. 0 \in Nat /\ InputBytes \in Nat
  BY WindowsHold
<1> QED BY <1>1, <1>2, ResizedIs, ResizedSame DEF Buffer

LEMMA Pedersen2Agrees ==
  ASSUME NEW l \in Seq(Nat), NEW r \in Seq(Nat)
  PROVE  Agrees(Pedersen2(l, r), Pedersen2Var(l, r))
<1>1. CASE Len(l) # Len(r)
  BY <1>1, AgreesWhenEqual DEF Pedersen2, Pedersen2Var
<1>2. CASE Len(l) = Len(r)
  <2>1. PICK L \in Nat : L = Len(l) /\ Len(l \o r) = 2 * L /\ l \o r \in Seq(Nat)
    BY <1>2, JoinedIs
  <2>2. /\ InputBytes = (2 * HalfInputSizeBits) \div ByteBits
        /\ 2 * L <= InputBytes <=> ~ (L * ByteBits > HalfInputSizeBits)
        /\ 2 * L > InputBytes <=> 2 * L * ByteBits > InputSizeBits
    BY HalvesFit
  <2>3. Pedersen2Var(l, r) = PedersenEvaluate(l \o r)
    BY <1>2, <2>1, PedersenVarIs DEF Pedersen2Var
  <2>4. CASE 2 * L <= InputBytes
    <3>1. PICK b \in Seq(Nat) : /\ b = Buffer(l, r, InputBytes)
                                /\ Len(b) = InputBytes /\ SameFilled(b, l \o r)
      BY <1>2, <2>1, <2>4, BufferIs
    <3>2. PedersenSum(BitsLSBFirst(b)) = PedersenSum(BitsLSBFirst(l \o r))
      BY <2>1, <3>1, FilledHash
    <3>3. ~ (Len(b) * ByteBits > InputSizeBits) /\ ~ (Len(l \o r) * ByteBits > InputSizeBits)
      <4>1. ~ (InputBytes * ByteBits > InputSizeBits)
        BY WindowsHold DEF ByteBits
      <4>2. ~ (2 * L * ByteBits > InputSizeBits)
        BY <2>2, <2>4, WindowsHold
      <4> QED BY <2>1, <3>1, <4>1, <4>2
    <3>4. PedersenEvaluate(b) = PedersenEvaluate(l \o r)
      BY <2>1, <3>1, <3>2, <3>3, PedersenEvaluateIs
    <3>5. Pedersen2(l, r) = PedersenEvaluate(b)
      BY <1>2, <2>1, <2>2, <2>4, <3>1 DEF Pedersen2
    <3> QED BY <2>3, <3>4, <3>5, AgreesWhenEqual
  <2>5. CASE ~ (2 * L <= InputBytes)
    <3>1. Len(l \o r) * ByteBits > InputSizeBits
      BY <2>1, <2>2, <2>5, WindowsHold
    <3>2. Pedersen2Var(l, r) = Panic
      BY <2>1, <2>3, <3>1, PedersenEvaluateIs
    <3>3. debug => Pedersen2(l, r) = Panic
      BY <2>1, <2>2, <2>5 DEF Pedersen2
    <3> QED BY <3>2, <3>3 DEF Agrees
  <2> QED BY <2>4, <2>5
<1> QED BY <1>1, <1>2

LEMMA ZerosBehind ==
  ASSUME NEW s \in Seq(Nat), NEW n \in Nat, Len(s) <= n, NEW m, m = n - Len(s)
  PROVE  s \o [i \in 1 .. m |-> 0] = Resized(s, n)
<1>1. PICK z : z = [i \in 1 .. m |-> 0]
  OBVIOUS
<1>2. m \in Nat /\ Len(s) \in Nat /\ n = Len(s) + m
  BY LenProperties
<1>3. z \in Seq(Nat) /\ Len(z) = m /\ \A i \in 1 .. m : z[i] = 0
  <2>1. z \in [1 .. m -> Nat]
    BY <1>1
  <2> QED BY <1>1, <1>2, <2>1
<1>4. PICK t : t = s \o z
  OBVIOUS
<1>5. /\ t \in Seq(Nat) /\ Len(t) = n
      /\ \A p \in 1 .. n : t[p] = IF p <= Len(s) THEN s[p] ELSE z[p - Len(s)]
  BY <1>2, <1>3, <1>4, ConcatProperties
<1>6. /\ Resized(s, n) \in Seq(Nat) /\ Len(Resized(s, n)) = n
      /\ \A p \in 1 .. n : Resized(s, n)[p] = ValueAt(s, p)
  <2>1. 0 \in Nat
    OBVIOUS
  <2> QED BY <2>1, ResizedIs
<1>7. ASSUME NEW p \in 1 .. n PROVE t[p] = Resized(s, n)[p]
  <2>1. CASE p <= Len(s)
    BY <1>5, <1>6, <2>1 DEF ValueAt
  <2>2. CASE ~ (p <= Len(s))
    <3>1. p - Len(s) \in 1 .. m
      BY <1>2, <2>2
    <3> QED BY <1>3, <1>5, <1>6, <2>2, <3>1 DEF ValueAt
  <2> QED BY <2>1, <2>2
<1> QED BY <1>1, <1>4, <1>5, <1>6, <1>7, SeqEqual

LEMMA SmallRest ==
  ASSUME NEW q \in Nat \ {0}, NEW y \in 0 .. (q - 1)
  PROVE  y % q = y
  OBVIOUS

(* The randomness of a commitment: its bits, all of them, are it.          *)
LEMMA FirstBits ==
  ASSUME NEW r \in 0 .. (HashOrder - 1), NEW bs \in Seq(Int), Len(bs) >= BitSize(HashOrder),
         \A p \in 1 .. Len(bs) : bs[p] = ShiftRight(r, p - 1) % 2
  PROVE  FromBitsLE(SubSeq(bs, 1, BitSize(HashOrder))) % HashOrder = r
<1>1. PICK b : b = BitSize(HashOrder)
  OBVIOUS
<1>2. HashOrder \in Nat /\ HashOrder >= 1 /\ r \in Nat
  BY WindowAssumption
<1>3. b \in Nat /\ b >= 1
  BY <1>1, <1>2, BitSizeIs
<1>4. PICK t : t = SubSeq(bs, 1, b)
  OBVIOUS
<1>5. t \in Seq(Int) /\ Len(t) = b /\ \A i \in 1 .. b : t[i] = bs[i]
  <2>1. 0 \in Nat /\ 0 <= b /\ b <= Len(bs) /\ 0 + 1 = 1 /\ b - 0 = b
    BY <1>1, <1>3
  <2>2. /\ SubSeq(bs, 0 + 1, b) \in Seq(Int) /\ Len(SubSeq(bs, 0 + 1, b)) = b - 0
        /\ \A i \in 1 .. (b - 0) : SubSeq(bs, 0 + 1, b)[i] = bs[0 + i]
    <3>1. SubSeq(bs, 0 + 1, b) \in Seq(Int) /\ SliceAt(SubSeq(bs, 0 + 1, b), bs, 0, b)
      BY Zenon, <1>3, <2>1, SliceOf
    <3> QED BY Zenon, <3>1 DEF SliceAt
  <2>3. \A i \in 1 .. b : 0 + i = i
    BY <1>3
  <2> QED BY <1>4, <2>1, <2>2, <2>3
<1>6. \A i \in 1 .. b : t[i] = ShiftRight(r, i - 1) % 2
  <2>1. \A i \in 1 .. b : i \in 1 .. Len(bs)
    BY <1>1, <1>3, LenProperties
  <2> QED BY <1>5, <2>1
<1>7. ShiftRight(r, b) = 0
  BY <1>1, <1>2, <1>3, SmallerShiftedAway
<1>8. FromBitsLE(t) = r
  BY <1>2, <1>5, <1>6, <1>7, BitsMakeNumber
<1>9. r % HashOrder = r
  <2>1. HashOrder \in Nat \ {0}
    BY <1>2
  <2> QED BY <2>1, SmallRest
<1> QED BY <1>1, <1>4, <1>8, <1>9

LEMMA BlindedAre ==
  ASSUME NEW d, NEW r \in 0 .. (HashOrder - 1)
  PROVE  /\ Blinded(d, BitsLE(r, BitSize(HashOrder))) = Append(d, r)
         /\ Blinded(d, BitsLSBFirst(ScalarBytes(r, HashOrder))) = Append(d, r)
<1>1. HashOrder \in Nat /\ HashOrder >= 1 /\ r \in Nat /\ r < HashOrder
  BY WindowAssumption
<1>2. PICK b \in Nat : b = BitSize(HashOrder)
  BY <1>1, BitSizeIs
<1>3. PICK u : u = BitsLE(r, b)
  OBVIOUS
<1>4. u \in Seq(Int) /\ Len(u) = b /\ \A k \in 1 .. b : u[k] = ShiftRight(r, k - 1) % 2
  BY <1>1, <1>3, BitsLEIs, BitsAreNumbers
<1>5. FromBitsLE(SubSeq(u, 1, b)) % HashOrder = r
  <2>1. Len(u) >= BitSize(HashOrder) /\ \A p \in 1 .. Len(u) : u[p] = ShiftRight(r, p - 1) % 2
    BY <1>2, <1>4
  <2> QED BY <1>2, <1>4, <2>1, FirstBits
<1>6. PICK v : v = BitsLSBFirst(ScalarBytes(r, HashOrder))
  OBVIOUS
<1>7. /\ v \in Seq(Int) /\ Len(v) >= BitSize(HashOrder)
      /\ \A p \in 1 .. Len(v) : v[p] = ShiftRight(r, p - 1) % 2
  <2>1. v \in Seq(Int) /\ Len(v) >= BitSize(HashOrder) /\ ShowsBits(v, r)
    BY Zenon, <1>1, <1>6, ScalarBitsAre
  <2> QED BY Zenon, <2>1 DEF ShowsBits
<1>8. FromBitsLE(SubSeq(v, 1, b)) % HashOrder = r
  BY <1>2, <1>7, FirstBits
<1> QED BY <1>2, <1>3, <1>5, <1>6, <1>8 DEF Blinded

LEMMA CommitmentIs ==
  ASSUME NEW x \in Seq(Nat), NEW r \in 0 .. (HashOrder - 1)
  PROVE  /\ PedersenCommitVar(x, r) = PedersenCommit(x, r)
         /\ PedersenCommit(x, r) = IF Len(x) * ByteBits > InputSizeBits THEN Panic
                                   ELSE <<Append(PedersenSum(BitsLSBFirst(x)), r)>>
<1>1. PICK L \in Nat, I \in Nat : L = Len(x) /\ I = InputSizeBits /\ L * ByteBits = 8 * L
  BY LenProperties, WindowsHold DEF ByteBits
<1>2. CASE L * ByteBits > I
  <2>1. PedersenEvaluate(x) = Panic
    BY <1>1, <1>2, PedersenEvaluateIs
  <2>2. ~ (L * ByteBits < I)
    BY <1>1, <1>2
  <2>3. PedersenCommit(x, r) = Panic
    BY <1>1, <2>1, <2>2 DEF PedersenCommit
  <2>4. PedersenCommitVar(x, r) = Panic
    BY <1>1, <1>2 DEF PedersenCommitVar
  <2> QED BY <1>1, <1>2, <2>3, <2>4
<1>3. CASE ~ (L * ByteBits > I)
  <2>0. Len(x) * ByteBits <= InputSizeBits /\ ~ (Len(x) > InputSizeBits)
    BY <1>1, <1>3
  <2>1. Padded(x) \in Seq(Nat) /\ SameFilled(Padded(x), x) /\ Len(Padded(x)) = InputBytes
    BY <2>0, PaddedIs
  <2>2. ~ (Len(Padded(x)) * ByteBits > InputSizeBits)
    BY <2>1, WindowsHold DEF ByteBits
  <2>3. PedersenSum(BitsLSBFirst(Padded(x))) = PedersenSum(BitsLSBFirst(x))
    BY <2>1, FilledHash
  <2>4. PICK s, e : s = PedersenSum(BitsLSBFirst(x)) /\ e = PedersenEvaluate(Padded(x))
    OBVIOUS
  <2>5. e = <<s>>
    BY <2>1, <2>2, <2>3, <2>4, PedersenEvaluateIs
  <2>6. e # Panic /\ e[1] = s
    BY <2>5 DEF Panic
  <2>7. PedersenCommit(x, r) = <<Blinded(s, BitsLE(r, BitSize(HashOrder)))>>
    BY <2>0, <2>4, <2>6 DEF PedersenCommit, Padded
  <2>8. PedersenSum(Resized(BitsLSBFirst(x), InputSizeBits)) = s
    BY <2>0, <2>4, PedersenVarSum
  <2>9. PedersenCommitVar(x, r) = <<Blinded(s, BitsLSBFirst(ScalarBytes(r, HashOrder)))>>
    BY <1>1, <1>3, <2>8 DEF PedersenCommitVar
  <2> QED BY <1>1, <1>3, <2>4, <2>7, <2>9, BlindedAre
<1> QED BY <1>2, <1>3

-----------------------------------------------------------------------------
(* Powers of two.                                                          *)
Doubles(h, x, n) ==
  /\ h \in [0 .. n -> Nat] /\ h[0] = x
  /\ \A i \in 1 .. n : h[i] = 2 * h[i - 1]

LEMMA DoublesAgree ==
  ASSUME NEW x \in Nat, NEW n \in Nat, NEW m \in Nat, n <= m,
         NEW d, Doubles(d, x, n), NEW h, Doubles(h, x, m)
  PROVE  d[n] = h[n]
<1> DEFINE T == {i \in Nat : i <= n => d[i] = h[i]}
<1>1. 0 \in T
  BY DEF Doubles
<1>2. ASSUME NEW i \in Nat, i \in T PROVE i + 1 \in T
  <2> SUFFICES ASSUME i + 1 <= n PROVE d[i + 1] = h[i + 1]
    OBVIOUS
  <2>1. PICK k : k = i + 1
    OBVIOUS
  <2>2. k \in 1 .. n /\ k \in 1 .. m /\ k - 1 = i /\ i <= n
    BY <2>1
  <2>3. d[i] = h[i]
    BY <1>2, <2>2
  <2>4. d[k] = 2 * d[i] /\ h[k] = 2 * h[i]
    BY <2>2 DEF Doubles
  <2> QED BY <2>1, <2>3, <2>4
<1>3. n \in T
  <2> HIDE DEF T
  <2> QED BY <1>1, <1>2, InductionOnSet
<1> QED BY <1>3

LEMMA DoubleLoop ==
  ASSUME NEW x \in Nat, NEW N \in Nat
  PROVE  \E h : Doubles(h, x, N) /\ h[N] = ShiftLeft(x, N)
<1> DEFINE F(h) == [i \in 0 .. N |-> IF i = 0 THEN x ELSE 2 * h[i - 1]]
           op == [p \in Nat \X (1 .. N) |-> 2 * p[1]]
           moved == CHOOSE h : h = F(h)
<1>1. op \in Steps(Nat, N)
  BY DEF Steps
<1>2. \A y \in Nat : \A i \in 1 .. N : op[<<y, i>>] = 2 * y
  OBVIOUS
<1> HIDE DEF op
<1>3. PICK e : e \in [0 .. N -> Nat] /\ e[0] = x /\ \A i \in 1 .. N : e[i] = op[<<e[i - 1], i>>]
  <2>1. \E h : Repeats(h, Nat, N, x, op)
    BY Zenon, <1>1, RecursionExists
  <2> QED BY <2>1 DEF Repeats
<1>4. ASSUME NEW i \in 1 .. N PROVE e[i] = 2 * e[i - 1]
  <2>1. i - 1 \in 0 .. N
    OBVIOUS
  <2>2. e[i - 1] \in Nat
    BY <1>3, <2>1
  <2> QED BY <1>2, <1>3, <2>2
<1>5. e = F(e)
  <2>1. \A i \in 0 .. N : i # 0 => i \in 1 .. N
    OBVIOUS
  <2>2. \A i \in 0 .. N : e[i] = F(e)[i]
    BY <1>3, <1>4, <2>1
  <2>3. e = [i \in 0 .. N |-> e[i]] /\ F(e) = [i \in 0 .. N |-> F(e)[i]]
    BY <1>3
  <2> HIDE DEF F
  <2> QED BY <2>2, <2>3
<1>6. moved = F(moved)
  <2> HIDE DEF F
  <2> QED BY <1>5
<1>7. ShiftLeft(x, N) = moved[N]
  BY DEF ShiftLeft
<1> HIDE DEF moved
<1>8. moved[0] = x
  <2>1. 0 \in 0 .. N
    OBVIOUS
  <2> QED BY <1>6, <2>1
<1>9. ASSUME NEW i \in 1 .. N PROVE moved[i] = 2 * moved[i - 1]
  <2>1. i \in 0 .. N /\ i # 0
    OBVIOUS
  <2>2. \A h : i \in 0 .. N /\ i # 0 => F(h)[i] = 2 * h[i - 1]
    OBVIOUS
  <2> HIDE DEF F
  <2> QED BY <1>6, <2>1, <2>2
<1> HIDE DEF F
<1> DEFINE T == {i \in Nat : i <= N => moved[i] = e[i]}
<1>10. 0 \in T
  BY <1>3, <1>8
<1>11. ASSUME NEW i \in Nat, i \in T PROVE i + 1 \in T
  <2> SUFFICES ASSUME i + 1 <= N PROVE moved[i + 1] = e[i + 1]
    OBVIOUS
  <2>1. PICK k : k = i + 1
    OBVIOUS
  <2>2. k \in 1 .. N /\ k - 1 = i /\ i <= N
    BY <2>1
  <2>3. moved[i] = e[i]
    BY <1>11, <2>2
  <2>4. moved[k] = 2 * moved[i] /\ e[k] = 2 * e[i]
    BY <1>4, <1>9, <2>2
  <2> QED BY <2>1, <2>3, <2>4
<1>12. N \in T
  <2> HIDE DEF T
  <2> QED BY <1>10, <1>11, InductionOnSet
<1>13. e[N] = ShiftLeft(x, N)
  BY <1>7, <1>12
<1>14. Doubles(e, x, N)
  BY <1>3, <1>4 DEF Doubles
<1> QED BY <1>13, <1>14

LEMMA ShiftLeftIs ==
  ASSUME NEW x \in Nat, NEW n \in Nat
  PROVE  /\ ShiftLeft(x, n) \in Nat /\ ShiftLeft(x, 0) = x
         /\ ShiftLeft(x, n + 1) = 2 * ShiftLeft(x, n)
<1>1. PICK m \in Nat : m = n + 1
  OBVIOUS
<1>2. PICK d : Doubles(d, x, n) /\ d[n] = ShiftLeft(x, n)
  BY Zenon, DoubleLoop
<1>3. PICK h : Doubles(h, x, m) /\ h[m] = ShiftLeft(x, m)
  BY Zenon, DoubleLoop
<1>4. d[n] = h[n]
  BY <1>1, <1>2, <1>3, DoublesAgree
<1>5. m \in 1 .. m /\ m - 1 = n /\ n \in 0 .. n
  BY <1>1
<1>6. h[m] = 2 * h[n] /\ d[n] \in Nat
  BY <1>2, <1>3, <1>5 DEF Doubles
<1>7. ShiftLeft(x, 0) = x
  <2>1. 0 \in Nat
    OBVIOUS
  <2>2. \E z : Doubles(z, x, 0) /\ z[0] = ShiftLeft(x, 0)
    BY Zenon, <2>1, DoubleLoop
  <2> QED BY <2>2 DEF Doubles
<1> QED BY <1>1, <1>2, <1>3, <1>4, <1>6, <1>7

(* All powers, as a function.                                              *)
Powers == [n \in Nat |-> ShiftLeft(1, n)]
LEMMA PowersAre ==
  /\ Powers \in [Nat -> Nat] /\ Powers[0] = 1
  /\ \A n \in Nat : /\ Powers[n] = ShiftLeft(1, n) /\ Powers[n] >= 1
                    /\ Powers[n + 1] = 2 * Powers[n]
<1>1. \A n \in Nat : ShiftLeft(1, n) \in Nat
  BY ShiftLeftIs
<1>2. \A n \in Nat : Powers[n] = ShiftLeft(1, n)
  BY DEF Powers
<1>3. ASSUME NEW n \in Nat PROVE Powers[n + 1] = 2 * Powers[n]
  <2>1. PICK m \in Nat : m = n + 1
    OBVIOUS
  <2>2. ShiftLeft(1, m) = 2 * ShiftLeft(1, n)
    BY <2>1, ShiftLeftIs
  <2> QED BY <1>2, <2>1, <2>2
<1>4. Powers[0] = 1
  BY <1>2, ShiftLeftIs
<1>5. Powers \in [Nat -> Nat]
  BY <1>1 DEF Powers
<1> DEFINE T == {n \in Nat : Powers[n] >= 1}
<1>6. 0 \in T
  BY <1>4
<1>7. ASSUME NEW n \in Nat, n \in T PROVE n + 1 \in T
  <2>1. Powers[n] \in Nat /\ Powers[n] >= 1 /\ Powers[n + 1] = 2 * Powers[n]
    BY <1>3, <1>5, <1>7
  <2> QED BY <2>1
<1>8. ASSUME NEW n \in Nat PROVE Powers[n] >= 1
  <2>1. n \in T
    <3> HIDE DEF T
    <3> QED BY <1>6, <1>7, InductionOnSet
  <2> QED BY <2>1
<1> QED BY <1>2, <1>3, <1>4, <1>5, <1>8

(* A number below a power is shifted away.                                 *)
LEMMA BelowShiftedAway ==
  ASSUME NEW n \in Nat, NEW x \in Nat, x < ShiftLeft(1, n)
  PROVE  ShiftRight(x, n) = 0
<1>1. PICK f, p : f = Shifted(x) /\ p = Powers
  OBVIOUS
<1>2. /\ f \in [Nat -> Nat] /\ f[0] = x
      /\ \A i \in Nat : f[i] = ShiftRight(x, i) /\ f[i + 1] = f[i] \div 2
  BY <1>1, ShiftedIs
<1>3. /\ p \in [Nat -> Nat] /\ p[0] = 1 /\ p[n] = ShiftLeft(1, n)
      /\ \A i \in Nat : p[i + 1] = 2 * p[i]
  BY <1>1, PowersAre
<1> DEFINE T == {i \in Nat : i <= n => f[i] < p[n - i]}
<1>4. 0 \in T
  BY <1>2, <1>3
<1>5. ASSUME NEW i \in Nat, i \in T PROVE i + 1 \in T
  <2> SUFFICES ASSUME i + 1 <= n PROVE f[i + 1] < p[n - (i + 1)]
    OBVIOUS
  <2>1. PICK j \in Nat : j = n - (i + 1) /\ j + 1 = n - i /\ i <= n
    OBVIOUS
  <2>2. PICK a \in Nat, b \in Nat : a = f[i] /\ b = p[j] /\ a < 2 * b
    <3>1. f[i] \in Nat /\ p[j] \in Nat /\ p[j + 1] = 2 * p[j]
      BY <1>2, <1>3
    <3>2. f[i] < p[n - i]
      BY <1>5, <2>1
    <3>3. f[i] < 2 * p[j]
      BY <2>1, <3>1, <3>2
    <3> QED BY <3>1, <3>3
  <2>3. a \div 2 < b
    BY <2>2
  <2> QED BY <1>2, <2>1, <2>2, <2>3
<1>6. n \in T
  <2> HIDE DEF T
  <2> QED BY <1>4, <1>5, InductionOnSet
<1>7. f[n] < p[n - n] /\ n - n = 0
  BY <1>6
<1> QED BY <1>2, <1>3, <1>7

(* The value of bits is below the power of their number; from it the bits  *)
(* can be told.                                                            *)
LEMMA BitsBelow ==
  ASSUME NEW s \in Seq(Bits)
  PROVE  FromBitsLE(s) \in Nat /\ FromBitsLE(s) < ShiftLeft(1, Len(s))
<1>1. PICK L, p : L = Len(s) /\ p = Powers
  OBVIOUS
<1>2. L \in Nat /\ \A i \in 1 .. L : s[i] \in {0, 1}
  BY <1>1, LenProperties, ElementOfSeq DEF Bits
<1>3. PICK v : /\ v \in [0 .. L -> Int] /\ v[0] = 0 /\ v[L] = FromBitsLE(s)
               /\ \A n \in 1 .. L : v[n] = s[L + 1 - n] + 2 * v[n - 1]
  <2>1. \E v : BitValues(v, s) /\ v[Len(s)] = FromBitsLE(s)
    BY Zenon, BitsAreNumbers, ValueLoop
  <2> QED BY Zenon, <1>1, <2>1 DEF BitValues
<1>4. /\ p \in [Nat -> Nat] /\ p[0] = 1 /\ p[L] = ShiftLeft(1, L)
      /\ \A i \in Nat : p[i + 1] = 2 * p[i]
  BY <1>1, <1>2, PowersAre
<1> DEFINE T == {n \in Nat : n <= L => v[n] >= 0 /\ v[n] < p[n]}
<1>5. 0 \in T
  <2>1. 0 \in Nat /\ 0 <= 0 /\ 0 < 1
    OBVIOUS
  <2>2. v[0] >= 0 /\ v[0] < p[0]
    BY <1>3, <1>4, <2>1
  <2> QED BY <2>1, <2>2
<1>6. ASSUME NEW n \in Nat, n \in T PROVE n + 1 \in T
  <2> SUFFICES ASSUME n + 1 <= L PROVE v[n + 1] >= 0 /\ v[n + 1] < p[n + 1]
    OBVIOUS
  <2>1. PICK k, i : k = n + 1 /\ i = L - n
    OBVIOUS
  <2>2. k \in 1 .. L /\ k - 1 = n /\ L + 1 - k = i /\ i \in 1 .. L /\ n <= L /\ n \in 0 .. L
    BY <1>2, <2>1
  <2>3. v[k] = s[i] + 2 * v[n] /\ s[i] \in {0, 1} /\ p[k] = 2 * p[n]
    BY <1>2, <1>3, <1>4, <2>1, <2>2
  <2>4. v[n] \in Int /\ p[n] \in Nat /\ v[n] >= 0 /\ v[n] < p[n]
    BY <1>3, <1>4, <1>6, <2>2
  <2> QED BY <2>1, <2>3, <2>4
<1>7. L \in T
  <2> HIDE DEF T
  <2> QED BY <1>2, <1>5, <1>6, InductionOnSet
<1>8. v[L] \in Int /\ v[L] >= 0 /\ v[L] < p[L]
  <2>1. L \in 0 .. L
    BY <1>2
  <2> QED BY <1>3, <1>7, <2>1
<1> QED BY <1>1, <1>3, <1>4, <1>8

LEMMA ParityTold ==
  ASSUME NEW a \in {0, 1}, NEW b \in {0, 1}, NEW x \in Int, NEW y \in Int,
         a + 2 * x = b + 2 * y
  PROVE  a = b /\ x = y
OBVIOUS

LEMMA BitsTold ==
  ASSUME NEW s \in Seq(Bits), NEW t \in Seq(Bits), Len(s) = Len(t), FromBitsLE(s) = FromBitsLE(t)
  PROVE  s = t
<1>1. PICK L : L = Len(s) /\ L = Len(t)
  OBVIOUS
<1>2. L \in Nat /\ \A i \in 1 .. L : s[i] \in {0, 1} /\ t[i] \in {0, 1}
  BY <1>1, LenProperties, ElementOfSeq DEF Bits
<1>3. PICK v : /\ v \in [0 .. L -> Int] /\ v[L] = FromBitsLE(s)
               /\ \A n \in 1 .. L : v[n] = s[L + 1 - n] + 2 * v[n - 1]
  <2>1. \E v : BitValues(v, s) /\ v[Len(s)] = FromBitsLE(s)
    BY Zenon, BitsAreNumbers, ValueLoop
  <2> QED BY Zenon, <1>1, <2>1 DEF BitValues
<1>4. PICK w : /\ w \in [0 .. L -> Int] /\ w[L] = FromBitsLE(t)
               /\ \A n \in 1 .. L : w[n] = t[L + 1 - n] + 2 * w[n - 1]
  <2>1. \E w : BitValues(w, t) /\ w[Len(t)] = FromBitsLE(t)
    BY Zenon, BitsAreNumbers, ValueLoop
  <2> QED BY Zenon, <1>1, <2>1 DEF BitValues
<1> DEFINE T == {i \in Nat : i <= L => v[L - i] = w[L - i] /\ \A j \in 1 .. i : s[j] = t[j]}
<1>5. 0 \in T
  BY <1>2, <1>3, <1>4
<1>6. ASSUME NEW i \in Nat, i \in T PROVE i + 1 \in T
  <2> SUFFICES ASSUME i + 1 <= L
               PROVE  v[L - (i + 1)] = w[L - (i + 1)] /\ \A j \in 1 .. (i + 1) : s[j] = t[j]
    OBVIOUS
  <2>1. PICK n, m, k : n = L - i /\ m = L - (i + 1) /\ k = i + 1
    OBVIOUS
  <2>2. n \in 1 .. L /\ m \in 0 .. L /\ n - 1 = m /\ L + 1 - n = k /\ k \in 1 .. L /\ i <= L
    BY <1>2, <2>1
  <2>3. v[n] = s[k] + 2 * v[m] /\ w[n] = t[k] + 2 * w[m]
    BY <1>3, <1>4, <2>2
  <2>4. v[n] = w[n] /\ \A j \in 1 .. i : s[j] = t[j]
    BY <1>6, <2>1, <2>2
  <2>5. v[m] \in Int /\ w[m] \in Int /\ s[k] \in {0, 1} /\ t[k] \in {0, 1}
    BY <1>2, <1>3, <1>4, <2>2
  <2>6. s[k] = t[k] /\ v[m] = w[m]
    <3>1. s[k] + 2 * v[m] = t[k] + 2 * w[m]
      BY <2>3, <2>4
    <3>2. PICK a, b, x, y : a = s[k] /\ b = t[k] /\ x = v[m] /\ y = w[m]
      OBVIOUS
    <3>3. a \in {0, 1} /\ b \in {0, 1} /\ x \in Int /\ y \in Int /\ a + 2 * x = b + 2 * y
      BY Zenon, <2>5, <3>1, <3>2
    <3>4. a = b /\ x = y
      BY <3>3, ParityTold
    <3> QED BY Zenon, <3>2, <3>4
  <2>7. \A j \in 1 .. (i + 1) : j = k \/ j \in 1 .. i
    BY <2>1
  <2> QED BY <2>1, <2>4, <2>6, <2>7
<1>7. L \in T
  <2> HIDE DEF T
  <2> QED BY <1>2, <1>5, <1>6, InductionOnSet
<1>8. \A j \in 1 .. L : s[j] = t[j]
  BY <1>2, <1>7
<1> QED BY <1>1, <1>8, SeqEqual

-----------------------------------------------------------------------------
(* Where an element lies: in window w of n, at k.                          *)
LEMMA WindowOf ==
  ASSUME NEW n \in Nat \ {0}, NEW N \in Nat \ {0}, NEW p \in Nat \ {0}, p <= n * N
  PROVE  \E w \in 1 .. N : \E k \in 1 .. n : p = (w - 1) * n + k
<1>1. PICK q \in Int, r \in Int : q = (p - 1) \div n /\ r = (p - 1) % n
  OBVIOUS
<1>2. r \in 0 .. (n - 1) /\ p - 1 = n * q + r
  BY <1>1
<1>3. q >= 0
  <2>1. q <= -1 => n * q <= -n
    OBVIOUS
  <2> QED BY <1>2, <2>1
<1>4. q < N
  <2>1. q >= N => n * q >= n * N
    OBVIOUS
  <2> QED BY <1>2, <2>1
<1>5. PICK w, k : w = q + 1 /\ k = r + 1
  OBVIOUS
<1>6. w \in 1 .. N /\ k \in 1 .. n
  BY <1>2, <1>3, <1>4, <1>5
<1>7. (w - 1) * n + k = p
  <2>1. w - 1 = q
    BY <1>5
  <2>2. (w - 1) * n = n * q
    BY <2>1
  <2>3. n * q \in Int
    OBVIOUS
  <2> QED BY <1>2, <1>5, <2>2, <2>3
<1> QED BY <1>6, <1>7

(* Sequences whose windows are the same agree but for zeros at the end.    *)
LEMMA SameWindows ==
  ASSUME NEW X, 0 \in X, NEW s \in Seq(X), NEW t \in Seq(X), NEW n \in Nat \ {0}, NEW N \in Nat \ {0},
         Len(s) <= n * N, Len(t) <= n * N,
         \A w \in 1 .. N : Window(s, n, w) = Window(t, n, w)
  PROVE  SameFilled(s, t)
<1> SUFFICES ASSUME NEW p \in Nat \ {0} PROVE ValueAt(s, p) = ValueAt(t, p)
  BY DEF SameFilled
<1>0. Len(s) \in Nat /\ Len(t) \in Nat /\ n * N \in Nat
  BY LenProperties
<1>1. CASE p <= n * N
  <2>1. PICK w \in 1 .. N, k \in 1 .. n : p = (w - 1) * n + k
    BY Zenon, <1>1, WindowOf
  <2>3. Window(s, n, w)[k] = ValueAt(s, p) /\ Window(t, n, w)[k] = ValueAt(t, p)
    BY <2>1 DEF Window
  <2> QED BY <2>3
<1>2. CASE ~ (p <= n * N)
  <2>1. ~ (p <= Len(s)) /\ ~ (p <= Len(t))
    BY <1>0, <1>2
  <2> QED BY <2>1 DEF ValueAt
<1> QED BY <1>1, <1>2

(* From a sum the windows of the bits are told.                            *)
LEMMA SumTellsWindows ==
  ASSUME NEW s \in Seq(Bits), NEW t \in Seq(Bits),
         Len(s) <= InputSizeBits, Len(t) <= InputSizeBits, PedersenSum(s) = PedersenSum(t)
  PROVE  SameFilled(s, t)
<1>1. /\ HashOrder \in Nat \ {0} /\ WindowSize \in Nat \ {0} /\ NumWindows \in Nat \ {0}
      /\ ShiftLeft(1, WindowSize) <= HashOrder
  BY WindowAssumption
<1>2. s \in Seq(Int) /\ t \in Seq(Int) /\ 0 \in Bits
  BY BitsAreNumbers DEF Bits
<1>3. WindowSums(s) = WindowSums(t)
  BY <1>2, PedersenSumIs
<1>4. ASSUME NEW w \in 1 .. NumWindows PROVE Window(s, WindowSize, w) = Window(t, WindowSize, w)
  <2>1. PICK a, b : a = Window(s, WindowSize, w) /\ b = Window(t, WindowSize, w)
    OBVIOUS
  <2>2. w \in Nat \ {0}
    BY <1>1
  <2>3. a \in Seq(Bits) /\ Len(a) = WindowSize /\ b \in Seq(Bits) /\ Len(b) = WindowSize
    BY <1>1, <1>2, <2>1, <2>2, WindowIs
  <2>4. WindowScalar(a) = WindowScalar(b)
    BY <1>3, <2>1 DEF WindowSums
  <2>5. PICK x, y, z : x = FromBitsLE(a) /\ y = FromBitsLE(b) /\ z = ShiftLeft(1, WindowSize)
    OBVIOUS
  <2>6. x \in Nat /\ x < z /\ y \in Nat /\ y < z /\ z \in Nat
    <3>1. 1 \in Nat /\ WindowSize \in Nat
      BY <1>1
    <3> QED BY <2>3, <2>5, <3>1, BitsBelow, ShiftLeftIs
  <2>7. x \in 0 .. (HashOrder - 1) /\ y \in 0 .. (HashOrder - 1)
    BY <1>1, <2>5, <2>6
  <2>8. x % HashOrder = x /\ y % HashOrder = y
    BY <1>1, <2>7, SmallRest
  <2>9. x = y
    BY <2>4, <2>5, <2>8 DEF WindowScalar
  <2> QED BY <2>1, <2>3, <2>5, <2>9, BitsTold
<1> QED BY <1>1, <1>2, <1>4, SameWindows DEF InputSizeBits

(* Bytes are told from their bits.                                         *)
LEMMA ByteIsItsBits ==
  ASSUME NEW b \in ByteValues
  PROVE  FromBitsLE(BitsLE(b, 8)) = b
<1>1. ShiftLeft(1, 8) = 256
  <2>0. 1 \in Nat
    OBVIOUS
  <2>1. ShiftLeft(1, 0) = 1 /\ \A n \in Nat : ShiftLeft(1, n + 1) = 2 * ShiftLeft(1, n)
    BY <2>0, ShiftLeftIs
  <2>2. PICK p : p = [n \in Nat |-> ShiftLeft(1, n)]
    OBVIOUS
  <2>3. p[0] = 1 /\ \A n \in Nat : p[n + 1] = 2 * p[n]
    BY <2>1, <2>2
  <2>4. p[1] = 2 /\ p[2] = 4 /\ p[3] = 8 /\ p[4] = 16
    BY <2>3
  <2>5. p[5] = 32 /\ p[6] = 64 /\ p[7] = 128 /\ p[8] = 256
    BY <2>3, <2>4
  <2> QED BY <2>2, <2>5
<1>2. b \in Nat /\ b < 256 /\ 8 \in Nat
  BY DEF ByteValues
<1>3. ShiftRight(b, 8) = 0
  BY <1>1, <1>2, BelowShiftedAway
<1>4. /\ BitsLE(b, 8) \in Seq(Bits) /\ Len(BitsLE(b, 8)) = 8
      /\ \A k \in 1 .. 8 : BitsLE(b, 8)[k] = ShiftRight(b, k - 1) % 2
  BY <1>2, BitsLEIs
<1> QED BY <1>2, <1>3, <1>4, BitsMakeNumber, BitsAreNumbers

LEMMA BitsTellBytes ==
  ASSUME NEW x \in Seq(ByteValues), NEW y \in Seq(ByteValues),
         SameFilled(BitsLSBFirst(x), BitsLSBFirst(y))
  PROVE  SameFilled(x, y)
<1> SUFFICES ASSUME NEW i \in Nat \ {0} PROVE ValueAt(x, i) = ValueAt(y, i)
  BY DEF SameFilled
<1>1. x \in Seq(Nat) /\ y \in Seq(Nat) /\ 0 \in ByteValues
  BY BytesAreNumbers DEF ByteValues
<1>2. PICK a, b : a = ValueAt(x, i) /\ b = ValueAt(y, i)
  OBVIOUS
<1>3. a \in ByteValues /\ b \in ByteValues
  BY <1>1, <1>2, ValueInSet
<1>4. ASSUME NEW k \in 1 .. 8 PROVE ShiftRight(a, k - 1) % 2 = ShiftRight(b, k - 1) % 2
  <2>1. 8 * (i - 1) + k \in Nat \ {0}
    OBVIOUS
  <2>2. ValueAt(BitsLSBFirst(x), 8 * (i - 1) + k) = ValueAt(BitsLSBFirst(y), 8 * (i - 1) + k)
    BY Zenon, <2>1 DEF SameFilled
  <2>3. /\ ValueAt(BitsLSBFirst(x), 8 * (i - 1) + k) = ShiftRight(a, k - 1) % 2
        /\ ValueAt(BitsLSBFirst(y), 8 * (i - 1) + k) = ShiftRight(b, k - 1) % 2
    BY <1>1, <1>2, BitOfBytes
  <2> QED BY <2>2, <2>3
<1>5. BitsLE(a, 8) = BitsLE(b, 8)
  BY <1>4 DEF BitsLE
<1> QED BY <1>2, <1>3, <1>5, ByteIsItsBits

-----------------------------------------------------------------------------
(* Two calls that return: the same digest exactly for the same input.      *)
Binds(d1, d2, c1, c2) == d1 # Panic /\ d2 # Panic => (d1 = d2 <=> c1 = c2)

LEMMA SameFilledBack ==
  ASSUME NEW s, NEW t, NEW u, SameFilled(s, u), SameFilled(t, u)
  PROVE  SameFilled(s, t)
BY DEF SameFilled

LEMMA ResizedTells ==
  ASSUME NEW x \in Seq(ByteValues), NEW y \in Seq(ByteValues),
         Len(x) <= InputBytes, Len(y) <= InputBytes
  PROVE  SameFilled(x, y) <=> Resized(x, InputBytes) = Resized(y, InputBytes)
<1>1. 0 \in ByteValues /\ InputBytes \in Nat
  BY WindowsHold DEF ByteValues
<1>2. SameFilled(x, y) => Resized(x, InputBytes) = Resized(y, InputBytes)
  BY <1>1, SameWhenResized
<1>3. SameFilled(Resized(x, InputBytes), x) /\ SameFilled(Resized(y, InputBytes), y)
  BY <1>1, ResizedSame
<1> QED BY <1>2, <1>3 DEF SameFilled

LEMMA ResizedStays ==
  ASSUME NEW x \in Seq(ByteValues), NEW n \in Nat, Len(x) = n
  PROVE  Resized(x, n) = x
<1>1. 0 \in ByteValues
  BY DEF ByteValues
<1>2. /\ Resized(x, n) \in Seq(ByteValues) /\ Len(Resized(x, n)) = n
      /\ \A p \in 1 .. n : Resized(x, n)[p] = ValueAt(x, p)
  BY <1>1, ResizedIs
<1>3. \A p \in 1 .. n : Resized(x, n)[p] = x[p]
  BY <1>2 DEF ValueAt
<1> QED BY <1>2, <1>3, SeqEqual

LEMMA ShortEnough ==
  ASSUME NEW L \in Nat, ~ (L * ByteBits > InputSizeBits)
  PROVE  L <= InputBytes
<1>1. PICK a, b : a = L * ByteBits /\ b = InputSizeBits
  OBVIOUS
<1>2. a \in Nat /\ b \in Nat
  BY <1>1, BytesFit, WindowsHold
<1>3. a <= b
  BY <1>1, <1>2
<1> QED BY <1>1, <1>3, BytesFit

LEMMA SumBinds ==
  ASSUME NEW x \in Seq(ByteValues), NEW y \in Seq(ByteValues),
         Len(x) <= InputBytes, Len(y) <= InputBytes
  PROVE  PedersenSum(BitsLSBFirst(x)) = PedersenSum(BitsLSBFirst(y))
           <=> Resized(x, InputBytes) = Resized(y, InputBytes)
<1>1. x \in Seq(Nat) /\ y \in Seq(Nat)
  BY BytesAreNumbers
<1>2. SameFilled(x, y) => PedersenSum(BitsLSBFirst(x)) = PedersenSum(BitsLSBFirst(y))
  BY <1>1, FilledHash
<1>3. PedersenSum(BitsLSBFirst(x)) = PedersenSum(BitsLSBFirst(y)) => SameFilled(x, y)
  <2> SUFFICES ASSUME PedersenSum(BitsLSBFirst(x)) = PedersenSum(BitsLSBFirst(y))
               PROVE  SameFilled(x, y)
    OBVIOUS
  <2>1. PICK s, t : s = BitsLSBFirst(x) /\ t = BitsLSBFirst(y)
    OBVIOUS
  <2>2. s \in Seq(Bits) /\ Len(s) = 8 * Len(x) /\ t \in Seq(Bits) /\ Len(t) = 8 * Len(y)
    BY <1>1, <2>1, BytesAsBits
  <2>3. Len(x) \in Nat /\ Len(y) \in Nat
    BY LenProperties
  <2>4. 8 * Len(x) <= InputSizeBits /\ 8 * Len(y) <= InputSizeBits
    BY <2>3, BytesFit
  <2>5. SameFilled(s, t)
    BY <2>1, <2>2, <2>4, SumTellsWindows
  <2> QED BY <2>1, <2>5, BitsTellBytes
<1> QED BY <1>2, <1>3, ResizedTells

LEMMA PedersenBinds ==
  ASSUME NEW x \in Seq(ByteValues), NEW y \in Seq(ByteValues)
  PROVE  Binds(PedersenEvaluate(x), PedersenEvaluate(y),
               Resized(x, InputBytes), Resized(y, InputBytes))
<1> SUFFICES ASSUME PedersenEvaluate(x) # Panic, PedersenEvaluate(y) # Panic
             PROVE  PedersenEvaluate(x) = PedersenEvaluate(y)
                      <=> Resized(x, InputBytes) = Resized(y, InputBytes)
  BY DEF Binds
<1>1. x \in Seq(Nat) /\ y \in Seq(Nat) /\ Len(x) \in Nat /\ Len(y) \in Nat
  BY BytesAreNumbers, LenProperties
<1>2. ~ (Len(x) * ByteBits > InputSizeBits) /\ ~ (Len(y) * ByteBits > InputSizeBits)
  BY <1>1, PedersenEvaluateIs
<1>3. Len(x) <= InputBytes /\ Len(y) <= InputBytes
  BY <1>1, <1>2, ShortEnough
<1>4. /\ PedersenEvaluate(x) = <<PedersenSum(BitsLSBFirst(x))>>
      /\ PedersenEvaluate(y) = <<PedersenSum(BitsLSBFirst(y))>>
  BY <1>1, <1>2, PedersenEvaluateIs
<1>5. PedersenEvaluate(x) = PedersenEvaluate(y)
        <=> PedersenSum(BitsLSBFirst(x)) = PedersenSum(BitsLSBFirst(y))
  BY <1>4
<1> QED BY <1>3, <1>5, SumBinds

(* Two inputs: what the buffer takes of them.                              *)
LEMMA BufferBytes ==
  ASSUME NEW l \in Seq(ByteValues), NEW r \in Seq(ByteValues)
  PROVE  /\ Buffer(l, r, InputBytes) = Resized(l \o r, InputBytes)
         /\ Buffer(l, r, InputBytes) \in Seq(ByteValues) /\ Len(Buffer(l, r, InputBytes)) = InputBytes
         /\ Resized(Buffer(l, r, InputBytes), InputBytes) = Buffer(l, r, InputBytes)
<1>1. 0 \in ByteValues /\ InputBytes \in Nat /\ l \o r \in Seq(ByteValues)
  BY WindowsHold, ConcatProperties DEF ByteValues
<1>2. Buffer(l, r, InputBytes) = Resized(l \o r, InputBytes)
  BY DEF Buffer
<1>3. Resized(l \o r, InputBytes) \in Seq(ByteValues) /\ Len(Resized(l \o r, InputBytes)) = InputBytes
  BY <1>1, ResizedIs
<1> QED BY <1>1, <1>2, <1>3, ResizedStays

LEMMA Pedersen2Binds ==
  ASSUME NEW l1 \in Seq(ByteValues), NEW r1 \in Seq(ByteValues),
         NEW l2 \in Seq(ByteValues), NEW r2 \in Seq(ByteValues)
  PROVE  Binds(Pedersen2(l1, r1), Pedersen2(l2, r2),
               Resized(l1 \o r1, InputBytes), Resized(l2 \o r2, InputBytes))
<1> SUFFICES ASSUME Pedersen2(l1, r1) # Panic, Pedersen2(l2, r2) # Panic
             PROVE  Pedersen2(l1, r1) = Pedersen2(l2, r2)
                      <=> Resized(l1 \o r1, InputBytes) = Resized(l2 \o r2, InputBytes)
  BY DEF Binds
<1>1. PICK x, y : x = Buffer(l1, r1, InputBytes) /\ y = Buffer(l2, r2, InputBytes)
  OBVIOUS
<1>2. InputBytes = (2 * HalfInputSizeBits) \div ByteBits
  <2>1. 0 \in Nat
    OBVIOUS
  <2> QED BY <2>1, HalvesFit
<1>3. Pedersen2(l1, r1) = PedersenEvaluate(x) /\ Pedersen2(l2, r2) = PedersenEvaluate(y)
  BY <1>1, <1>2 DEF Pedersen2
<1>4. /\ x \in Seq(ByteValues) /\ Resized(x, InputBytes) = x /\ x = Resized(l1 \o r1, InputBytes)
      /\ y \in Seq(ByteValues) /\ Resized(y, InputBytes) = y /\ y = Resized(l2 \o r2, InputBytes)
  BY <1>1, BufferBytes
<1>5. Binds(PedersenEvaluate(x), PedersenEvaluate(y),
            Resized(x, InputBytes), Resized(y, InputBytes))
  BY <1>4, PedersenBinds
<1> QED BY <1>3, <1>4, <1>5 DEF Binds

LEMMA AppendTold ==
  ASSUME NEW X, NEW s \in Seq(X), NEW t \in Seq(X), NEW a \in X, NEW b \in X
  PROVE  Append(s, a) = Append(t, b) <=> s = t /\ a = b
<1> SUFFICES ASSUME Append(s, a) = Append(t, b) PROVE s = t /\ a = b
  OBVIOUS
<1>1. Len(s) \in Nat /\ Len(t) \in Nat
  BY LenProperties
<1>2. /\ Len(Append(s, a)) = Len(s) + 1 /\ Append(s, a)[Len(s) + 1] = a
      /\ \A i \in 1 .. Len(s) : Append(s, a)[i] = s[i]
  BY AppendProperties
<1>3. /\ Len(Append(t, b)) = Len(t) + 1 /\ Append(t, b)[Len(t) + 1] = b
      /\ \A i \in 1 .. Len(t) : Append(t, b)[i] = t[i]
  BY AppendProperties
<1>4. Len(s) = Len(t)
  BY <1>1, <1>2, <1>3
<1>5. \A i \in 1 .. Len(s) : s[i] = t[i]
  BY <1>2, <1>3, <1>4
<1> QED BY <1>2, <1>3, <1>4, <1>5, SeqEqual

LEMMA CommitmentBinds ==
  ASSUME NEW x \in Seq(ByteValues), NEW y \in Seq(ByteValues),
         NEW a \in 0 .. (HashOrder - 1), NEW b \in 0 .. (HashOrder - 1)
  PROVE  Binds(PedersenCommit(x, a), PedersenCommit(y, b),
               <<Resized(x, InputBytes), a>>, <<Resized(y, InputBytes), b>>)
<1> SUFFICES ASSUME PedersenCommit(x, a) # Panic, PedersenCommit(y, b) # Panic
             PROVE  PedersenCommit(x, a) = PedersenCommit(y, b)
                      <=> <<Resized(x, InputBytes), a>> = <<Resized(y, InputBytes), b>>
  BY DEF Binds
<1>1. x \in Seq(Nat) /\ y \in Seq(Nat) /\ Len(x) \in Nat /\ Len(y) \in Nat
  BY BytesAreNumbers, LenProperties
<1>2. ~ (Len(x) * ByteBits > InputSizeBits) /\ ~ (Len(y) * ByteBits > InputSizeBits)
  BY <1>1, CommitmentIs
<1>3. Len(x) <= InputBytes /\ Len(y) <= InputBytes
  BY <1>1, <1>2, ShortEnough
<1>4. PICK s, t : s = PedersenSum(BitsLSBFirst(x)) /\ t = PedersenSum(BitsLSBFirst(y))
  OBVIOUS
<1>5. PedersenCommit(x, a) = <<Append(s, a)>> /\ PedersenCommit(y, b) = <<Append(t, b)>>
  BY <1>1, <1>2, <1>4, CommitmentIs
<1>6. s \in Seq(Int) /\ t \in Seq(Int)
  <2>1. /\ HashOrder \in Nat \ {0} /\ WindowSize \in Nat \ {0} /\ NumWindows \in Nat \ {0}
        /\ 0 \in Bits
    BY WindowAssumption DEF Bits
  <2>2. ASSUME NEW u \in Seq(Bits), NEW w \in 1 .. NumWindows
        PROVE  WindowScalar(Window(u, WindowSize, w)) \in Int
    <3>1. w \in Nat \ {0}
      BY <2>1
    <3>2. Window(u, WindowSize, w) \in Seq(Bits)
      BY <2>1, <3>1, WindowIs
    <3>3. FromBitsLE(Window(u, WindowSize, w)) \in Nat
      BY <3>2, BitsBelow
    <3> QED BY <2>1, <3>3 DEF WindowScalar
  <2>3. ASSUME NEW u \in Seq(Bits) PROVE PedersenSum(u) \in Seq(Int)
    <3>1. PedersenSum(u) = WindowSums(u)
      BY BitsAreNumbers, PedersenSumIs
    <3>2. PICK g : g = [w \in 1 .. NumWindows |-> WindowScalar(Window(u, WindowSize, w))]
      OBVIOUS
    <3>3. g \in [1 .. NumWindows -> Int] /\ NumWindows \in Nat
      BY <2>1, <2>2, <3>2
    <3>4. g \in Seq(Int)
      BY <3>3, SMTT(30)
    <3> QED BY <3>1, <3>2, <3>4 DEF WindowSums
  <2> QED BY <1>1, <1>4, <2>3, BytesAsBits
<1>7. a \in Int /\ b \in Int
  BY WindowAssumption
<1>8. PedersenCommit(x, a) = PedersenCommit(y, b) <=> s = t /\ a = b
  <2>1. Append(s, a) = Append(t, b) <=> s = t /\ a = b
    BY <1>6, <1>7, AppendTold, SMTT(30)
  <2> QED BY <1>5, <2>1
<1>9. s = t <=> Resized(x, InputBytes) = Resized(y, InputBytes)
  BY <1>3, <1>4, SumBinds
<1> QED BY <1>8, <1>9

-----------------------------------------------------------------------------
(* Chunk w of n, or nothing where there is none.                           *)
Segment(s, n, w) == IF w <= Len(InChunks(s, n)) THEN InChunks(s, n)[w] ELSE <<>>

ReadsAsSegment(g, s, n, w) ==
  \A k \in 1 .. n :
    /\ k <= Len(g) <=> (w - 1) * n + k <= Len(s)
    /\ k <= Len(g) => g[k] = s[(w - 1) * n + k]

LEMMA SegmentIs ==
  ASSUME NEW X, NEW s \in Seq(X), NEW n \in Nat \ {0}, NEW w \in Nat \ {0}
  PROVE  /\ Segment(s, n, w) \in Seq(X) /\ Len(Segment(s, n, w)) \in Nat
         /\ Len(Segment(s, n, w)) = IF (w - 1) * n < Len(s) THEN ChunkLen(Len(s), n, w) ELSE 0
         /\ Len(Segment(s, n, w)) <= n
         /\ ReadsAsSegment(Segment(s, n, w), s, n, w)
<1>1. PICK L, g, a, b : /\ L = Len(s) /\ g = Segment(s, n, w) /\ a = (w - 1) * n /\ b = w * n
  OBVIOUS
<1>2. L \in Nat /\ a \in Nat /\ b \in Nat /\ b = a + n
  BY <1>1, LenProperties
<1>3. w <= Len(InChunks(s, n)) <=> a < L
  <2>1. Len(InChunks(s, n)) = (Len(s) + n - 1) \div n
    BY ChunksAre
  <2>2. w <= (L + n - 1) \div n <=> (w - 1) * n < L
    BY <1>2, ChunksReach
  <2> QED BY Zenon, <1>1, <2>1, <2>2
<1>4. CASE a < L
  <2>1. w \in 1 .. Len(InChunks(s, n))
    <3>1. Len(InChunks(s, n)) \in Nat
      BY ChunksAre, LenProperties
    <3> QED BY <1>3, <1>4, <3>1
  <2>2. g = InChunks(s, n)[w]
    BY <1>1, <1>3, <1>4 DEF Segment
  <2>3. /\ g \in Seq(X) /\ Len(g) = ChunkLen(L, n, w) /\ ChunkLen(L, n, w) \in 1 .. n
        /\ \A k \in 1 .. ChunkLen(L, n, w) : g[k] = s[a + k]
    <3>1. PICK h, l : h = InChunks(s, n)[w] /\ l = ChunkLen(Len(s), n, w)
      OBVIOUS
    <3>2. h \in Seq(X) /\ Len(h) = l /\ l \in 1 .. n /\ \A k \in 1 .. l : h[k] = s[a + k]
      <4>1. h \in Seq(X) /\ ChunkOf(h, s, n, w)
        BY Zenon, <2>1, <3>1, ChunkIs
      <4> QED BY Zenon, <1>1, <3>1, <4>1 DEF ChunkOf
    <3>3. g = h /\ l = ChunkLen(L, n, w)
      BY <1>1, <2>2, <3>1
    <3> QED BY <3>2, <3>3
  <2>4. ChunkLen(L, n, w) = IF b < L THEN n ELSE L - a
    BY <1>1 DEF ChunkLen
  <2>5. PICK c : c = ChunkLen(L, n, w)
    OBVIOUS
  <2>6. /\ g \in Seq(X) /\ Len(g) = c /\ c \in 1 .. n /\ c = IF b < L THEN n ELSE L - a
        /\ \A k \in 1 .. c : g[k] = s[a + k]
    BY <2>3, <2>4, <2>5
  <2>7. \A k \in 1 .. n : (k <= c <=> a + k <= L) /\ (k <= c => g[k] = s[a + k])
    BY <1>2, <1>4, <2>6
  <2>8. Len(g) \in Nat /\ Len(g) <= n
    BY <2>6
  <2>9. \A k \in 1 .. n : (k <= Len(g) <=> a + k <= L) /\ (k <= Len(g) => g[k] = s[a + k])
    BY Zenon, <2>6, <2>7
  <2>10. ReadsAsSegment(g, s, n, w)
    BY Zenon, <1>1, <2>9 DEF ReadsAsSegment
  <2> QED BY <1>1, <1>4, <2>5, <2>6, <2>8, <2>10
<1>5. CASE ~ (a < L)
  <2>1. g = <<>>
    BY <1>1, <1>3, <1>5 DEF Segment
  <2>2. g \in Seq(X) /\ Len(g) = 0
    BY <2>1
  <2>3. \A k \in 1 .. n : ~ (k <= 0) /\ ~ (a + k <= L)
    BY <1>2, <1>5
  <2>4. \A k \in 1 .. n : (k <= Len(g) <=> a + k <= L) /\ (k <= Len(g) => g[k] = s[a + k])
    BY Zenon, <2>2, <2>3
  <2>5. ReadsAsSegment(g, s, n, w)
    BY Zenon, <1>1, <2>4 DEF ReadsAsSegment
  <2> QED BY <1>1, <1>5, <2>2, <2>5
<1> QED BY <1>4, <1>5

LEMMA SegmentAt ==
  ASSUME NEW X, NEW s \in Seq(X), NEW n \in Nat \ {0}, NEW w \in Nat \ {0}, NEW k \in 1 .. n,
         NEW g, g = Segment(s, n, w), NEW a, a = (w - 1) * n
  PROVE  /\ k <= Len(g) <=> a + k <= Len(s)
         /\ k <= Len(g) => g[k] = s[a + k]
<1>1. ReadsAsSegment(Segment(s, n, w), s, n, w)
  BY SegmentIs
<1>2. ReadsAsSegment(g, s, n, w)
  BY Zenon, <1>1
<1> QED BY Zenon, <1>2 DEF ReadsAsSegment

(* A sequence is told from its chunks.                                     *)
LEMMA SegmentsTell ==
  ASSUME NEW X, NEW s \in Seq(X), NEW t \in Seq(X), NEW n \in Nat \ {0}, NEW N \in Nat \ {0},
         Len(s) <= n * N, Len(t) <= n * N,
         \A w \in 1 .. N : Segment(s, n, w) = Segment(t, n, w)
  PROVE  s = t
<1>0. Len(s) \in Nat /\ Len(t) \in Nat /\ n * N \in Nat
  BY LenProperties
<1>1. ASSUME NEW p \in Nat \ {0}, p <= n * N
      PROVE  (p <= Len(s) <=> p <= Len(t)) /\ (p <= Len(s) => s[p] = t[p])
  <2>1. PICK w \in 1 .. N, k \in 1 .. n : p = (w - 1) * n + k
    BY Zenon, <1>1, WindowOf
  <2>2. w \in Nat \ {0}
    OBVIOUS
  <2>3. PICK g, h, a : g = Segment(s, n, w) /\ h = Segment(t, n, w) /\ a = (w - 1) * n
    OBVIOUS
  <2>4. /\ k <= Len(g) <=> a + k <= Len(s)
        /\ k <= Len(g) => g[k] = s[a + k]
    BY <2>2, <2>3, SegmentAt
  <2>5. /\ k <= Len(h) <=> a + k <= Len(t)
        /\ k <= Len(h) => h[k] = t[a + k]
    BY <2>2, <2>3, SegmentAt
  <2>6. g = h
    BY <2>3
  <2> QED BY Zenon, <2>1, <2>3, <2>4, <2>5, <2>6
<1>2. Len(s) = Len(t)
  <2>1. CASE Len(s) < Len(t)
    <3>1. Len(t) \in Nat \ {0} /\ Len(t) <= n * N
      BY <1>0, <2>1
    <3>2. Len(t) <= Len(t)
      BY <1>0
    <3> QED BY <1>0, <1>1, <2>1, <3>1, <3>2
  <2>2. CASE Len(t) < Len(s)
    <3>1. Len(s) \in Nat \ {0} /\ Len(s) <= n * N
      BY <1>0, <2>2
    <3>2. Len(s) <= Len(s)
      BY <1>0
    <3> QED BY <1>0, <1>1, <2>2, <3>1, <3>2
  <2> QED BY <1>0, <2>1, <2>2
<1>3. ASSUME NEW p \in 1 .. Len(s) PROVE s[p] = t[p]
  <2>1. p \in Nat \ {0} /\ p <= n * N /\ p <= Len(s)
    BY <1>0
  <2> QED BY <1>1, <2>1
<1> QED BY <1>2, <1>3, SeqEqual

(* Chunks of whole threes, out of whole threes, are whole threes.          *)
LEMMA WholeSegments ==
  ASSUME NEW K \in Nat, NEW W \in Nat \ {0}, NEW w \in Nat \ {0}, NEW X, NEW s \in Seq(X),
         Len(s) = 3 * K
  PROVE  \E m \in 0 .. W : Len(Segment(s, W * 3, w)) = 3 * m
<1>1. PICK n, a : n = W * 3 /\ a = (w - 1) * W
  OBVIOUS
<1>2. n \in Nat \ {0} /\ a \in Nat
  BY <1>1
<1>3. PICK b, c : b = (w - 1) * n /\ c = w * n
  OBVIOUS
<1>4. b = 3 * a /\ c = b + n
  BY <1>1, <1>3
<1>5. Len(Segment(s, n, w)) = IF b < 3 * K THEN ChunkLen(3 * K, n, w) ELSE 0
  BY <1>2, <1>3, SegmentIs
<1>6. ChunkLen(3 * K, n, w) = IF c < 3 * K THEN n ELSE 3 * K - b
  BY <1>3 DEF ChunkLen
<1>7. CASE ~ (b < 3 * K)
  <2>1. Len(Segment(s, n, w)) = 3 * 0 /\ 0 \in 0 .. W
    BY <1>5, <1>7
  <2> QED BY <1>1, <2>1
<1>8. CASE b < 3 * K /\ c < 3 * K
  <2>1. Len(Segment(s, n, w)) = 3 * W /\ W \in 0 .. W
    BY <1>1, <1>5, <1>6, <1>8
  <2> QED BY <1>1, <2>1
<1>9. CASE b < 3 * K /\ ~ (c < 3 * K)
  <2>1. Len(Segment(s, n, w)) = 3 * (K - a) /\ K - a \in 0 .. W
    BY <1>1, <1>2, <1>4, <1>5, <1>6, <1>9
  <2> QED BY <1>1, <2>1
<1> QED BY <1>7, <1>8, <1>9

-----------------------------------------------------------------------------
(* The digits of a segment, and its scalar from the last of them.          *)
DigitSet == (-4 .. 4) \ {0}
DigitAt(u, j) == Digit(<<u[(j - 1) * 3 + 1], u[(j - 1) * 3 + 2], u[(j - 1) * 3 + 3]>>)
DigitValues(v, d, m) ==
  /\ v \in [0 .. m -> Int] /\ v[0] = 0
  /\ \A n \in 1 .. m : v[n] = d[m + 1 - n] + 16 * v[n - 1]

LEMMA DigitIs ==
  ASSUME NEW a \in Bits, NEW b \in Bits, NEW c \in Bits
  PROVE  Digit(<<a, b, c>>) = (1 + a + 2 * b) * (IF c = 1 THEN -1 ELSE 1)
      /\ Digit(<<a, b, c>>) \in DigitSet
<1>1. Digit(<<a, b, c>>) = (1 + a + 2 * b) * (IF c = 1 THEN -1 ELSE 1)
  BY DEF Digit
<1>2. (a = 0 \/ a = 1) /\ (b = 0 \/ b = 1) /\ (c = 0 \/ c = 1)
  BY DEF Bits
<1> QED BY <1>1, <1>2 DEF DigitSet

(* The library's table has the same digits.                                *)
LEMMA VarDigitIs ==
  ASSUME NEW h, h[1] \in Bits, h[2] \in Bits, h[3] \in Bits
  PROVE  VarDigit(h) = Digit(h)
<1>1. PICK a, b, c : a = h[1] /\ b = h[2] /\ c = h[3]
  OBVIOUS
<1>2. (a = 0 \/ a = 1) /\ (b = 0 \/ b = 1) /\ (c = 0 \/ c = 1)
  BY <1>1 DEF Bits
<1>3. <<1, 2, 3, 4>>[1 + a + 2 * b] = 1 + a + 2 * b
  BY <1>2
<1>4. VarDigit(h) = IF c = 1 THEN -(1 + a + 2 * b) ELSE 1 + a + 2 * b
  BY <1>1, <1>3 DEF VarDigit
<1>5. Digit(h) = (1 + a + 2 * b) * (IF c = 1 THEN -1 ELSE 1)
  BY <1>1 DEF Digit
<1> QED BY <1>2, <1>4, <1>5

LEMMA DigitTold ==
  ASSUME NEW a \in Bits, NEW b \in Bits, NEW c \in Bits,
         NEW x \in Bits, NEW y \in Bits, NEW z \in Bits, Digit(<<a, b, c>>) = Digit(<<x, y, z>>)
  PROVE  a = x /\ b = y /\ c = z
<1>1. (1 + a + 2 * b) * (IF c = 1 THEN -1 ELSE 1) = (1 + x + 2 * y) * (IF z = 1 THEN -1 ELSE 1)
  BY DigitIs
<1>2. (a = 0 \/ a = 1) /\ (b = 0 \/ b = 1) /\ (c = 0 \/ c = 1)
  BY DEF Bits
<1>3. (x = 0 \/ x = 1) /\ (y = 0 \/ y = 1) /\ (z = 0 \/ z = 1)
  BY DEF Bits
<1> QED BY <1>1, <1>2, <1>3

(* A chunk of three has the next three elements.                           *)
ThreeAt(h, u, j) ==
  h[1] = u[(j - 1) * 3 + 1] /\ h[2] = u[(j - 1) * 3 + 2] /\ h[3] = u[(j - 1) * 3 + 3]

LEMMA ThreeIs ==
  ASSUME NEW u \in Seq(Bits), NEW j \in 1 .. Len(InChunks(u, 3)), ChunkLen(Len(u), 3, j) = 3
  PROVE  ThreeAt(InChunks(u, 3)[j], u, j)
<1>1. 3 \in Nat \ {0}
  OBVIOUS
<1>2. ChunkOf(InChunks(u, 3)[j], u, 3, j)
  BY <1>1, ChunkIs
<1>3. PICK h, a : h = InChunks(u, 3)[j] /\ a = (j - 1) * 3
  OBVIOUS
<1>4. \A k \in 1 .. 3 : h[k] = u[a + k]
  BY <1>2, <1>3 DEF ChunkOf
<1>5. h[1] = u[a + 1] /\ h[2] = u[a + 2] /\ h[3] = u[a + 3]
  BY <1>4
<1> QED BY <1>3, <1>5 DEF ThreeAt

LEMMA ThreesAre ==
  ASSUME NEW u \in Seq(Bits), NEW m \in Nat, Len(u) = 3 * m
  PROVE  /\ InChunks(u, ChunkSize) \in Seq(Seq(Bits)) /\ Len(InChunks(u, ChunkSize)) = m
         /\ \A j \in 1 .. m : /\ Digit(InChunks(u, ChunkSize)[j]) = DigitAt(u, j)
                              /\ VarDigit(InChunks(u, ChunkSize)[j]) = DigitAt(u, j)
                              /\ DigitAt(u, j) \in DigitSet
<1>0. ChunkSize = 3 /\ 3 \in Nat \ {0}
  BY DEF ChunkSize
<1>1. PICK cs : cs = InChunks(u, 3)
  OBVIOUS
<1>2. cs \in Seq(Seq(Bits)) /\ Len(cs) = m
  <2>1. cs \in Seq(Seq(Bits)) /\ Len(cs) = (3 * m + 3 - 1) \div 3
    BY <1>0, <1>1, ChunksAre
  <2>2. (3 * m + 3 - 1) \div 3 = m
    OBVIOUS
  <2> QED BY <2>1, <2>2
<1>3. ASSUME NEW j \in 1 .. m
      PROVE  /\ Digit(cs[j]) = DigitAt(u, j) /\ VarDigit(cs[j]) = DigitAt(u, j)
             /\ DigitAt(u, j) \in DigitSet
  <2>1. PICK h, a : h = cs[j] /\ a = (j - 1) * 3
    OBVIOUS
  <2>2. ThreeAt(InChunks(u, 3)[j], u, j)
    <3>1. ChunkLen(Len(u), 3, j) = 3
      BY DEF ChunkLen
    <3>2. j \in 1 .. Len(InChunks(u, 3))
      BY <1>1, <1>2
    <3> QED BY Zenon, <3>1, <3>2, ThreeIs
  <2>4. h[1] = u[a + 1] /\ h[2] = u[a + 2] /\ h[3] = u[a + 3]
    BY <1>1, <2>1, <2>2 DEF ThreeAt
  <2>5. u[a + 1] \in Bits /\ u[a + 2] \in Bits /\ u[a + 3] \in Bits
    <3>1. a + 1 \in 1 .. Len(u) /\ a + 2 \in 1 .. Len(u) /\ a + 3 \in 1 .. Len(u)
      BY <2>1
    <3> QED BY <3>1, ElementOfSeq
  <2>6. PICK x, y, z : x = u[a + 1] /\ y = u[a + 2] /\ z = u[a + 3]
    OBVIOUS
  <2>7. Digit(h) = Digit(<<x, y, z>>)
    BY <2>4, <2>6 DEF Digit
  <2>8. DigitAt(u, j) = Digit(<<x, y, z>>)
    BY <2>1, <2>6 DEF DigitAt
  <2>9. Digit(<<x, y, z>>) \in DigitSet
    BY <2>5, <2>6, DigitIs
  <2>10. VarDigit(h) = Digit(h)
    BY <2>4, <2>5, VarDigitIs
  <2> QED BY <2>1, <2>7, <2>8, <2>9, <2>10
<1> QED BY <1>0, <1>1, <1>2, <1>3

LEMMA ScalarLoop ==
  ASSUME NEW u \in Seq(Bits), NEW m \in Nat, Len(u) = 3 * m
  PROVE  \E v : DigitValues(v, [j \in 1 .. m |-> DigitAt(u, j)], m) /\ v[m] = SegmentScalar(u)
<1>0. PICK cs, d : /\ cs = InChunks(u, ChunkSize) /\ Len(cs) = m
                   /\ d = [j \in 1 .. m |-> DigitAt(u, j)]
                   /\ d \in [1 .. m -> Int] /\ \A j \in 1 .. m : Digit(cs[j]) = d[j]
  <2>1. PICK cs, d : cs = InChunks(u, ChunkSize) /\ d = [j \in 1 .. m |-> DigitAt(u, j)]
    OBVIOUS
  <2>2. Len(cs) = m /\ \A j \in 1 .. m : Digit(cs[j]) = DigitAt(u, j) /\ DigitAt(u, j) \in DigitSet
    BY <2>1, ThreesAre
  <2>3. \A j \in 1 .. m : DigitAt(u, j) \in Int
    BY <2>2 DEF DigitSet
  <2> QED BY <2>1, <2>2, <2>3
<1> DEFINE F(h) == [n \in 0 .. m |-> IF n = 0 THEN 0 ELSE Digit(cs[m + 1 - n]) + 16 * h[n - 1]]
           op == [p \in Int \X (1 .. m) |-> d[m + 1 - p[2]] + 16 * p[1]]
           sum == CHOOSE h : h = F(h)
<1>1. op \in Steps(Int, m)
  <2>1. ASSUME NEW p \in Int \X (1 .. m) PROVE d[m + 1 - p[2]] + 16 * p[1] \in Int
    <3>1. p[1] \in Int /\ p[2] \in 1 .. m
      OBVIOUS
    <3>2. d[m + 1 - p[2]] \in Int
      BY <1>0, <3>1
    <3> QED BY <3>1, <3>2
  <2> QED BY <2>1 DEF Steps
<1>2. \A y \in Int : \A n \in 1 .. m : op[<<y, n>>] = d[m + 1 - n] + 16 * y
  OBVIOUS
<1> HIDE DEF op
<1>3. PICK e : e \in [0 .. m -> Int] /\ e[0] = 0 /\ \A n \in 1 .. m : e[n] = op[<<e[n - 1], n>>]
  <2>1. 0 \in Int
    OBVIOUS
  <2>2. \E h : Repeats(h, Int, m, 0, op)
    BY Zenon, <1>1, <2>1, RecursionExists
  <2> QED BY <2>2 DEF Repeats
<1>4. ASSUME NEW n \in 1 .. m PROVE e[n] = d[m + 1 - n] + 16 * e[n - 1]
  <2>1. n - 1 \in 0 .. m
    OBVIOUS
  <2>2. e[n - 1] \in Int
    BY <1>3, <2>1
  <2> QED BY <1>2, <1>3, <2>2
<1>5. e = F(e)
  <2>1. \A n \in 0 .. m : n # 0 => n \in 1 .. m /\ m + 1 - n \in 1 .. m
    OBVIOUS
  <2>2. \A n \in 0 .. m : e[n] = F(e)[n]
    BY <1>0, <1>3, <1>4, <2>1
  <2>3. e = [n \in 0 .. m |-> e[n]] /\ F(e) = [n \in 0 .. m |-> F(e)[n]]
    BY <1>3
  <2> HIDE DEF F
  <2> QED BY <2>2, <2>3
<1>6. sum = F(sum)
  <2> HIDE DEF F
  <2> QED BY <1>5
<1>7. SegmentScalar(u) = sum[m]
  BY <1>0 DEF SegmentScalar
<1> HIDE DEF sum
<1>8. sum[0] = 0
  <2>1. 0 \in 0 .. m
    OBVIOUS
  <2> QED BY <1>6, <2>1
<1>9. ASSUME NEW n \in 1 .. m PROVE sum[n] = d[m + 1 - n] + 16 * sum[n - 1]
  <2>1. n \in 0 .. m /\ n # 0 /\ m + 1 - n \in 1 .. m
    OBVIOUS
  <2>2. \A h : n \in 0 .. m /\ n # 0 => F(h)[n] = Digit(cs[m + 1 - n]) + 16 * h[n - 1]
    OBVIOUS
  <2> HIDE DEF F
  <2>3. sum[n] = Digit(cs[m + 1 - n]) + 16 * sum[n - 1]
    BY <1>6, <2>1, <2>2
  <2> QED BY <1>0, <2>1, <2>3
<1> HIDE DEF F
<1> DEFINE T == {n \in Nat : n <= m => sum[n] = e[n]}
<1>10. 0 \in T
  BY <1>3, <1>8
<1>11. ASSUME NEW i \in Nat, i \in T PROVE i + 1 \in T
  <2> SUFFICES ASSUME i + 1 <= m PROVE sum[i + 1] = e[i + 1]
    OBVIOUS
  <2>1. PICK k : k = i + 1
    OBVIOUS
  <2>2. k \in 1 .. m /\ k - 1 = i /\ i <= m
    BY <2>1
  <2>3. sum[i] = e[i]
    BY <1>11, <2>2
  <2>4. sum[k] = d[m + 1 - k] + 16 * sum[i] /\ e[k] = d[m + 1 - k] + 16 * e[i]
    BY <1>4, <1>9, <2>2
  <2> QED BY <2>1, <2>3, <2>4
<1>12. m \in T
  <2> HIDE DEF T
  <2> QED BY <1>10, <1>11, InductionOnSet
<1>13. e[m] = SegmentScalar(u)
  BY <1>7, <1>12
<1>14. DigitValues(e, d, m)
  BY <1>3, <1>4 DEF DigitValues
<1> QED BY <1>0, <1>13, <1>14

-----------------------------------------------------------------------------
(* Digits are told from the scalar they make, and how many they are.       *)
LEMMA DigitStep ==
  ASSUME NEW a \in DigitSet, NEW b \in DigitSet, NEW x \in Int, NEW y \in Int,
         a + 16 * x = b + 16 * y
  PROVE  a = b /\ x = y
BY DEF DigitSet

LEMMA DigitIsThere ==
  ASSUME NEW a \in DigitSet, NEW x \in Int
  PROVE  a + 16 * x # 0
BY DEF DigitSet

LEMMA SameDigits ==
  ASSUME NEW m \in Nat, NEW k \in Nat, m <= k,
         NEW d \in [1 .. m -> DigitSet], NEW e \in [1 .. k -> DigitSet],
         NEW v, NEW w, DigitValues(v, d, m), DigitValues(w, e, k), v[m] = w[k]
  PROVE  m = k /\ \A j \in 1 .. m : d[j] = e[j]
<1>1. /\ v \in [0 .. m -> Int] /\ v[0] = 0
      /\ \A n \in 1 .. m : v[n] = d[m + 1 - n] + 16 * v[n - 1]
  BY DEF DigitValues
<1>2. /\ w \in [0 .. k -> Int] /\ w[0] = 0
      /\ \A n \in 1 .. k : w[n] = e[k + 1 - n] + 16 * w[n - 1]
  BY DEF DigitValues
<1> DEFINE T == {i \in Nat : i <= m => v[m - i] = w[k - i] /\ \A j \in 1 .. i : d[j] = e[j]}
<1>3. 0 \in T
  OBVIOUS
<1>4. ASSUME NEW i \in Nat, i \in T PROVE i + 1 \in T
  <2> SUFFICES ASSUME i + 1 <= m
               PROVE  v[m - (i + 1)] = w[k - (i + 1)] /\ \A j \in 1 .. (i + 1) : d[j] = e[j]
    OBVIOUS
  <2>1. PICK n, l, r, s, c : /\ n = m - i /\ l = m - (i + 1) /\ r = k - i /\ s = k - (i + 1)
                             /\ c = i + 1
    OBVIOUS
  <2>2. /\ n \in 1 .. m /\ l \in 0 .. m /\ n - 1 = l /\ m + 1 - n = c /\ c \in 1 .. m /\ i <= m
        /\ r \in 1 .. k /\ s \in 0 .. k /\ r - 1 = s /\ k + 1 - r = c /\ c \in 1 .. k
    BY <2>1
  <2>3. v[n] = d[c] + 16 * v[l] /\ w[r] = e[c] + 16 * w[s]
    BY <1>1, <1>2, <2>2
  <2>4. v[n] = w[r] /\ \A j \in 1 .. i : d[j] = e[j]
    BY <1>4, <2>1, <2>2
  <2>5. v[l] \in Int /\ w[s] \in Int /\ d[c] \in DigitSet /\ e[c] \in DigitSet
    BY <1>1, <1>2, <2>2
  <2>6. d[c] + 16 * v[l] = e[c] + 16 * w[s]
    BY <2>3, <2>4
  <2>7. d[c] = e[c] /\ v[l] = w[s]
    BY <2>5, <2>6, DigitStep
  <2>8. \A j \in 1 .. (i + 1) : j = c \/ j \in 1 .. i
    BY <2>1
  <2> QED BY <2>1, <2>4, <2>7, <2>8
<1>5. m \in T
  <2> HIDE DEF T
  <2> QED BY <1>3, <1>4, InductionOnSet
<1>6. v[m - m] = w[k - m] /\ \A j \in 1 .. m : d[j] = e[j]
  BY <1>5
<1>7. m = k
  <2> SUFFICES ASSUME m < k PROVE FALSE
    OBVIOUS
  <2>1. PICK r, s, c : r = k - m /\ s = r - 1 /\ c = k + 1 - r
    OBVIOUS
  <2>2. r \in 1 .. k /\ s \in 0 .. k /\ c \in 1 .. k /\ m - m = 0
    BY <2>1
  <2>3. w[r] = e[c] + 16 * w[s] /\ w[s] \in Int /\ e[c] \in DigitSet
    BY <1>2, <2>1, <2>2
  <2>4. w[r] = 0
    BY <1>1, <1>6, <2>1, <2>2
  <2>5. e[c] + 16 * w[s] # 0
    BY <2>3, DigitIsThere
  <2> QED BY <2>3, <2>4, <2>5
<1> QED BY <1>6, <1>7

LEMMA ScalarTellsDigits ==
  ASSUME NEW u \in Seq(Bits), NEW t \in Seq(Bits), NEW m \in Nat, NEW k \in Nat,
         Len(u) = 3 * m, Len(t) = 3 * k, SegmentScalar(u) = SegmentScalar(t)
  PROVE  m = k /\ \A j \in 1 .. m : DigitAt(u, j) = DigitAt(t, j)
<1>1. PICK d, e : d = [j \in 1 .. m |-> DigitAt(u, j)] /\ e = [j \in 1 .. k |-> DigitAt(t, j)]
  OBVIOUS
<1>2. (\A j \in 1 .. m : DigitAt(u, j) \in DigitSet) /\ (\A j \in 1 .. k : DigitAt(t, j) \in DigitSet)
  BY ThreesAre
<1>3. d \in [1 .. m -> DigitSet] /\ e \in [1 .. k -> DigitSet]
  BY <1>1, <1>2
<1>4. PICK v : DigitValues(v, d, m) /\ v[m] = SegmentScalar(u)
  BY Zenon, <1>1, ScalarLoop
<1>5. PICK w : DigitValues(w, e, k) /\ w[k] = SegmentScalar(t)
  BY Zenon, <1>1, ScalarLoop
<1>6. CASE m <= k
  <2>1. v[m] = w[k]
    BY <1>4, <1>5
  <2>2. m = k /\ \A j \in 1 .. m : d[j] = e[j]
    BY Zenon, <1>3, <1>4, <1>5, <1>6, <2>1, SameDigits
  <2> QED BY <1>1, <2>2
<1>7. CASE k <= m
  <2>1. w[k] = v[m]
    BY <1>4, <1>5
  <2>2. k = m /\ \A j \in 1 .. k : e[j] = d[j]
    BY Zenon, <1>3, <1>4, <1>5, <1>7, <2>1, SameDigits
  <2> QED BY <1>1, <2>2
<1> QED BY <1>6, <1>7

LEMMA ScalarTold ==
  ASSUME NEW u \in Seq(Bits), NEW t \in Seq(Bits), NEW m \in Nat, NEW k \in Nat,
         Len(u) = 3 * m, Len(t) = 3 * k, SegmentScalar(u) = SegmentScalar(t)
  PROVE  u = t
<1>1. m = k /\ \A j \in 1 .. m : DigitAt(u, j) = DigitAt(t, j)
  BY ScalarTellsDigits
<1>2. ASSUME NEW p \in 1 .. Len(u) PROVE u[p] = t[p]
  <2>1. \E j \in 1 .. m : \E c \in 1 .. 3 : p = (j - 1) * 3 + c
    <3>1. PICK e : e = 3
      OBVIOUS
    <3>2. p \in Nat \ {0} /\ p <= e * m /\ m \in Nat \ {0} /\ e \in Nat \ {0}
      BY <3>1
    <3>3. \E j \in 1 .. m : \E c \in 1 .. e : p = (j - 1) * e + c
      BY Zenon, <3>2, WindowOf
    <3> QED BY Zenon, <3>1, <3>3
  <2>2. PICK j \in 1 .. m, c \in 1 .. 3 : p = (j - 1) * 3 + c
    BY <2>1
  <2>3. PICK a : a = (j - 1) * 3
    OBVIOUS
  <2>4. /\ a + 1 \in 1 .. Len(u) /\ a + 2 \in 1 .. Len(u) /\ a + 3 \in 1 .. Len(u)
        /\ Len(u) = Len(t)
    BY <1>1, <2>3
  <2>5. /\ u[a + 1] \in Bits /\ u[a + 2] \in Bits /\ u[a + 3] \in Bits
        /\ t[a + 1] \in Bits /\ t[a + 2] \in Bits /\ t[a + 3] \in Bits
    BY <2>4, ElementOfSeq
  <2>6. Digit(<<u[a + 1], u[a + 2], u[a + 3]>>) = Digit(<<t[a + 1], t[a + 2], t[a + 3]>>)
    BY <1>1, <2>3 DEF DigitAt
  <2>7. u[a + 1] = t[a + 1] /\ u[a + 2] = t[a + 2] /\ u[a + 3] = t[a + 3]
    BY <2>5, <2>6, DigitTold, SMTT(30)
  <2>8. p = a + 1 \/ p = a + 2 \/ p = a + 3
    BY <2>2, <2>3
  <2> QED BY <2>7, <2>8
<1>3. Len(u) = Len(t)
  BY <1>1
<1> QED BY <1>2, <1>3, SeqEqual

-----------------------------------------------------------------------------
(* How large the scalar of a segment can be: m digits of 4 are             *)
(* 4 * (16^m - 1) / 15.                                                    *)
LEMMA Sixteenths ==
  ASSUME NEW n \in Nat
  PROVE  /\ ShiftLeft(1, 4 * n) \in Nat /\ ShiftLeft(1, 4 * n) >= 1 /\ ShiftLeft(1, 4 * 0) = 1
         /\ ShiftLeft(1, 4 * (n + 1)) = 16 * ShiftLeft(1, 4 * n)
<1>1. PICK p, a : p = Powers /\ a = 4 * n
  OBVIOUS
<1>2. /\ p \in [Nat -> Nat] /\ p[0] = 1
      /\ \A i \in Nat : p[i] = ShiftLeft(1, i) /\ p[i] >= 1 /\ p[i + 1] = 2 * p[i]
  BY <1>1, PowersAre
<1>3. a \in Nat /\ a + 1 \in Nat /\ a + 2 \in Nat /\ a + 3 \in Nat /\ a + 4 \in Nat
  BY <1>1
<1>4. /\ p[a + 1] = 2 * p[a] /\ p[(a + 1) + 1] = 2 * p[a + 1]
      /\ p[(a + 2) + 1] = 2 * p[a + 2] /\ p[(a + 3) + 1] = 2 * p[a + 3]
  BY <1>2, <1>3
<1>5. (a + 1) + 1 = a + 2 /\ (a + 2) + 1 = a + 3 /\ (a + 3) + 1 = a + 4 /\ 4 * (n + 1) = a + 4 /\ 4 * 0 = 0
  BY <1>1
<1>6. p[a] \in Nat /\ p[a + 4] = 16 * p[a]
  <2>1. p[a + 2] = 2 * p[a + 1] /\ p[a + 3] = 2 * p[a + 2] /\ p[a + 4] = 2 * p[a + 3]
    BY <1>4, <1>5
  <2>2. p[a] \in Nat /\ p[a + 1] \in Nat
    BY <1>2, <1>3
  <2> QED BY <1>4, <2>1, <2>2
<1>7. p[a] = ShiftLeft(1, 4 * n) /\ p[a] >= 1 /\ p[a + 4] = ShiftLeft(1, 4 * (n + 1)) /\ p[0] = ShiftLeft(1, 4 * 0)
  BY <1>1, <1>2, <1>3, <1>5
<1> QED BY <1>2, <1>6, <1>7

LEMMA ScalarGrows ==
  ASSUME NEW a \in DigitSet, NEW x \in Int, NEW q \in Int,
         15 * x <= 4 * (q - 1), -(4 * (q - 1)) <= 15 * x
  PROVE  15 * (a + 16 * x) <= 4 * (16 * q - 1) /\ -(4 * (16 * q - 1)) <= 15 * (a + 16 * x)
<1>1. a \in Int /\ a <= 4 /\ -4 <= a
  BY DEF DigitSet
<1> QED BY <1>1

LEMMA ScalarBounded ==
  ASSUME NEW u \in Seq(Bits), NEW W \in Nat, NEW m \in 0 .. W, Len(u) = 3 * m
  PROVE  /\ SegmentScalar(u) \in Int
         /\ 15 * SegmentScalar(u) <= 4 * (ShiftLeft(1, 4 * W) - 1)
         /\ -(4 * (ShiftLeft(1, 4 * W) - 1)) <= 15 * SegmentScalar(u)
<1>0. m \in Nat
  OBVIOUS
<1>1. PICK d, q : d = [j \in 1 .. m |-> DigitAt(u, j)] /\ q = [n \in Nat |-> ShiftLeft(1, 4 * n)]
  OBVIOUS
<1>2. d \in [1 .. m -> DigitSet]
  BY <1>0, <1>1, ThreesAre
<1>3. PICK v : DigitValues(v, d, m) /\ v[m] = SegmentScalar(u)
  BY Zenon, <1>0, <1>1, ScalarLoop
<1>4. /\ v \in [0 .. m -> Int] /\ v[0] = 0
      /\ \A n \in 1 .. m : v[n] = d[m + 1 - n] + 16 * v[n - 1]
  BY <1>3 DEF DigitValues
<1>5. q \in [Nat -> Nat] /\ q[0] = 1 /\ \A n \in Nat : q[n] >= 1 /\ q[n + 1] = 16 * q[n]
  <2>1. \A n \in Nat : q[n] = ShiftLeft(1, 4 * n)
    BY <1>1
  <2>2. \A n \in Nat : q[n] \in Nat /\ q[n] >= 1
    BY <2>1, Sixteenths
  <2>3. q[0] = 1
    <3>1. 0 \in Nat
      OBVIOUS
    <3> QED BY <2>1, <3>1, Sixteenths
  <2>4. ASSUME NEW n \in Nat PROVE q[n + 1] = 16 * q[n]
    <3>1. n + 1 \in Nat
      OBVIOUS
    <3>2. q[n + 1] = ShiftLeft(1, 4 * (n + 1)) /\ q[n] = ShiftLeft(1, 4 * n)
      BY <2>1, <3>1
    <3> QED BY <3>2, Sixteenths
  <2>5. q \in [Nat -> Nat]
    BY <1>1, <2>1, <2>2
  <2> QED BY <2>2, <2>3, <2>4, <2>5
<1> HIDE <1>1
<1> DEFINE T == {n \in Nat : n <= m => 15 * v[n] <= 4 * (q[n] - 1) /\ -(4 * (q[n] - 1)) <= 15 * v[n]}
<1>6. 0 \in T
  <2>1. 0 \in Nat /\ 15 * v[0] = 0 /\ 4 * (q[0] - 1) = 0
    BY <1>4, <1>5
  <2> QED BY <2>1
<1>7. ASSUME NEW n \in Nat, n \in T PROVE n + 1 \in T
  <2> SUFFICES ASSUME n + 1 <= m
               PROVE  15 * v[n + 1] <= 4 * (q[n + 1] - 1) /\ -(4 * (q[n + 1] - 1)) <= 15 * v[n + 1]
    OBVIOUS
  <2>1. PICK i, c : i = n + 1 /\ c = m + 1 - i
    OBVIOUS
  <2>2. i \in 1 .. m /\ i - 1 = n /\ c \in 1 .. m /\ n \in 0 .. m /\ n <= m
    BY <2>1
  <2>3. v[i] = d[c] + 16 * v[n] /\ q[i] = 16 * q[n]
    BY <1>4, <1>5, <2>1, <2>2
  <2>4. d[c] \in DigitSet /\ v[n] \in Int /\ q[n] \in Int
    <3>1. d[c] \in DigitSet
      BY <1>2, <2>2
    <3>2. v[n] \in Int
      BY <1>4, <2>2
    <3>3. q[n] \in Int
      BY <1>5
    <3> QED BY <3>1, <3>2, <3>3
  <2>5. 15 * v[n] <= 4 * (q[n] - 1) /\ -(4 * (q[n] - 1)) <= 15 * v[n]
    BY <1>7, <2>2
  <2>6. /\ 15 * (d[c] + 16 * v[n]) <= 4 * (16 * q[n] - 1)
        /\ -(4 * (16 * q[n] - 1)) <= 15 * (d[c] + 16 * v[n])
    BY <2>4, <2>5, ScalarGrows
  <2> QED BY <2>1, <2>3, <2>6
<1>8. m \in T
  <2> HIDE DEF T
  <2> QED BY <1>0, <1>6, <1>7, InductionOnSet
<1> DEFINE G == {i \in Nat : q[m] <= q[m + i]}
<1>9. 0 \in G
  BY <1>0, <1>5
<1>10. ASSUME NEW i \in Nat, i \in G PROVE i + 1 \in G
  <2>1. PICK j : j = m + i
    OBVIOUS
  <2>2. j \in Nat /\ m + (i + 1) = j + 1
    BY <2>1
  <2>3. q[j + 1] = 16 * q[j] /\ q[j] \in Nat /\ q[m] \in Nat /\ q[m] <= q[j]
    BY <1>0, <1>5, <1>10, <2>1, <2>2
  <2> QED BY <2>2, <2>3
<1>11. PICK k \in Nat : m + k = W
  <2>1. W - m \in Nat /\ m + (W - m) = W
    OBVIOUS
  <2> QED BY <2>1
<1>12. k \in G
  <2> HIDE DEF G
  <2> QED BY <1>9, <1>10, InductionOnSet
<1>13. q[m] <= q[W] /\ q[m] \in Nat /\ q[W] \in Nat /\ v[m] \in Int
  <2>1. q[m] <= q[m + k]
    BY <1>12
  <2>2. q[m] \in Nat /\ q[W] \in Nat
    BY <1>0, <1>5
  <2>3. m \in 0 .. m
    BY <1>0
  <2>4. v[m] \in Int
    BY <1>4, <2>3
  <2> HIDE DEF G
  <2> QED BY <1>11, <2>1, <2>2, <2>4
<1>14. 15 * v[m] <= 4 * (q[m] - 1) /\ -(4 * (q[m] - 1)) <= 15 * v[m]
  BY <1>8
<1>15. q[W] = ShiftLeft(1, 4 * W)
  BY <1>1
<1>16. 15 * v[m] <= 4 * (q[W] - 1) /\ -(4 * (q[W] - 1)) <= 15 * v[m]
  <2>1. PICK x, y, z : x = q[m] /\ y = q[W] /\ z = v[m]
    OBVIOUS
  <2>2. /\ x \in Nat /\ y \in Nat /\ z \in Int /\ x <= y
        /\ 15 * z <= 4 * (x - 1) /\ -(4 * (x - 1)) <= 15 * z
    BY <1>13, <1>14, <2>1
  <2>3. 15 * z <= 4 * (y - 1) /\ -(4 * (y - 1)) <= 15 * z
    BY <2>2
  <2> QED BY <2>1, <2>3
<1> QED BY <1>3, <1>13, <1>15, <1>16

(* Numbers that differ by less than q are told from their rests.           *)
LEMMA RestTells ==
  ASSUME NEW q \in Nat \ {0}, NEW x \in Int, NEW y \in Int, NEW b \in Int,
         15 * x <= b, -b <= 15 * x, 15 * y <= b, -b <= 15 * y, 2 * b < 15 * q, x % q = y % q
  PROVE  x = y
<1>1. Divides(q, x - y)
  BY SameRest
<1>2. x - y \in Int /\ x - y < q /\ -q < x - y
  OBVIOUS
<1>3. PICK z \in Int : z = x - y
  BY <1>2
<1>4. z = 0
  BY <1>1, <1>2, <1>3, SmallMultiple
<1> QED BY <1>3, <1>4

-----------------------------------------------------------------------------
(* Segments so short that no two scalars, the least and the largest        *)
(* neither, differ by the order: 4 * (16^WindowSize - 1) / 15 either way.  *)
SegmentsFit == 8 * (ShiftLeft(1, 4 * WindowSize) - 1) < 15 * HashOrder

LEMMA NoScalar == SegmentScalar(<<>>) = 0
<1>1. <<>> \in Seq(Bits) /\ 0 \in Nat /\ Len(<<>>) = 3 * 0
  OBVIOUS
<1>2. PICK d : d = [j \in 1 .. 0 |-> DigitAt(<<>>, j)]
  OBVIOUS
<1>3. \E v : DigitValues(v, d, 0) /\ v[0] = SegmentScalar(<<>>)
  BY <1>1, <1>2, ScalarLoop
<1> QED BY <1>3 DEF DigitValues

(* The sum, segment by segment.                                            *)
LEMMA BoweHopwoodSumIs ==
  ASSUME NEW u \in Seq(Bits), NEW w \in 1 .. NumWindows
  PROVE  BoweHopwoodSum(u)[w] = SegmentScalar(Segment(u, WindowSize * 3, w)) % HashOrder
<1>1. PICK n, cs : n = WindowSize * 3 /\ cs = InChunks(u, n)
  OBVIOUS
<1>2. /\ n \in Nat \ {0} /\ n = WindowSize * ChunkSize /\ HashOrder \in Nat \ {0}
      /\ w \in Nat \ {0}
  BY <1>1, WindowAssumption DEF ChunkSize
<1>3. cs \in Seq(Seq(Bits))
  BY <1>1, <1>2, ChunksAre
<1>4. PICK C \in Nat : C = Len(cs) /\ DOMAIN cs = 1 .. C
  BY <1>3, LenProperties
<1>5. BoweHopwoodSum(u) = Windows([i \in 1 .. C |-> SegmentScalar(cs[i]) % HashOrder])
  BY <1>1, <1>2, <1>4 DEF BoweHopwoodSum
<1>6. BoweHopwoodSum(u)[w] = IF w \in 1 .. C THEN SegmentScalar(cs[w]) % HashOrder ELSE 0
  BY <1>5 DEF Windows
<1>7. CASE w <= C
  <2>1. Segment(u, n, w) = cs[w]
    BY <1>1, <1>4, <1>7 DEF Segment
  <2>2. w \in 1 .. C
    BY <1>2, <1>7
  <2> QED BY <1>1, <1>6, <2>1, <2>2
<1>8. CASE ~ (w <= C)
  <2>1. Segment(u, n, w) = <<>>
    BY <1>1, <1>4, <1>8 DEF Segment
  <2>2. w \notin 1 .. C /\ 0 % HashOrder = 0
    BY <1>2, <1>8
  <2> QED BY <1>1, <1>6, <2>1, <2>2, NoScalar
<1> QED BY <1>7, <1>8

(* Whole chunks, up to W of them; and a segment of whole chunks has them.  *)
Threes(s) == \E m \in Nat : Len(s) = 3 * m
ThreesTo(s, W) == \E m \in 0 .. W : Len(s) = 3 * m

LEMMA ThreesStay ==
  ASSUME NEW W \in Nat \ {0}, NEW w \in Nat \ {0}, NEW s \in Seq(Bits), Threes(s)
  PROVE  ThreesTo(Segment(s, W * 3, w), W)
BY WholeSegments DEF Threes, ThreesTo

LEMMA SumTellsSegments ==
  ASSUME SegmentsFit, NEW u \in Seq(Bits), NEW t \in Seq(Bits),
         ThreesTo(u, InputSizeBits), ThreesTo(t, InputSizeBits),
         BoweHopwoodSum(u) = BoweHopwoodSum(t)
  PROVE  u = t
<1>0. Threes(u) /\ Threes(t)
  BY WindowsHold DEF Threes, ThreesTo
<1>1. /\ WindowSize \in Nat \ {0} /\ NumWindows \in Nat \ {0} /\ HashOrder \in Nat \ {0}
  BY WindowAssumption
<1>2. PICK n : n = WindowSize * 3
  OBVIOUS
<1>3. n \in Nat \ {0}
  BY <1>1, <1>2
<1>4. ASSUME NEW w \in 1 .. NumWindows PROVE Segment(u, n, w) = Segment(t, n, w)
  <2>1. PICK a, b : a = Segment(u, n, w) /\ b = Segment(t, n, w)
    OBVIOUS
  <2>2. w \in Nat \ {0}
    BY <1>1
  <2>3. a \in Seq(Bits) /\ b \in Seq(Bits)
    BY <1>3, <2>1, <2>2, SegmentIs
  <2>4. PICK m \in 0 .. WindowSize : Len(a) = 3 * m
    <3>1. ThreesTo(Segment(u, WindowSize * 3, w), WindowSize)
      BY Zenon, <1>0, <1>1, <2>2, ThreesStay
    <3> QED BY <1>2, <2>1, <3>1 DEF ThreesTo
  <2>5. PICK k \in 0 .. WindowSize : Len(b) = 3 * k
    <3>1. ThreesTo(Segment(t, WindowSize * 3, w), WindowSize)
      BY Zenon, <1>0, <1>1, <2>2, ThreesStay
    <3> QED BY <1>2, <2>1, <3>1 DEF ThreesTo
  <2>6. PICK x, y, c : /\ x = SegmentScalar(a) /\ y = SegmentScalar(b)
                       /\ c = 4 * (ShiftLeft(1, 4 * WindowSize) - 1)
    OBVIOUS
  <2>7. x \in Int /\ 15 * x <= c /\ -c <= 15 * x
    BY <1>1, <2>3, <2>4, <2>6, ScalarBounded
  <2>8. y \in Int /\ 15 * y <= c /\ -c <= 15 * y
    BY <1>1, <2>3, <2>5, <2>6, ScalarBounded
  <2>9. c \in Int /\ 2 * c < 15 * HashOrder
    <3>1. WindowSize \in Nat
      BY <1>1
    <3>2. ShiftLeft(1, 4 * WindowSize) \in Nat
      BY <3>1, Sixteenths
    <3> QED BY <1>1, <2>6, <3>2 DEF SegmentsFit
  <2>10. x % HashOrder = y % HashOrder
    <3>1. /\ BoweHopwoodSum(u)[w] = SegmentScalar(Segment(u, WindowSize * 3, w)) % HashOrder
          /\ BoweHopwoodSum(t)[w] = SegmentScalar(Segment(t, WindowSize * 3, w)) % HashOrder
      BY BoweHopwoodSumIs
    <3> QED BY <1>2, <2>1, <2>6, <3>1
  <2>11. x = y
    BY <1>1, <2>7, <2>8, <2>9, <2>10, RestTells
  <2>12. m \in Nat /\ k \in Nat
    OBVIOUS
  <2>13. a = b
    BY Zenon, <2>3, <2>4, <2>5, <2>6, <2>11, <2>12, ScalarTold
  <2> QED BY <2>1, <2>13
<1>5. Len(u) <= n * NumWindows /\ Len(t) <= n * NumWindows
  <2>1. InputSizeBits = WindowSize * NumWindows
    BY DEF InputSizeBits
  <2>2. n * NumWindows = 3 * (WindowSize * NumWindows) /\ WindowSize * NumWindows \in Nat
    BY <1>1, <1>2
  <2>3. PICK z \in Nat : z = WindowSize * NumWindows
    BY <2>2
  <2>4. PICK m \in 0 .. z : Len(u) = 3 * m
    BY <2>1, <2>3 DEF ThreesTo
  <2>5. PICK k \in 0 .. z : Len(t) = 3 * k
    BY <2>1, <2>3 DEF ThreesTo
  <2>6. Len(u) <= 3 * z /\ Len(t) <= 3 * z
    BY <2>4, <2>5
  <2> QED BY <2>2, <2>3, <2>6
<1> QED BY <1>1, <1>3, <1>4, <1>5, SegmentsTell

(* Whole chunks of the bits of bytes.                                      *)
MakeWhole(x, b, c, L, K) ==
  /\ b = BitsLSBFirst(x) /\ L = Len(x) /\ c = WholeChunks(b)
  /\ b \in Seq(Bits) /\ L \in Nat /\ K \in Nat
  /\ 8 * L <= 3 * K /\ 3 * K <= 8 * L + 2
  /\ c \in Seq(Bits) /\ Len(c) = 3 * K /\ SameFilled(c, b)

LEMMA WholeChunksAre ==
  ASSUME NEW x \in Seq(Nat)
  PROVE  \E b, c, L, K : MakeWhole(x, b, c, L, K)
<1>0. PICK b, c, L, K : /\ b = BitsLSBFirst(x) /\ L = Len(x) /\ c = WholeChunks(b)
                        /\ K = (8 * L + 2) \div 3
  OBVIOUS
<1>1. b \in Seq(Bits) /\ Len(b) = 8 * L /\ L \in Nat /\ 0 \in Bits
  BY <1>0, BytesAsBits, LenProperties DEF Bits
<1>2. K \in Nat /\ 8 * L <= 3 * K /\ 3 * K <= 8 * L + 2
  BY <1>0, <1>1
<1>3. c = Resized(b, 3 * K)
  <2>1. Len(b) + 3 - 1 = 8 * L + 2
    BY <1>1
  <2> QED BY <1>0, <2>1 DEF WholeChunks, ChunkSize
<1>4. PICK n \in Nat : n = 3 * K
  BY <1>2
<1>5. Resized(b, n) \in Seq(Bits) /\ Len(Resized(b, n)) = n
  BY <1>1, ResizedIs
<1>6. SameFilled(Resized(b, n), b)
  <2>1. Len(b) <= n
    BY <1>1, <1>2, <1>4
  <2> QED BY <1>1, <2>1, ResizedSame
<1>7. c = Resized(b, n)
  BY <1>3, <1>4
<1>8. c \in Seq(Bits) /\ Len(c) = 3 * K /\ SameFilled(c, b)
  BY <1>4, <1>5, <1>6, <1>7
<1> QED BY Zenon, <1>0, <1>1, <1>2, <1>8 DEF MakeWhole

(* The gadget's padding and its sum are the native ones.                   *)
LEMMA VarWholeChunksIs ==
  ASSUME NEW b \in Seq(Nat)
  PROVE  VarWholeChunks(b) = WholeChunks(b)
<1>1. PICK L, n : L = Len(b) /\ n = 3 * ((L + 2) \div 3)
  OBVIOUS
<1>2. L \in Nat
  BY <1>1, LenProperties
<1>3. WholeChunks(b) = Resized(b, n)
  <2>1. L + 3 - 1 = L + 2
    BY <1>2
  <2> QED BY <1>1, <2>1 DEF WholeChunks, ChunkSize
<1>4. CASE L % 3 = 0
  <2>1. n = L
    BY <1>1, <1>2, <1>4
  <2>2. Resized(b, L) \in Seq(Nat) /\ Len(Resized(b, L)) = L
        /\ \A p \in 1 .. L : Resized(b, L)[p] = ValueAt(b, p)
    <3>1. 0 \in Nat
      OBVIOUS
    <3> QED BY <1>2, <3>1, ResizedIs
  <2>3. \A p \in 1 .. L : b[p] = Resized(b, L)[p]
    BY <1>1, <1>2, <2>2 DEF ValueAt
  <2>4. b = Resized(b, L)
    BY <1>1, <2>2, <2>3, SeqEqual
  <2>5. VarWholeChunks(b) = b
    BY <1>1, <1>4 DEF VarWholeChunks, ChunkSize
  <2> QED BY <1>3, <2>1, <2>4, <2>5
<1>5. CASE L % 3 # 0
  <2>1. PICK m : m = 3 - (L % 3)
    OBVIOUS
  <2>2. n \in Nat /\ L <= n /\ m = n - L
    BY <1>1, <1>2, <1>5, <2>1
  <2>3. b \o [i \in 1 .. m |-> 0] = Resized(b, n)
    BY <1>1, <2>2, ZerosBehind
  <2>4. VarWholeChunks(b) = b \o [i \in 1 .. m |-> 0]
    BY <1>1, <1>5, <2>1 DEF VarWholeChunks, ChunkSize
  <2> QED BY <1>3, <2>3, <2>4
<1> QED BY <1>4, <1>5

LEMMA VarScalarIs ==
  ASSUME NEW u \in Seq(Bits), NEW m \in Nat, Len(u) = 3 * m
  PROVE  VarSegmentScalar(u) = SegmentScalar(u)
<1>1. PICK cs : cs = InChunks(u, ChunkSize)
  OBVIOUS
<1>2. Len(cs) = m /\ \A j \in 1 .. m : VarDigit(cs[j]) = Digit(cs[j])
  BY <1>1, ThreesAre
<1> DEFINE F(h) == [n \in 0 .. m |-> IF n = 0 THEN 0 ELSE Digit(cs[m + 1 - n]) + 16 * h[n - 1]]
           G(h) == [n \in 0 .. m |-> IF n = 0 THEN 0 ELSE VarDigit(cs[m + 1 - n]) + 16 * h[n - 1]]
<1>3. ASSUME NEW h PROVE F(h) = G(h)
  <2>1. ASSUME NEW n \in 0 .. m
        PROVE  (IF n = 0 THEN 0 ELSE Digit(cs[m + 1 - n]) + 16 * h[n - 1])
                 = (IF n = 0 THEN 0 ELSE VarDigit(cs[m + 1 - n]) + 16 * h[n - 1])
    <3>1. n # 0 => m + 1 - n \in 1 .. m
      OBVIOUS
    <3> QED BY <1>2, <3>1
  <2> QED BY <2>1
<1>4. (CHOOSE h : h = F(h)) = (CHOOSE h : h = G(h))
  <2> HIDE DEF F, G
  <2>1. \A h : h = F(h) <=> h = G(h)
    BY <1>3
  <2> QED BY <2>1
<1>5. SegmentScalar(u) = (CHOOSE h : h = F(h))[m]
  BY <1>1, <1>2 DEF SegmentScalar
<1>6. VarSegmentScalar(u) = (CHOOSE h : h = G(h))[m]
  BY <1>1, <1>2 DEF VarSegmentScalar
<1> QED BY <1>4, <1>5, <1>6

LEMMA VarSumIs ==
  ASSUME NEW u \in Seq(Bits), NEW K \in Nat, Len(u) = 3 * K
  PROVE  BoweHopwoodVarSum(u) = BoweHopwoodSum(u)
<1>1. PICK n, cs : n = WindowSize * 3 /\ cs = InChunks(u, n)
  OBVIOUS
<1>2. n \in Nat \ {0} /\ n = WindowSize * ChunkSize /\ WindowSize \in Nat \ {0}
  BY <1>1, WindowAssumption DEF ChunkSize
<1>3. cs \in Seq(Seq(Bits))
  BY <1>1, <1>2, ChunksAre
<1>4. PICK C \in Nat : C = Len(cs) /\ DOMAIN cs = 1 .. C
  BY <1>3, LenProperties
<1>5. ASSUME NEW w \in 1 .. C PROVE VarSegmentScalar(cs[w]) = SegmentScalar(cs[w])
  <2>1. cs[w] \in Seq(Bits)
    BY <1>3, <1>4, ElementOfSeq
  <2>2. Segment(u, n, w) = cs[w] /\ w \in Nat \ {0}
    BY <1>1, <1>4 DEF Segment
  <2>3. PICK m \in 0 .. WindowSize : Len(Segment(u, n, w)) = 3 * m
    BY <1>1, <1>2, <2>2, WholeSegments
  <2>4. m \in Nat /\ Len(cs[w]) = 3 * m
    BY <1>2, <2>2, <2>3
  <2> QED BY <2>1, <2>4, VarScalarIs
<1>6. BoweHopwoodSum(u) = Windows([i \in 1 .. C |-> SegmentScalar(cs[i]) % HashOrder])
  BY <1>1, <1>2, <1>4 DEF BoweHopwoodSum
<1>7. BoweHopwoodVarSum(u) = Windows([i \in 1 .. C |-> VarSegmentScalar(cs[i]) % HashOrder])
  BY <1>1, <1>2, <1>4 DEF BoweHopwoodVarSum
<1>8. [i \in 1 .. C |-> VarSegmentScalar(cs[i]) % HashOrder]
        = [i \in 1 .. C |-> SegmentScalar(cs[i]) % HashOrder]
  BY <1>5
<1> QED BY <1>6, <1>7, <1>8

LEMMA BoweHopwoodVarIs ==
  ASSUME NEW x \in Seq(Nat)
  PROVE  BoweHopwoodVar(x) = BoweHopwoodEvaluate(x)
<1>1. PICK b, c, L, K : MakeWhole(x, b, c, L, K)
  BY Zenon, WholeChunksAre
<1>2. /\ b = BitsLSBFirst(x) /\ c = WholeChunks(b) /\ b \in Seq(Bits)
      /\ c \in Seq(Bits) /\ K \in Nat /\ Len(c) = 3 * K
  BY Zenon, <1>1 DEF MakeWhole
<1>3. b \in Seq(Nat)
  BY <1>2 DEF Bits
<1>4. VarWholeChunks(b) = c
  BY <1>2, <1>3, VarWholeChunksIs
<1>5. BoweHopwoodVarSum(c) = BoweHopwoodSum(c)
  BY <1>2, VarSumIs
<1> QED BY Zenon, <1>2, <1>4, <1>5 DEF BoweHopwoodVar, BoweHopwoodEvaluate

LEMMA BoweHopwood2Agrees ==
  ASSUME NEW l \in Seq(Nat), NEW r \in Seq(Nat)
  PROVE  Agrees(BoweHopwood2(l, r), BoweHopwood2Var(l, r))
<1>1. CASE Len(l) # Len(r)
  BY <1>1, AgreesWhenEqual DEF BoweHopwood2, BoweHopwood2Var
<1>2. CASE Len(l) = Len(r)
  <2>1. PICK L \in Nat : /\ L = Len(l) /\ L = Len(r) /\ Len(l \o r) = 2 * L
                         /\ l \o r \in Seq(Nat) /\ L + L = 2 * L
    BY <1>2, JoinedIs
  <2>2. 2 * L <= InputBytes <=> ~ (L * ByteBits > HalfInputSizeBits)
    BY HalvesFit
  <2>3. InputBytes \in Nat
    BY WindowsHold
  <2>4. CASE 2 * L <= InputBytes
    <3>1. l \o r \o [i \in 1 .. (InputBytes - Len(l) - Len(r)) |-> 0] = Buffer(l, r, InputBytes)
      <4>1. InputBytes - Len(l) - Len(r) = InputBytes - Len(l \o r)
        BY <2>1, <2>3
      <4>2. Len(l \o r) <= InputBytes
        BY <2>1, <2>4
      <4> QED BY <2>1, <2>3, <4>1, <4>2, ZerosBehind DEF Buffer
    <3>2. BoweHopwood2(l, r) = BoweHopwoodEvaluate(Buffer(l, r, InputBytes))
      BY <1>2, <2>1, <2>2, <2>4 DEF BoweHopwood2
    <3>3. BoweHopwood2Var(l, r) = BoweHopwoodVar(Buffer(l, r, InputBytes))
      <4>1. ~ (Len(l) + Len(r) > InputBytes)
        BY <2>1, <2>3, <2>4
      <4> QED BY <1>2, <3>1, <4>1 DEF BoweHopwood2Var
    <3>4. Buffer(l, r, InputBytes) \in Seq(Nat)
      <4>1. 0 \in Nat
        OBVIOUS
      <4> QED BY <2>1, <2>3, <4>1, ResizedIs DEF Buffer
    <3> QED BY <3>2, <3>3, <3>4, BoweHopwoodVarIs, AgreesWhenEqual
  <2>5. CASE ~ (2 * L <= InputBytes)
    <3>1. BoweHopwood2Var(l, r) = Panic
      <4>1. Len(l) + Len(r) > InputBytes
        BY <2>1, <2>3, <2>5
      <4> QED BY <4>1 DEF BoweHopwood2Var
    <3>2. debug => BoweHopwood2(l, r) = Panic
      BY <2>1, <2>2, <2>5 DEF BoweHopwood2
    <3> QED BY <3>1, <3>2 DEF Agrees
  <2> QED BY <2>4, <2>5
<1> QED BY <1>1, <1>2

LEMMA InputTypes ==
  /\ \A s \in {"pedersen", "bowe_hopwood"} : \A x \in HashInputs[s] : x \in Seq(Nat)
  /\ \A s \in {"pedersen2", "bowe_hopwood2"} : \A x \in HashInputs[s] :
       x[1] \in Seq(Nat) /\ x[2] \in Seq(Nat)
  /\ \A x \in HashInputs["commitment"] : x[1] \in Seq(Nat) /\ x[2] \in 0 .. (HashOrder - 1)
  BY WindowAssumption, BytesAreNumbers

LEMMA DigestsAgree ==
  ASSUME NEW s \in SchemesOfHashes, NEW x \in HashInputs[s]
  PROVE  Agrees(Digest(s, x), DigestVar(s, x))
<1>1. CASE s = "pedersen"
  <2>1. PedersenVar(x) = PedersenEvaluate(x)
    BY <1>1, InputTypes, PedersenVarIs
  <2> QED BY <1>1, <2>1, AgreesWhenEqual DEF Digest, DigestVar
<1>2. CASE s = "pedersen2"
  <2>1. Agrees(Pedersen2(x[1], x[2]), Pedersen2Var(x[1], x[2]))
    BY <1>2, InputTypes, Pedersen2Agrees
  <2> QED BY <1>2, <2>1 DEF Digest, DigestVar
<1>3. CASE s = "bowe_hopwood"
  <2>1. BoweHopwoodVar(x) = BoweHopwoodEvaluate(x)
    BY <1>3, InputTypes, BoweHopwoodVarIs
  <2> QED BY <1>3, <2>1, AgreesWhenEqual DEF Digest, DigestVar
<1>4. CASE s = "bowe_hopwood2"
  <2>1. Agrees(BoweHopwood2(x[1], x[2]), BoweHopwood2Var(x[1], x[2]))
    BY <1>4, InputTypes, BoweHopwood2Agrees
  <2> QED BY <1>4, <2>1 DEF Digest, DigestVar
<1>5. CASE s = "commitment"
  <2>1. PedersenCommitVar(x[1], x[2]) = PedersenCommit(x[1], x[2])
    BY <1>5, InputTypes, CommitmentIs
  <2> QED BY <1>5, <2>1, AgreesWhenEqual DEF Digest, DigestVar
<1> QED BY <1>1, <1>2, <1>3, <1>4, <1>5 DEF SchemesOfHashes

(* What two callers hashed, each in both ways, or nothing yet.             *)
HashedInv ==
  /\ hashScheme \in SchemesOfHashes
  /\ hashScheme \in {"bowe_hopwood", "bowe_hopwood2"} => BoweHopwoodSetup
  /\ digests = <<>> \/ /\ left \in HashInputs[hashScheme] /\ right \in HashInputs[hashScheme]
                       /\ digests = <<Digest(hashScheme, left), Digest(hashScheme, right)>>
                       /\ circuits = <<DigestVar(hashScheme, left), DigestVar(hashScheme, right)>>

LEMMA HashedInvHolds == HashSpec => []HashedInv
<1>1. HashInit => HashedInv
  BY DEF HashInit, HashedInv
<1>2. ASSUME HashedInv, [HashNext]_hashVars PROVE HashedInv'
  <2>1. CASE UNCHANGED hashVars
    BY <1>2, <2>1 DEF HashedInv, hashVars, Digest, Pedersen2, BoweHopwood2
  <2>2. ASSUME NEW x \in HashInputs[hashScheme], NEW y \in HashInputs[hashScheme], HashBoth(x, y)
        PROVE  HashedInv'
    <3>1. /\ left' = x /\ right' = y /\ hashScheme' = hashScheme /\ debug' = debug
          /\ digests' = <<Digest(hashScheme, x), Digest(hashScheme, y)>>
          /\ circuits' = <<DigestVar(hashScheme, x), DigestVar(hashScheme, y)>>
      BY <2>2 DEF HashBoth
    <3> QED BY <1>2, <3>1 DEF HashedInv, Digest, Pedersen2, BoweHopwood2
  <2> QED BY <1>2, <2>1, <2>2 DEF HashNext
<1> QED BY <1>1, <1>2, PTL DEF HashSpec

(* For every group, window and input: where the circuit of a hash or of a  *)
(* commitment can be built the native code returns with the same digest,   *)
(* and with debug assertions neither takes what the other refuses.         *)
THEOREM WindowedCircuitHashesAlike == HashSpec => []CircuitHashesAlike
<1>1. HashedInv => CircuitHashesAlike
  <2> SUFFICES ASSUME HashedInv, digests # <<>> PROVE CircuitHashesAlike
    BY DEF CircuitHashesAlike
  <2>1. PICK d1, d2, c1, c2 : /\ digests = <<d1, d2>> /\ circuits = <<c1, c2>>
                              /\ Agrees(d1, c1) /\ Agrees(d2, c2)
    BY DigestsAgree DEF HashedInv
  <2> QED BY <2>1 DEF CircuitHashesAlike, Agrees
<1> QED BY <1>1, HashedInvHolds, PTL

-----------------------------------------------------------------------------
LEMMA BoweHopwoodBinds ==
  ASSUME SegmentsFit, NEW x \in Seq(ByteValues), NEW y \in Seq(ByteValues)
  PROVE  Binds(BoweHopwoodEvaluate(x), BoweHopwoodEvaluate(y), x, y)
<1> SUFFICES ASSUME BoweHopwoodEvaluate(x) # Panic, BoweHopwoodEvaluate(y) # Panic,
                    BoweHopwoodEvaluate(x) = BoweHopwoodEvaluate(y)
             PROVE  x = y
  BY DEF Binds
<1>1. PICK s, c, L, J : MakeWhole(x, s, c, L, J)
  BY Zenon, BytesAreNumbers, WholeChunksAre
<1>2. /\ s = BitsLSBFirst(x) /\ L = Len(x) /\ c = WholeChunks(s)
      /\ L \in Nat /\ J \in Nat /\ 8 * L <= 3 * J /\ 3 * J <= 8 * L + 2
      /\ c \in Seq(Bits) /\ Len(c) = 3 * J /\ SameFilled(c, s)
  BY Zenon, <1>1 DEF MakeWhole
<1>3. PICK t, d, M, K : MakeWhole(y, t, d, M, K)
  BY Zenon, BytesAreNumbers, WholeChunksAre
<1>0. /\ t = BitsLSBFirst(y) /\ M = Len(y) /\ d = WholeChunks(t)
      /\ M \in Nat /\ K \in Nat /\ 8 * M <= 3 * K /\ 3 * K <= 8 * M + 2
      /\ d \in Seq(Bits) /\ Len(d) = 3 * K /\ SameFilled(d, t)
  BY Zenon, <1>3 DEF MakeWhole
<1>4. /\ ~ (L * ByteBits > InputSizeBits * ChunkSize) /\ ~ (M * ByteBits > InputSizeBits * ChunkSize)
      /\ BoweHopwoodEvaluate(x) = <<BoweHopwoodSum(c)>>
      /\ BoweHopwoodEvaluate(y) = <<BoweHopwoodSum(d)>>
  BY <1>0, <1>2 DEF BoweHopwoodEvaluate
<1>5. J <= InputSizeBits /\ K <= InputSizeBits
  <2>1. PICK n \in Nat : n = InputSizeBits
    BY WindowsHold
  <2>2. L * ByteBits = 8 * L /\ M * ByteBits = 8 * M
    BY <1>2, <1>0, BytesFit
  <2>3. ~ (8 * L > n * 3) /\ ~ (8 * M > n * 3)
    BY <1>4, <2>1, <2>2 DEF ChunkSize
  <2>4. J <= n /\ K <= n
    BY <1>2, <1>0, <2>3
  <2> QED BY <2>1, <2>4
<1>6. BoweHopwoodSum(c) = BoweHopwoodSum(d)
  <2>1. PICK a, b : a = BoweHopwoodSum(c) /\ b = BoweHopwoodSum(d)
    OBVIOUS
  <2>2. <<a>> = <<b>>
    BY Zenon, <1>4, <2>1
  <2>3. a = b
    BY <2>2
  <2> QED BY <2>1, <2>3
<1>7. c = d
  <2>1. ThreesTo(c, InputSizeBits) /\ ThreesTo(d, InputSizeBits)
    <3>1. InputSizeBits \in Nat /\ J \in 0 .. InputSizeBits /\ K \in 0 .. InputSizeBits
      BY <1>2, <1>0, <1>5, WindowsHold
    <3> QED BY <1>2, <1>0, <3>1 DEF ThreesTo
  <2> QED BY Zenon, <1>2, <1>0, <1>6, <2>1, SumTellsSegments
<1>8. L = M
  <2>1. 3 * J = 3 * K
    BY <1>2, <1>0, <1>7
  <2> QED BY <1>2, <1>0, <2>1
<1>9. SameFilled(s, t)
  BY <1>2, <1>0, <1>7 DEF SameFilled
<1>10. SameFilled(x, y)
  BY <1>0, <1>2, <1>9, BitsTellBytes
<1>11. ASSUME NEW p \in 1 .. L PROVE x[p] = y[p]
  <2>1. p \in Nat \ {0} /\ p <= L
    BY <1>2
  <2>2. ValueAt(x, p) = x[p] /\ ValueAt(y, p) = y[p]
    BY <1>0, <1>2, <1>8, <2>1 DEF ValueAt
  <2> QED BY <1>10, <2>1, <2>2 DEF SameFilled
<1> QED BY <1>0, <1>2, <1>8, <1>11, SeqEqual

-----------------------------------------------------------------------------
LEMMA BoweHopwood2Binds ==
  ASSUME SegmentsFit, NEW l1 \in Seq(ByteValues), NEW r1 \in Seq(ByteValues),
         NEW l2 \in Seq(ByteValues), NEW r2 \in Seq(ByteValues)
  PROVE  Binds(BoweHopwood2(l1, r1), BoweHopwood2(l2, r2),
               Resized(l1 \o r1, InputBytes), Resized(l2 \o r2, InputBytes))
<1> SUFFICES ASSUME BoweHopwood2(l1, r1) # Panic, BoweHopwood2(l2, r2) # Panic
             PROVE  BoweHopwood2(l1, r1) = BoweHopwood2(l2, r2)
                      <=> Resized(l1 \o r1, InputBytes) = Resized(l2 \o r2, InputBytes)
  BY DEF Binds
<1>1. PICK x, y : x = Buffer(l1, r1, InputBytes) /\ y = Buffer(l2, r2, InputBytes)
  OBVIOUS
<1>2. /\ BoweHopwood2(l1, r1) = BoweHopwoodEvaluate(x)
      /\ BoweHopwood2(l2, r2) = BoweHopwoodEvaluate(y)
  BY <1>1 DEF BoweHopwood2
<1>3. /\ x \in Seq(ByteValues) /\ x = Resized(l1 \o r1, InputBytes)
      /\ y \in Seq(ByteValues) /\ y = Resized(l2 \o r2, InputBytes)
  BY <1>1, BufferBytes
<1>4. Binds(BoweHopwoodEvaluate(x), BoweHopwoodEvaluate(y), x, y)
  BY <1>3, BoweHopwoodBinds
<1> QED BY <1>2, <1>3, <1>4 DEF Binds

LEMMA DigestsTellInputs ==
  ASSUME NEW s \in SchemesOfHashes, s \in {"bowe_hopwood", "bowe_hopwood2"} => SegmentsFit,
         NEW x \in HashInputs[s], NEW y \in HashInputs[s]
  PROVE  Binds(Digest(s, x), Digest(s, y), Committed(s, x), Committed(s, y))
<1>1. CASE s = "pedersen"
  <2>1. x \in Seq(ByteValues) /\ y \in Seq(ByteValues)
    BY <1>1, WindowAssumption
  <2>2. Digest(s, x) = PedersenEvaluate(x) /\ Digest(s, y) = PedersenEvaluate(y)
    BY <1>1 DEF Digest
  <2>3. Committed(s, x) = Resized(x, InputBytes) /\ Committed(s, y) = Resized(y, InputBytes)
    BY <1>1 DEF Committed
  <2> QED BY <2>1, <2>2, <2>3, PedersenBinds
<1>2. CASE s = "pedersen2"
  <2>1. /\ x[1] \in Seq(ByteValues) /\ x[2] \in Seq(ByteValues)
        /\ y[1] \in Seq(ByteValues) /\ y[2] \in Seq(ByteValues)
    BY <1>2, WindowAssumption
  <2>2. Digest(s, x) = Pedersen2(x[1], x[2]) /\ Digest(s, y) = Pedersen2(y[1], y[2])
    BY <1>2 DEF Digest
  <2>3. /\ Committed(s, x) = Resized(x[1] \o x[2], InputBytes)
        /\ Committed(s, y) = Resized(y[1] \o y[2], InputBytes)
    BY <1>2 DEF Committed
  <2> QED BY <2>1, <2>2, <2>3, Pedersen2Binds
<1>3. CASE s = "bowe_hopwood"
  <2>1. x \in Seq(ByteValues) /\ y \in Seq(ByteValues)
    BY <1>3, WindowAssumption
  <2>2. Digest(s, x) = BoweHopwoodEvaluate(x) /\ Digest(s, y) = BoweHopwoodEvaluate(y)
    BY <1>3 DEF Digest
  <2>3. Committed(s, x) = x /\ Committed(s, y) = y
    BY <1>3 DEF Committed
  <2> QED BY <1>3, <2>1, <2>2, <2>3, BoweHopwoodBinds
<1>4. CASE s = "bowe_hopwood2"
  <2>1. /\ x[1] \in Seq(ByteValues) /\ x[2] \in Seq(ByteValues)
        /\ y[1] \in Seq(ByteValues) /\ y[2] \in Seq(ByteValues)
    BY <1>4, WindowAssumption
  <2>2. Digest(s, x) = BoweHopwood2(x[1], x[2]) /\ Digest(s, y) = BoweHopwood2(y[1], y[2])
    BY <1>4 DEF Digest
  <2>3. /\ Committed(s, x) = Resized(x[1] \o x[2], InputBytes)
        /\ Committed(s, y) = Resized(y[1] \o y[2], InputBytes)
    BY <1>4 DEF Committed
  <2> QED BY <1>4, <2>1, <2>2, <2>3, BoweHopwood2Binds
<1>5. CASE s = "commitment"
  <2>1. /\ x[1] \in Seq(ByteValues) /\ x[2] \in 0 .. (HashOrder - 1)
        /\ y[1] \in Seq(ByteValues) /\ y[2] \in 0 .. (HashOrder - 1)
    BY <1>5, WindowAssumption
  <2>2. Digest(s, x) = PedersenCommit(x[1], x[2]) /\ Digest(s, y) = PedersenCommit(y[1], y[2])
    BY <1>5 DEF Digest
  <2>3. /\ Committed(s, x) = <<Resized(x[1], InputBytes), x[2]>>
        /\ Committed(s, y) = <<Resized(y[1], InputBytes), y[2]>>
    BY <1>5 DEF Committed
  <2> QED BY <2>1, <2>2, <2>3, CommitmentBinds
<1> QED BY <1>1, <1>2, <1>3, <1>4, <1>5 DEF SchemesOfHashes

(* It would with windows of one chunk less than it takes at the most.      *)
LEMMA TwiceThePower ==
  ASSUME NEW n \in Nat
  PROVE  /\ ShiftLeft(2, n) \in Nat /\ ShiftLeft(2, n) = 2 * ShiftLeft(1, n)
         /\ ShiftLeft(2, n) >= n
<1>1. PICK f, p : f = [i \in Nat |-> ShiftLeft(2, i)] /\ p = Powers
  OBVIOUS
<1>2. /\ p \in [Nat -> Nat] /\ p[0] = 1
      /\ \A i \in Nat : p[i] = ShiftLeft(1, i) /\ p[i] >= 1 /\ p[i + 1] = 2 * p[i]
  BY <1>1, PowersAre
<1>3. /\ f \in [Nat -> Nat] /\ f[0] = 2
      /\ \A i \in Nat : f[i] = ShiftLeft(2, i) /\ f[i + 1] = 2 * f[i]
  <2>1. \A i \in Nat : f[i] = ShiftLeft(2, i)
    BY <1>1
  <2>2. ASSUME NEW i \in Nat
        PROVE  ShiftLeft(2, i) \in Nat /\ ShiftLeft(2, 0) = 2 /\ f[i + 1] = 2 * ShiftLeft(2, i)
    <3>1. 2 \in Nat /\ i + 1 \in Nat
      OBVIOUS
    <3> QED BY <2>1, <3>1, ShiftLeftIs
  <2>3. f[0] = 2
    <3>1. 0 \in Nat
      OBVIOUS
    <3> QED BY <2>1, <2>2, <3>1
  <2>4. f \in [Nat -> Nat]
    BY <1>1, <2>1, <2>2
  <2> QED BY <2>1, <2>2, <2>3, <2>4
<1> DEFINE T == {i \in Nat : f[i] = 2 * p[i] /\ f[i] >= i}
<1>4. 0 \in T
  BY <1>2, <1>3
<1>5. ASSUME NEW i \in Nat, i \in T PROVE i + 1 \in T
  <2>1. /\ f[i] \in Nat /\ p[i] \in Nat /\ p[i] >= 1 /\ p[i + 1] = 2 * p[i] /\ f[i + 1] = 2 * f[i]
        /\ f[i] = 2 * p[i] /\ f[i] >= i
    BY <1>2, <1>3, <1>5
  <2> QED BY <2>1
<1>6. n \in T
  <2> HIDE DEF T
  <2> QED BY <1>4, <1>5, InductionOnSet
<1>7. f[n] \in Nat /\ f[n] = ShiftLeft(2, n) /\ p[n] = ShiftLeft(1, n)
  BY <1>2, <1>3
<1> QED BY <1>6, <1>7

LEMMA ShorterWindowsFit ==
  ASSUME WindowSize < MaximumNumChunks
  PROVE  SegmentsFit
<1>0. HashOrder \in Nat \ {0, 1} /\ WindowSize \in Nat \ {0}
  BY WindowAssumption
<1>1. PICK h \in Nat : h = (HashOrder - 1) \div 2 /\ h <= HashOrder /\ 2 * h <= HashOrder
  BY <1>0
<1> DEFINE S == {c \in Nat : ShiftLeft(2, 4 * c) >= h}
<1>2. HashOrder \in S
  <2>1. HashOrder \in Nat /\ 4 * HashOrder \in Nat /\ 4 * HashOrder >= HashOrder
    BY <1>0
  <2>2. ShiftLeft(2, 4 * HashOrder) \in Nat /\ ShiftLeft(2, 4 * HashOrder) >= 4 * HashOrder
    BY Zenon, <2>1, TwiceThePower
  <2> QED BY <1>1, <2>1, <2>2
<1>3. PICK m \in S : \A n \in S : m <= n
  <2>1. S \subseteq Nat /\ S # {}
    BY <1>2
  <2> HIDE DEF S
  <2> QED BY <2>1, LeastNumber
<1>4. m \in 0 .. HashOrder
  BY <1>0, <1>2, <1>3
<1>5. ASSUME NEW b \in 0 .. (m - 1) PROVE ShiftLeft(2, 4 * b) < h
  <2>1. b \in Nat /\ ~ (m <= b) /\ 4 * b \in Nat
    OBVIOUS
  <2>2. ~ (ShiftLeft(2, 4 * b) >= h)
    BY <1>3, <2>1
  <2>3. ShiftLeft(2, 4 * b) \in Nat
    BY <2>1, TwiceThePower
  <2> QED BY <1>1, <2>2, <2>3
<1>6. ShiftLeft(2, 4 * m) >= h
  OBVIOUS
<1>7. PICK c : c = MaximumNumChunks
  OBVIOUS
<1>8. c \in 0 .. HashOrder /\ \A b \in 0 .. (c - 1) : ShiftLeft(2, 4 * b) < h
  <2>1. \E k \in 0 .. HashOrder :
          ShiftLeft(2, 4 * k) >= h /\ \A b \in 0 .. (k - 1) : ShiftLeft(2, 4 * b) < h
    BY <1>4, <1>5, <1>6
  <2>2. c = CHOOSE k \in 0 .. HashOrder :
              ShiftLeft(2, 4 * k) >= h /\ \A b \in 0 .. (k - 1) : ShiftLeft(2, 4 * b) < h
    BY <1>1, <1>7 DEF MaximumNumChunks
  <2> HIDE DEF S
  <2> QED BY Zenon, <2>1, <2>2
<1>9. ShiftLeft(2, 4 * WindowSize) < h
  <2>1. WindowSize \in 0 .. (c - 1)
    BY <1>0, <1>7, <1>8
  <2> QED BY <1>8, <2>1
<1>10. PICK p \in Nat : p = ShiftLeft(1, 4 * WindowSize) /\ 2 * p < h
  <2>1. PICK n \in Nat : n = 4 * WindowSize
    BY <1>0
  <2>2. ShiftLeft(1, n) \in Nat /\ ShiftLeft(2, n) = 2 * ShiftLeft(1, n)
    <3>1. 1 \in Nat
      OBVIOUS
    <3> QED BY <3>1, TwiceThePower, ShiftLeftIs
  <2> QED BY <1>9, <2>1, <2>2
<1>11. 8 * (p - 1) < 15 * HashOrder
  BY <1>0, <1>1, <1>10
<1> QED BY <1>10, <1>11 DEF SegmentsFit

(* For every group, window and input two calls that return give the same   *)
(* digest exactly for the same input: Pedersen's hashes and commitment as  *)
(* they are, Bowe-Hopwood's where the segments are short enough for the    *)
(* order, which setup sees to for all windows but the longest it takes     *)
(* (ShorterWindowsFit).                                                    *)
THEOREM WindowedDigestsBind ==
  HashSpec => []((hashScheme \in {"bowe_hopwood", "bowe_hopwood2"} => SegmentsFit) => DigestsBind)
<1>1. HashedInv => ((hashScheme \in {"bowe_hopwood", "bowe_hopwood2"} => SegmentsFit) => DigestsBind)
  <2> SUFFICES ASSUME HashedInv, digests # <<>>,
                      hashScheme \in {"bowe_hopwood", "bowe_hopwood2"} => SegmentsFit
               PROVE  DigestsBind
    BY DEF DigestsBind
  <2>1. /\ hashScheme \in SchemesOfHashes
        /\ left \in HashInputs[hashScheme] /\ right \in HashInputs[hashScheme]
        /\ digests = <<Digest(hashScheme, left), Digest(hashScheme, right)>>
    BY DEF HashedInv
  <2>2. PICK d, e : d = Digest(hashScheme, left) /\ e = Digest(hashScheme, right)
    OBVIOUS
  <2>3. Binds(d, e, Committed(hashScheme, left), Committed(hashScheme, right))
    BY <2>1, <2>2, DigestsTellInputs
  <2>4. digests = <<d, e>>
    BY <2>1, <2>2
  <2> QED BY <2>3, <2>4 DEF DigestsBind, Binds
<1> QED BY <1>1, HashedInvHolds, PTL

-----------------------------------------------------------------------------
(* Packed inputs.  What a power of two leaves of a number are its low      *)
(* bits, the shifted number is the rest.                                   *)
LEMMA PowersAdd ==
  ASSUME NEW a \in Nat, NEW b \in Nat
  PROVE  ShiftLeft(1, a + b) = ShiftLeft(1, a) * ShiftLeft(1, b)
<1>1. PICK p : p = Powers
  OBVIOUS
<1>2. /\ p \in [Nat -> Nat] /\ p[0] = 1
      /\ \A i \in Nat : p[i] = ShiftLeft(1, i) /\ p[i + 1] = 2 * p[i]
  BY <1>1, PowersAre
<1> DEFINE T == {i \in Nat : p[a + i] = p[a] * p[i]}
<1>3. 0 \in T
  <2>1. p[a] \in Nat /\ p[a] * 1 = p[a] /\ a + 0 = a
    BY <1>2
  <2> QED BY <1>2, <2>1
<1>4. ASSUME NEW i \in Nat, i \in T PROVE i + 1 \in T
  <2>1. PICK j \in Nat : j = a + i /\ a + (i + 1) = j + 1
    OBVIOUS
  <2>2. p[j + 1] = 2 * p[j] /\ p[i + 1] = 2 * p[i] /\ p[j] = p[a] * p[i]
    BY <1>2, <1>4, <2>1
  <2>3. p[a] \in Nat /\ p[i] \in Nat
    BY <1>2
  <2>4. 2 * (p[a] * p[i]) = p[a] * (2 * p[i])
    BY <2>3
  <2> QED BY <2>1, <2>2, <2>4
<1>5. b \in T
  <2> HIDE DEF T
  <2> QED BY <1>3, <1>4, InductionOnSet
<1>6. PICK c \in Nat : c = a + b
  OBVIOUS
<1> QED BY <1>2, <1>5, <1>6

LEMMA PowerIs ==
  ASSUME NEW n \in Nat
  PROVE  ShiftLeft(1, n) \in Nat \ {0}
BY PowersAre

LEMMA RestFound ==
  ASSUME NEW q \in Nat \ {0}, NEW r \in 0 .. (q - 1), NEW k \in Int, NEW z \in Int, z = r + q * k
  PROVE  z % q = r
<1>1. PICK d \in Int, e \in Int : d = z \div q /\ e = z % q
  OBVIOUS
<1>2. e \in 0 .. (q - 1) /\ z = q * d + e
  BY <1>1
<1>3. PICK m \in Int : m = d - k
  OBVIOUS
<1>4. q * m = q * d - q * k /\ q * d \in Int /\ q * k \in Int
  BY <1>3
<1>5. r - e = q * m
  BY <1>2, <1>4
<1>6. m >= 1 => q * m >= q
  OBVIOUS
<1>7. m <= -1 => q * m <= -q
  OBVIOUS
<1>8. m = 0
  BY <1>2, <1>5, <1>6, <1>7
<1>9. q * m = 0
  BY <1>8
<1> QED BY <1>1, <1>2, <1>5, <1>9

LEMMA LowBits ==
  ASSUME NEW z \in Nat, NEW n \in Nat
  PROVE  /\ FromBitsLE(BitsLE(z, n)) \in 0 .. (ShiftLeft(1, n) - 1)
         /\ z = FromBitsLE(BitsLE(z, n)) + ShiftLeft(1, n) * ShiftRight(z, n)
<1>1. PICK f, p, s : f = Shifted(z) /\ p = Powers /\ s = BitsLE(z, n)
  OBVIOUS
<1>2. /\ f \in [Nat -> Nat] /\ f[0] = z
      /\ \A i \in Nat : f[i] = ShiftRight(z, i) /\ f[i + 1] = f[i] \div 2
  BY <1>1, ShiftedIs
<1>3. /\ p \in [Nat -> Nat] /\ p[0] = 1
      /\ \A i \in Nat : p[i] = ShiftLeft(1, i) /\ p[i + 1] = 2 * p[i]
  BY <1>1, PowersAre
<1>4. s \in Seq(Bits) /\ Len(s) = n /\ \A k \in 1 .. n : s[k] = ShiftRight(z, k - 1) % 2
  BY <1>1, BitsLEIs
<1>5. PICK v : /\ v \in [0 .. n -> Int] /\ v[0] = 0 /\ v[n] = FromBitsLE(s)
               /\ \A i \in 1 .. n : v[i] = s[n + 1 - i] + 2 * v[i - 1]
  <2>1. \E v : BitValues(v, s) /\ v[Len(s)] = FromBitsLE(s)
    BY Zenon, <1>4, BitsAreNumbers, ValueLoop
  <2> QED BY Zenon, <1>4, <2>1 DEF BitValues
<1>6. PICK R \in Nat : R = f[n]
  BY <1>2
<1> DEFINE T == {i \in Nat : i <= n => f[n - i] = v[i] + p[i] * R}
<1>7. 0 \in T
  <2>1. n - 0 = n /\ 1 * R = R /\ 0 + R = R
    OBVIOUS
  <2> QED BY <1>3, <1>5, <1>6, <2>1
<1>8. ASSUME NEW i \in Nat, i \in T PROVE i + 1 \in T
  <2> SUFFICES ASSUME i + 1 <= n PROVE f[n - (i + 1)] = v[i + 1] + p[i + 1] * R
    OBVIOUS
  <2>1. PICK k, j : k = i + 1 /\ j = n - (i + 1)
    OBVIOUS
  <2>2. /\ k \in 1 .. n /\ k - 1 = i /\ i <= n /\ i \in 0 .. n
        /\ j \in Nat /\ j + 1 = n - i /\ n + 1 - k = j + 1 /\ j + 1 \in 1 .. n /\ (j + 1) - 1 = j
    BY <2>1
  <2>3. f[j + 1] = v[i] + p[i] * R
    BY <1>8, <2>2
  <2>4. v[k] = s[j + 1] + 2 * v[i]
    BY <1>5, <2>2
  <2>5. s[j + 1] = f[j] % 2
    BY <1>2, <1>4, <2>2
  <2>6. f[j + 1] = f[j] \div 2 /\ f[j] \in Nat /\ p[k] = 2 * p[i] /\ p[i] \in Nat
    BY <1>2, <1>3, <2>1, <2>2
  <2>7. f[j] = (f[j] % 2) + 2 * (f[j] \div 2)
    BY <2>6
  <2>8. PICK x \in Int, y \in Int : x = v[i] /\ y = p[i] * R /\ p[k] * R = 2 * y
    <3>1. v[i] \in Int
      BY <1>5, <2>2
    <3>2. p[i] * R \in Int /\ (2 * p[i]) * R = 2 * (p[i] * R)
      BY <2>6
    <3> QED BY <2>6, <3>1, <3>2
  <2>9. f[j] = s[j + 1] + 2 * (x + y) /\ v[k] = s[j + 1] + 2 * x
    BY <2>3, <2>4, <2>5, <2>6, <2>7, <2>8
  <2>10. s[j + 1] \in Int
    BY <2>5, <2>6
  <2>11. f[j] = v[k] + p[k] * R
    BY <2>8, <2>9, <2>10
  <2> QED BY <2>1, <2>11
<1>9. n \in T
  <2> HIDE DEF T
  <2> QED BY <1>7, <1>8, InductionOnSet
<1>10. f[0] = v[n] + p[n] * R
  <2>1. n <= n /\ n - n = 0
    OBVIOUS
  <2> QED BY <1>9, <2>1
<1>11. FromBitsLE(s) \in Nat /\ FromBitsLE(s) < ShiftLeft(1, n)
  BY <1>4, BitsBelow
<1>12. FromBitsLE(s) \in 0 .. (ShiftLeft(1, n) - 1)
  BY <1>11, PowerIs
<1>13. z = FromBitsLE(s) + ShiftLeft(1, n) * ShiftRight(z, n)
  BY <1>2, <1>3, <1>5, <1>6, <1>10
<1> QED BY <1>1, <1>12, <1>13

LEMMA RestIsLowBits ==
  ASSUME NEW z \in Nat, NEW n \in Nat
  PROVE  /\ z % ShiftLeft(1, n) = FromBitsLE(BitsLE(z, n))
         /\ z % ShiftLeft(1, n) \in 0 .. (ShiftLeft(1, n) - 1)
         /\ z = (z % ShiftLeft(1, n)) + ShiftLeft(1, n) * ShiftRight(z, n)
<1> DEFINE q == ShiftLeft(1, n)
           r == FromBitsLE(BitsLE(z, n))
           k == ShiftRight(z, n)
<1>1. q \in Nat \ {0} /\ k \in Int /\ z \in Int
  <2>1. \A i \in Nat : i \in Int
    OBVIOUS
  <2> QED BY <2>1, PowerIs, ShiftRightIs
<1>2. r \in 0 .. (q - 1) /\ z = r + q * k
  BY Zenon, LowBits
<1> HIDE DEF q, r, k
<1>3. z % q = r
  BY <1>1, <1>2, RestFound
<1>4. z % q = r /\ z % q \in 0 .. (q - 1) /\ z = (z % q) + q * k
  BY Zenon, <1>2, <1>3
<1> QED BY Zenon, <1>4 DEF q, r, k

(* The bits of the value of bits are the bits.                             *)
LEMMA BitsOfValue ==
  ASSUME NEW s \in Seq(Bits), NEW n \in Nat, Len(s) <= n
  PROVE  BitsLE(FromBitsLE(s), n) = Resized(s, n)
<1>1. PICK t, u : t = Resized(s, n) /\ u = BitsLE(FromBitsLE(s), n)
  OBVIOUS
<1>2. PICK x : x = FromBitsLE(s)
  OBVIOUS
<1>3. t \in Seq(Bits) /\ Len(t) = n
  <2>1. 0 \in Bits
    BY DEF Bits
  <2> QED BY <1>1, <2>1, ResizedIs
<1>4. FromBitsLE(t) = x
  BY <1>1, <1>2, BitsAreNumbers, FilledValue
<1>5. x \in Nat /\ x < ShiftLeft(1, n)
  BY <1>3, <1>4, BitsBelow
<1>6. u \in Seq(Bits) /\ Len(u) = n /\ \A k \in 1 .. n : u[k] = ShiftRight(x, k - 1) % 2
  BY <1>1, <1>2, <1>5, BitsLEIs
<1>7. ShiftRight(x, Len(u)) = 0
  BY <1>5, <1>6, BelowShiftedAway
<1>8. FromBitsLE(u) = x
  BY <1>5, <1>6, <1>7, BitsAreNumbers, BitsMakeNumber
<1> QED BY <1>1, <1>3, <1>4, <1>6, <1>8, BitsTold

-----------------------------------------------------------------------------
(* Sequences turned round, put one after the other and cut again.          *)
LEMMA ReverseIs ==
  ASSUME NEW X, NEW s \in Seq(X)
  PROVE  /\ Reverse(s) \in Seq(X) /\ Len(Reverse(s)) = Len(s)
         /\ \A i \in 1 .. Len(s) : Reverse(s)[i] = s[Len(s) + 1 - i]
         /\ Reverse(Reverse(s)) = s
<1>1. PICK L : L = Len(s)
  OBVIOUS
<1>2. L \in Nat
  BY <1>1, LenProperties
<1>3. \A i \in 1 .. L : L - i + 1 \in 1 .. L /\ L - i + 1 = L + 1 - i /\ L - (L - i + 1) + 1 = i
  BY <1>2
<1>4. \A i \in 1 .. L : s[i] \in X
  BY <1>1, ElementOfSeq
<1>5. PICK t : t = Reverse(s)
  OBVIOUS
<1>6. t = [i \in 1 .. L |-> s[L - i + 1]]
  BY <1>1, <1>5 DEF Reverse
<1>7. t \in [1 .. L -> X]
  BY <1>3, <1>4, <1>6
<1>8. t \in Seq(X) /\ Len(t) = L
  BY <1>2, <1>7
<1>9. \A i \in 1 .. L : t[i] = s[L + 1 - i]
  BY <1>3, <1>6
<1>10. Reverse(t) = [i \in 1 .. L |-> t[L - i + 1]]
  BY <1>8 DEF Reverse
<1>11. \A i \in 1 .. L : t[L - i + 1] = s[i]
  BY <1>3, <1>6
<1>12. PICK u : u = Reverse(t)
  OBVIOUS
<1>13. u \in [1 .. L -> X] /\ \A i \in 1 .. L : u[i] = s[i]
  BY <1>4, <1>10, <1>11, <1>12
<1>14. u \in Seq(X) /\ Len(u) = L
  BY <1>2, <1>13
<1>15. u = s
  BY <1>1, <1>13, <1>14, SeqEqual
<1> QED BY <1>1, <1>5, <1>8, <1>9, <1>12, <1>15

(* All of length n but the last, which may be shorter: as chunks are.      *)
Whole(seqs, n) ==
  /\ \A w \in 1 .. Len(seqs) : Len(seqs[w]) \in 0 .. n
  /\ \A w \in 1 .. (Len(seqs) - 1) : Len(seqs[w]) = n

LaidOut(f, seqs, n, i) ==
  /\ Len(f) = (i - 1) * n + Len(seqs[i])
  /\ \A w \in 1 .. i : \A k \in 1 .. Len(seqs[w]) : f[(w - 1) * n + k] = seqs[w][k]

LEMMA ConcatAt ==
  ASSUME NEW X, NEW f \in Seq(X), NEW s \in Seq(X), NEW t, t = f \o s
  PROVE  /\ t \in Seq(X) /\ Len(t) = Len(f) + Len(s)
         /\ \A p \in 1 .. Len(f) : t[p] = f[p]
         /\ \A k \in 1 .. Len(s) : t[Len(f) + k] = s[k]
<1>1. /\ t \in Seq(X) /\ Len(t) = Len(f) + Len(s)
      /\ \A p \in 1 .. Len(f) + Len(s) : t[p] = IF p <= Len(f) THEN f[p] ELSE s[p - Len(f)]
  BY ConcatProperties
<1>2. Len(f) \in Nat /\ Len(s) \in Nat
  OBVIOUS
<1>3. ASSUME NEW k \in 1 .. Len(s) PROVE t[Len(f) + k] = s[k]
  <2>1. PICK p : p = Len(f) + k
    OBVIOUS
  <2>2. p \in 1 .. Len(f) + Len(s) /\ ~ (p <= Len(f)) /\ p - Len(f) = k
    BY <1>2, <2>1
  <2> QED BY <1>1, <2>1, <2>2
<1>4. \A p \in 1 .. Len(f) : p \in 1 .. Len(f) + Len(s) /\ p <= Len(f)
  BY <1>2
<1> QED BY <1>1, <1>3, <1>4

LEMMA LaidOutNext ==
  ASSUME NEW X, NEW seqs, NEW n \in Nat \ {0}, NEW i \in Nat \ {0}, NEW f \in Seq(X),
         LaidOut(f, seqs, n, i), Len(seqs[i]) = n, \A w \in 1 .. i : Len(seqs[w]) \in 0 .. n,
         NEW s \in Seq(X), s = seqs[i + 1]
  PROVE  f \o s \in Seq(X) /\ LaidOut(f \o s, seqs, n, i + 1)
<1>1. PICK t, a, j : t = f \o s /\ a = (i - 1) * n /\ j = i + 1
  OBVIOUS
<1>2. a \in Nat /\ Len(f) = a + n /\ (j - 1) * n = a + n /\ j \in Nat
  <2>1. (i - 1) * n \in Nat /\ i * n = (i - 1) * n + n /\ (i + 1) - 1 = i
    OBVIOUS
  <2>2. Len(f) = (i - 1) * n + n
    BY Zenon DEF LaidOut
  <2> QED BY <1>1, <2>1, <2>2
<1>3. /\ t \in Seq(X) /\ Len(t) = Len(f) + Len(s)
      /\ \A p \in 1 .. Len(f) : t[p] = f[p]
      /\ \A k \in 1 .. Len(s) : t[Len(f) + k] = s[k]
  BY <1>1, ConcatAt
<1>4. ASSUME NEW w \in 1 .. j, NEW k \in 1 .. Len(seqs[w]) PROVE t[(w - 1) * n + k] = seqs[w][k]
  <2>1. CASE w = j
    <3>1. (w - 1) * n = Len(f) /\ seqs[w] = s
      BY <1>1, <1>2, <2>1
    <3>2. k \in 1 .. Len(s)
      BY <3>1
    <3> QED BY <1>3, <3>1, <3>2
  <2>2. CASE w # j
    <3>1. w \in 1 .. i
      BY <1>1, <2>2
    <3>2. PICK b \in Nat : b = (w - 1) * n /\ b <= a
      <4>1. (w - 1) * n \in Nat /\ (w - 1) * n <= (i - 1) * n
        BY <3>1
      <4> QED BY <1>1, <4>1
    <3>3. k \in Nat \ {0} /\ k <= n
      BY <3>1
    <3>4. b + k \in 1 .. Len(f)
      <4>1. a \in Nat /\ Len(f) = a + n /\ b <= a
        BY Zenon, <1>2, <3>2
      <4>2. PICK l : l = Len(f)
        OBVIOUS
      <4>3. l = a + n
        BY <4>1, <4>2
      <4>4. b + k \in 1 .. l
        BY <3>3, <4>1, <4>3
      <4> QED BY <4>2, <4>4
    <3>5. f[(w - 1) * n + k] = seqs[w][k]
      BY Zenon, <3>1 DEF LaidOut
    <3> QED BY <1>3, <3>2, <3>4, <3>5
  <2> QED BY <2>1, <2>2
<1>5. Len(t) = (j - 1) * n + Len(seqs[j])
  BY <1>1, <1>2, <1>3
<1>6. LaidOut(t, seqs, n, j)
  BY Zenon, <1>4, <1>5 DEF LaidOut
<1> QED BY Zenon, <1>1, <1>3, <1>6

LEMMA FlatIsLaidOut ==
  ASSUME NEW X, NEW n \in Nat \ {0}, NEW seqs, seqs \in Seq(Seq(X)), Len(seqs) # 0, Whole(seqs, n)
  PROVE  FlattenSeq(seqs) \in Seq(X) /\ LaidOut(FlattenSeq(seqs), seqs, n, Len(seqs))
<1>0. PICK N : N = Len(seqs)
  OBVIOUS
<1>1. N \in Nat \ {0} /\ \A i \in 1 .. N : seqs[i] \in Seq(X)
  BY <1>0
<1>2. /\ \A w \in 1 .. N : Len(seqs[w]) \in 0 .. n
      /\ \A w \in 1 .. (N - 1) : Len(seqs[w]) = n
  BY Zenon, <1>0 DEF Whole
<1>3. PICK f : f[N] = FlattenSeq(seqs) /\ \A i \in 1 .. N : Joins(f, seqs, i)
  <2>1. \E f : Flattens(f, seqs)
    BY FlatLoop
  <2> QED BY <1>0, <2>1 DEF Flattens
<1> DEFINE T == {i \in Nat : i + 1 <= N => f[i + 1] \in Seq(X) /\ LaidOut(f[i + 1], seqs, n, i + 1)}
<1>4. 0 \in T
  <2>1. 1 \in 1 .. N
    BY <1>1
  <2>2. f[1] = seqs[1]
    BY <1>3, <2>1 DEF Joins
  <2>3. seqs[1] \in Seq(X) /\ Len(seqs[1]) \in Nat /\ (1 - 1) * n = 0
    BY <1>1, <2>1
  <2>4. Len(seqs[1]) = (1 - 1) * n + Len(seqs[1])
    <3>1. PICK l \in Nat : l = Len(seqs[1])
      BY <2>3
    <3>2. PICK z : z = (1 - 1) * n
      OBVIOUS
    <3>3. z = 0
      BY Zenon, <2>3, <3>2
    <3>4. l = z + l
      BY <3>3
    <3> QED BY Zenon, <3>1, <3>2, <3>4
  <2>5. ASSUME NEW w \in 1 .. 1, NEW k \in 1 .. Len(seqs[w]) PROVE seqs[1][(w - 1) * n + k] = seqs[w][k]
    <3>1. w = 1 /\ (w - 1) * n = 0
      OBVIOUS
    <3>2. (w - 1) * n + k = k
      BY <3>1
    <3> QED BY <3>1, <3>2
  <2>6. LaidOut(seqs[1], seqs, n, 1)
    BY Zenon, <2>4, <2>5 DEF LaidOut
  <2> QED BY <2>2, <2>3, <2>6
<1>5. ASSUME NEW i \in Nat, i \in T PROVE i + 1 \in T
  <2> SUFFICES ASSUME i + 1 + 1 <= N
               PROVE  f[i + 1 + 1] \in Seq(X) /\ LaidOut(f[i + 1 + 1], seqs, n, i + 1 + 1)
    OBVIOUS
  <2>1. PICK j \in Nat \ {0} : j = i + 1
    OBVIOUS
  <2>2. PICK k \in Nat \ {0} : k = j + 1
    OBVIOUS
  <2>3. /\ k \in 1 .. N /\ k # 1 /\ k - 1 = j /\ j <= N /\ j \in 1 .. (N - 1)
        /\ \A w \in 1 .. j : w \in 1 .. N
    BY <1>1, <2>1, <2>2
  <2>4. f[j] \in Seq(X) /\ LaidOut(f[j], seqs, n, j)
    BY <1>5, <2>1, <2>3
  <2>5. f[k] = f[j] \o seqs[k]
    BY <1>3, <2>3 DEF Joins
  <2>6. seqs[k] \in Seq(X) /\ Len(seqs[j]) = n /\ \A w \in 1 .. j : Len(seqs[w]) \in 0 .. n
    BY <1>1, <1>2, <2>3
  <2>7. f[j] \o seqs[k] \in Seq(X) /\ LaidOut(f[j] \o seqs[k], seqs, n, j + 1)
    BY <2>2, <2>4, <2>6, LaidOutNext
  <2>8. f[k] \in Seq(X) /\ LaidOut(f[k], seqs, n, k)
    BY Zenon, <2>2, <2>5, <2>7
  <2> QED BY Zenon, <2>1, <2>2, <2>8
<1>6. PICK M \in Nat : N = M + 1
  <2>1. N - 1 \in Nat /\ N = (N - 1) + 1
    BY <1>1
  <2> QED BY <2>1
<1>7. M \in T
  <2> HIDE DEF T
  <2> QED BY <1>4, <1>5, InductionOnSet
<1>8. f[N] \in Seq(X) /\ LaidOut(f[N], seqs, n, N)
  <2>1. M + 1 <= N
    BY <1>1, <1>6
  <2> QED BY <1>6, <1>7, <2>1
<1> QED BY Zenon, <1>0, <1>3, <1>8

-----------------------------------------------------------------------------
LEMMA EmptyFlat ==
  ASSUME NEW X, NEW seqs \in Seq(X), Len(seqs) = 0
  PROVE  FlattenSeq(seqs) = <<>> /\ seqs = <<>>
<1>1. seqs = <<>>
  BY Zenon, EmptySeq
<1> QED BY <1>1 DEF FlattenSeq

(* The chunks of a sequence, put together, are the sequence.               *)
LEMMA FlatChunks ==
  ASSUME NEW X, NEW s \in Seq(X), NEW n \in Nat \ {0}
  PROVE  FlattenSeq(InChunks(s, n)) = s
<1>1. PICK cs, L, C : cs = InChunks(s, n) /\ L = Len(s) /\ C = (L + n - 1) \div n
  OBVIOUS
<1>2. L \in Nat /\ cs \in Seq(Seq(X)) /\ Len(cs) = C
  BY <1>1, ChunksAre, LenProperties
<1>3. C \in Nat /\ \A w \in Nat \ {0} : w <= C <=> (w - 1) * n < L
  <2>1. 1 \in Nat \ {0}
    OBVIOUS
  <2>2. C \in Nat
    BY <1>1, <1>2, <2>1, ChunksReach
  <2>3. \A w \in Nat \ {0} : w <= C <=> (w - 1) * n < L
    BY <1>1, <1>2, ChunksReach
  <2> QED BY <2>2, <2>3
<1>4. ASSUME NEW w \in 1 .. C
      PROVE  /\ cs[w] \in Seq(X) /\ Len(cs[w]) = ChunkLen(L, n, w) /\ ChunkLen(L, n, w) \in 1 .. n
             /\ \A k \in 1 .. ChunkLen(L, n, w) : cs[w][k] = s[(w - 1) * n + k]
  <2>1. cs[w] \in Seq(X) /\ ChunkOf(cs[w], s, n, w)
    BY Zenon, <1>1, <1>2, ChunkIs
  <2> QED BY Zenon, <1>1, <2>1 DEF ChunkOf
<1>5. CASE C = 0
  <2>1. L = 0
    <3>1. 1 \in Nat \ {0} /\ ~ (1 <= 0) /\ (1 - 1) * n = 0
      OBVIOUS
    <3>2. ~ (0 < L)
      BY <1>3, <1>5, <3>1
    <3> QED BY <1>2, <3>2
  <2>2. FlattenSeq(cs) = <<>> /\ s = <<>>
    BY Zenon, <1>1, <1>2, <1>5, <2>1, EmptyFlat
  <2> QED BY Zenon, <1>1, <2>2
<1>6. CASE C # 0
  <2>0. C \in Nat \ {0} /\ C \in 1 .. C
    BY <1>3, <1>6
  <2>1. ASSUME NEW w \in 1 .. (C - 1) PROVE ChunkLen(L, n, w) = n
    <3>1. PICK v : v = w + 1
      OBVIOUS
    <3>2. v \in Nat \ {0} /\ v <= C /\ v - 1 = w
      BY <1>3, <3>1
    <3>3. w * n < L
      BY <1>3, <3>2
    <3> QED BY <3>3 DEF ChunkLen
  <2>2. ChunkLen(L, n, C) = L - (C - 1) * n /\ L <= n * C
    <3>1. PICK v : v = C + 1
      OBVIOUS
    <3>2. v \in Nat \ {0} /\ ~ (v <= C) /\ v - 1 = C
      BY <1>3, <3>1
    <3>3. ~ (C * n < L)
      BY <1>3, <3>2
    <3>4. C * n \in Nat /\ C * n = n * C
      BY <1>3
    <3>5. L <= n * C
      BY <1>2, <3>3, <3>4
    <3> QED BY <3>3, <3>5 DEF ChunkLen
  <2>3. Whole(cs, n)
    <3>1. \A w \in 1 .. C : Len(cs[w]) \in 0 .. n
      <4> TAKE w \in 1 .. C
      <4>1. PICK l : l = Len(cs[w]) /\ l \in 1 .. n
        BY <1>4
      <4> QED BY <4>1
    <3>2. \A w \in 1 .. (C - 1) : w \in 1 .. C
      BY <1>3
    <3>3. \A w \in 1 .. (C - 1) : Len(cs[w]) = n
      BY Zenon, <1>4, <2>1, <3>2
    <3> QED BY Zenon, <1>2, <3>1, <3>3 DEF Whole
  <2>4. PICK F : F = FlattenSeq(cs) /\ F \in Seq(X) /\ LaidOut(F, cs, n, C)
    BY Zenon, <1>2, <1>6, <2>3, FlatIsLaidOut
  <2>5. /\ Len(F) = (C - 1) * n + Len(cs[C])
        /\ \A w \in 1 .. C : \A k \in 1 .. Len(cs[w]) : F[(w - 1) * n + k] = cs[w][k]
    BY Zenon, <2>4 DEF LaidOut
  <2>6. Len(F) = L
    <3>1. Len(cs[C]) = L - (C - 1) * n
      BY Zenon, <1>4, <2>0, <2>2
    <3>2. PICK a, l, z : a = (C - 1) * n /\ l = Len(cs[C]) /\ z = Len(F)
      OBVIOUS
    <3>3. l = L - a /\ z = a + l
      BY Zenon, <2>5, <3>1, <3>2
    <3>5. a \in Int
      BY <1>3, <3>2
    <3>4. z = L
      BY <1>2, <3>3, <3>5
    <3> QED BY Zenon, <3>2, <3>4
  <2>7. ASSUME NEW p \in 1 .. L PROVE F[p] = s[p]
    <3>1. p \in Nat \ {0} /\ p <= n * C
      <4>1. n * C \in Nat
        BY <1>3
      <4> QED BY <1>2, <2>2, <4>1
    <3>2. PICK w \in 1 .. C, k \in 1 .. n : p = (w - 1) * n + k
      BY Zenon, <2>0, <3>1, WindowOf
    <3>3. k \in 1 .. ChunkLen(L, n, w)
      <4>1. CASE w * n < L
        BY <4>1 DEF ChunkLen
      <4>2. CASE ~ (w * n < L)
        <5>1. ChunkLen(L, n, w) = L - (w - 1) * n
          BY <4>2 DEF ChunkLen
        <5>2. PICK a \in Int : a = (w - 1) * n
          BY <1>3
        <5>3. p = a + k /\ ChunkLen(L, n, w) = L - a
          BY Zenon, <3>2, <5>1, <5>2
        <5>4. k \in 1 .. (L - a)
          BY <1>2, <5>3
        <5> QED BY <5>3, <5>4
      <4> QED BY <4>1, <4>2
    <3>4. k \in 1 .. Len(cs[w])
      BY Zenon, <1>4, <3>3
    <3>5. F[p] = cs[w][k] /\ cs[w][k] = s[p]
      BY Zenon, <1>4, <2>5, <3>2, <3>3, <3>4
    <3> QED BY Zenon, <3>5
  <2>8. F = s
    BY <1>1, <2>4, <2>6, <2>7, SeqEqual
  <2> QED BY Zenon, <1>1, <2>4, <2>8
<1> QED BY <1>5, <1>6

(* Sequences of one length, put together, are cut into themselves.         *)
LEMMA ChunksOfFlat ==
  ASSUME NEW X, NEW n \in Nat \ {0}, NEW seqs, seqs \in Seq(Seq(X)),
         \A i \in 1 .. Len(seqs) : Len(seqs[i]) = n
  PROVE  FlattenSeq(seqs) \in Seq(X) /\ InChunks(FlattenSeq(seqs), n) = seqs
<1>1. PICK N, F, cs, L : /\ N = Len(seqs) /\ F = FlattenSeq(seqs) /\ cs = InChunks(F, n)
                         /\ L = Len(F)
  OBVIOUS
<1>2. N \in Nat /\ \A i \in 1 .. N : seqs[i] \in Seq(X) /\ Len(seqs[i]) = n
  BY <1>1
<1>3. /\ F \in Seq(X) /\ L = N * n
      /\ \A w \in 1 .. N : \A k \in 1 .. n : F[(w - 1) * n + k] = seqs[w][k]
  <2>1. CASE N = 0
    <3>1. F = <<>>
      BY Zenon, <1>1, <2>1, EmptyFlat
    <3>2. F \in Seq(X) /\ L = 0
      BY <1>1, <3>1
    <3>3. 0 * n = 0 /\ 1 .. 0 = {}
      OBVIOUS
    <3> QED BY Zenon, <2>1, <3>2, <3>3
  <2>2. CASE N # 0
    <3>1. Whole(seqs, n)
      <4>1. n \in 0 .. n /\ \A w \in 1 .. (N - 1) : w \in 1 .. N
        BY <1>2
      <4> QED BY Zenon, <1>1, <1>2, <4>1 DEF Whole
    <3>2. F \in Seq(X) /\ LaidOut(F, seqs, n, N)
      BY Zenon, <1>1, <2>2, <3>1, FlatIsLaidOut
    <3>3. N \in 1 .. N
      BY <1>2, <2>2
    <3>4. /\ L = (N - 1) * n + n
          /\ \A w \in 1 .. N : \A k \in 1 .. n : F[(w - 1) * n + k] = seqs[w][k]
      BY Zenon, <1>1, <1>2, <3>2, <3>3 DEF LaidOut
    <3>5. (N - 1) * n + n = N * n
      BY <1>2
    <3> QED BY Zenon, <3>2, <3>4, <3>5
  <2> QED BY <2>1, <2>2
<1>4. L \in Nat /\ cs \in Seq(Seq(X)) /\ Len(cs) = (L + n - 1) \div n
  <2>1. L \in Nat
    BY Zenon, <1>1, <1>3, LenProperties
  <2>2. cs \in Seq(Seq(X)) /\ Len(cs) = (L + n - 1) \div n
    <3>1. F \in Seq(X)
      BY <1>3
    <3>2. InChunks(F, n) \in Seq(Seq(X)) /\ Len(InChunks(F, n)) = (Len(F) + n - 1) \div n
      BY <3>1, ChunksAre
    <3> QED BY Zenon, <1>1, <3>2
  <2> QED BY <2>1, <2>2
<1>5. PICK C : C = Len(cs)
  OBVIOUS
<1>6. C \in Nat /\ \A w \in Nat \ {0} : w <= C <=> (w - 1) * n < L
  <2>1. 1 \in Nat \ {0}
    OBVIOUS
  <2>2. C \in Nat
    BY <1>4, <1>5, <2>1, ChunksReach
  <2>3. \A w \in Nat \ {0} : w <= C <=> (w - 1) * n < L
    BY <1>4, <1>5, ChunksReach
  <2> QED BY <2>2, <2>3
<1>7. \A w \in Nat \ {0} : (w - 1) * n < N * n <=> w <= N
  <2> TAKE w \in Nat \ {0}
  <2>1. w <= N => (w - 1) * n < N * n
    <3>1. SUFFICES ASSUME w <= N PROVE (w - 1) * n < N * n
      OBVIOUS
    <3>2. w * n <= N * n /\ (w - 1) * n = w * n - n /\ w * n \in Int /\ N * n \in Int
      BY <1>2, <3>1
    <3> QED BY <3>2
  <2>2. ~ (w <= N) => ~ ((w - 1) * n < N * n)
    <3>1. SUFFICES ASSUME ~ (w <= N) PROVE ~ ((w - 1) * n < N * n)
      OBVIOUS
    <3>2. PICK v \in Nat : v = w - 1 /\ v >= N
      BY <1>2, <3>1
    <3>3. v * n >= N * n
      BY <1>2, <3>2
    <3>4. v * n \in Int /\ N * n \in Int
      BY <1>2
    <3> QED BY <3>2, <3>3, <3>4
  <2> QED BY Zenon, <2>1, <2>2
<1>8. \A w \in Nat \ {0} : w <= C <=> w <= N
  BY Zenon, <1>3, <1>6, <1>7
<1>9. C = N
  <2>1. C # 0 => C \in Nat \ {0}
    BY <1>6
  <2>2. N # 0 => N \in Nat \ {0}
    BY <1>2
  <2>3. C # 0 => C <= N
    BY <1>6, <1>8, <2>1
  <2>4. N # 0 => N <= C
    BY <1>2, <1>8, <2>2
  <2> QED BY <1>2, <1>6, <2>3, <2>4
<1>10. ASSUME NEW w \in 1 .. N PROVE cs[w] = seqs[w]
  <2>1. cs[w] \in Seq(X) /\ ChunkOf(cs[w], F, n, w)
    BY Zenon, <1>1, <1>3, <1>5, <1>9, ChunkIs
  <2>2. /\ Len(cs[w]) = ChunkLen(L, n, w)
        /\ \A k \in 1 .. ChunkLen(L, n, w) : cs[w][k] = F[(w - 1) * n + k]
    BY Zenon, <1>1, <2>1 DEF ChunkOf
  <2>3. ChunkLen(L, n, w) = n
    <3>1. CASE w * n < L
      BY <3>1 DEF ChunkLen
    <3>2. CASE ~ (w * n < L)
      <4>1. w = N
        <5>1. PICK v \in Nat \ {0} : v = w + 1 /\ v - 1 = w
          OBVIOUS
        <5>2. ~ (v <= N)
          BY <1>3, <1>7, <3>2, <5>1
        <5> QED BY <1>2, <5>1, <5>2
      <4>2. ChunkLen(L, n, w) = L - (w - 1) * n
        BY <3>2 DEF ChunkLen
      <4>3. N * n - (N - 1) * n = n
        BY <1>2
      <4> QED BY Zenon, <1>3, <4>1, <4>2, <4>3
    <3> QED BY <3>1, <3>2
  <2>4. Len(cs[w]) = n /\ \A k \in 1 .. n : cs[w][k] = seqs[w][k]
    BY Zenon, <1>3, <2>2, <2>3
  <2>5. seqs[w] \in Seq(X) /\ Len(seqs[w]) = n
    BY Zenon, <1>2
  <2> QED BY Zenon, <2>1, <2>4, <2>5, SeqEqual
<1>11. cs = seqs
  BY Zenon, <1>1, <1>4, <1>5, <1>9, <1>10, SeqEqual
<1> QED BY Zenon, <1>1, <1>3, <1>11

-----------------------------------------------------------------------------
(* Moduli and the numbers of their bits, and what their words tell.        *)
LEMMA ShiftMonotone ==
  ASSUME NEW x \in Nat, NEW y \in Nat, x <= y, NEW n \in Nat
  PROVE  ShiftRight(x, n) <= ShiftRight(y, n)
<1>1. PICK f, g : f = Shifted(x) /\ g = Shifted(y)
  OBVIOUS
<1>2. /\ f \in [Nat -> Nat] /\ f[0] = x
      /\ \A i \in Nat : f[i] = ShiftRight(x, i) /\ f[i + 1] = f[i] \div 2
  BY <1>1, ShiftedIs
<1>3. /\ g \in [Nat -> Nat] /\ g[0] = y
      /\ \A i \in Nat : g[i] = ShiftRight(y, i) /\ g[i + 1] = g[i] \div 2
  BY <1>1, ShiftedIs
<1> DEFINE T == {i \in Nat : f[i] <= g[i]}
<1>4. 0 \in T
  BY <1>2, <1>3
<1>5. ASSUME NEW i \in Nat, i \in T PROVE i + 1 \in T
  <2>1. PICK u \in Nat, v \in Nat : u = f[i] /\ v = g[i] /\ u <= v
    BY <1>2, <1>3, <1>5
  <2>2. u \div 2 <= v \div 2
    BY <2>1
  <2> QED BY <1>2, <1>3, <2>1, <2>2
<1>6. n \in T
  <2> HIDE DEF T
  <2> QED BY <1>4, <1>5, InductionOnSet
<1> QED BY <1>2, <1>3, <1>6

LEMMA ShiftedAway ==
  ASSUME NEW x \in Nat, NEW n \in Nat, x < ShiftLeft(1, n), NEW m \in Nat, n <= m
  PROVE  ShiftRight(x, m) = 0
<1>1. PICK d \in Nat : m = n + d
  <2>1. m - n \in Nat /\ m = n + (m - n)
    OBVIOUS
  <2> QED BY <2>1
<1>2. ShiftRight(x, n) = 0
  BY BelowShiftedAway
<1>3. ShiftRight(0, d) = 0
  <2>1. 0 \in Nat /\ 0 < ShiftLeft(1, d)
    BY PowerIs
  <2> QED BY <2>1, BelowShiftedAway
<1>4. ShiftRight(ShiftRight(x, n), d) = ShiftRight(x, n + d)
  BY ShiftFurther
<1> QED BY Zenon, <1>1, <1>2, <1>3, <1>4

LEMMA BitSizeBounds ==
  ASSUME NEW m \in Nat \ {0}
  PROVE  /\ BitSize(m) \in Nat \ {0} /\ BitSize(m) - 1 \in Nat
         /\ ShiftLeft(1, BitSize(m) - 1) <= m /\ m < ShiftLeft(1, BitSize(m))
         /\ m > 1 => BitSize(m) - 1 \in Nat \ {0}
<1>1. m \in Nat /\ m >= 1
  OBVIOUS
<1>2. PICK n, d : n = BitSize(m) /\ d = n - 1
  OBVIOUS
<1>3. n \in Nat \ {0} /\ d \in Nat /\ n = d + 1 /\ ShiftRight(m, d) = 1
  BY <1>1, <1>2, BitSizeIs
<1>4. PICK q, r : q = ShiftLeft(1, d) /\ r = FromBitsLE(BitsLE(m, d))
  OBVIOUS
<1>5. q \in Nat \ {0} /\ ShiftLeft(1, n) = 2 * q
  BY <1>3, <1>4, PowerIs, ShiftLeftIs
<1>6. r \in 0 .. (q - 1) /\ m = r + q * 1
  <2>1. /\ FromBitsLE(BitsLE(m, d)) \in 0 .. (ShiftLeft(1, d) - 1)
        /\ m = FromBitsLE(BitsLE(m, d)) + ShiftLeft(1, d) * ShiftRight(m, d)
    <3>1. m \in Nat /\ d \in Nat
      BY <1>1, <1>3
    <3> QED BY Zenon, <3>1, LowBits
  <2> QED BY Zenon, <1>3, <1>4, <2>1
<1>7. q <= m /\ m < 2 * q
  BY <1>5, <1>6
<1>8. m > 1 => d # 0
  <2> SUFFICES ASSUME d = 0 PROVE m = 1
    BY <1>1
  <2>1. ShiftRight(m, 0) = m
    BY <1>1, ShiftRightIs
  <2> QED BY <1>3, <2>1
<1>9. m > 1 => d \in Nat \ {0}
  BY <1>3, <1>8
<1> QED BY Zenon, <1>2, <1>3, <1>4, <1>5, <1>7, <1>9

LEMMA MaxIs ==
  ASSUME NEW n \in Nat, NEW S, S \subseteq 1 .. n, S # {}
  PROVE  Max(S) \in S /\ \A y \in S : Max(S) >= y
<1> DEFINE T == {m \in Nat : \A R : R \subseteq 1 .. m /\ R # {} => \E x \in R : \A y \in R : x >= y}
<1>1. 0 \in T
  <2>1. 1 .. 0 = {}
    OBVIOUS
  <2> QED BY <2>1
<1>2. ASSUME NEW m \in Nat, m \in T PROVE m + 1 \in T
  <2> SUFFICES ASSUME NEW R, R \subseteq 1 .. (m + 1), R # {}
               PROVE  \E x \in R : \A y \in R : x >= y
    OBVIOUS
  <2>1. CASE m + 1 \in R
    <3>1. \A y \in R : m + 1 >= y
      OBVIOUS
    <3> QED BY <2>1, <3>1
  <2>2. CASE m + 1 \notin R
    <3>1. R \subseteq 1 .. m
      BY <2>2
    <3> QED BY <1>2, <3>1
  <2> QED BY <2>1, <2>2
<1>3. n \in T
  <2> HIDE DEF T
  <2> QED BY <1>1, <1>2, InductionOnSet
<1>4. \E x \in S : \A y \in S : x >= y
  BY <1>3
<1> QED BY <1>4 DEF Max

LEMMA WordsHold ==
  /\ WordBits \in Nat \ {0} /\ LimbBits \in Nat \ {0}
  /\ \A m \in Moduli : m \in Nat \ {0} /\ m > 1 /\ m % 2 = 1
BY PackingAssumption

(* The words above one are told off the number with them.                  *)
LEMMA WordStep ==
  ASSUME NEW m \in Nat, NEW i \in Nat \ {0}
  PROVE  /\ Word(m, i) \in Nat
         /\ ShiftRight(m, WordBits * (i - 1)) \in Nat
         /\ ShiftRight(m, WordBits * i) \in Nat
         /\ ShiftRight(m, WordBits * (i - 1))
              = Word(m, i) + ShiftLeft(1, WordBits) * ShiftRight(m, WordBits * i)
<1>1. WordBits \in Nat
  BY WordsHold
<1>2. PICK a, b, z : /\ a = WordBits * (i - 1) /\ b = WordBits * i
                     /\ z = ShiftRight(m, WordBits * (i - 1))
  OBVIOUS
<1>3. a \in Nat /\ b \in Nat /\ b = a + WordBits
  <2>1. WordBits * (i - 1) \in Nat /\ WordBits * i = WordBits * (i - 1) + WordBits
    BY <1>1
  <2>2. WordBits * i \in Nat
    BY <1>1
  <2> QED BY Zenon, <1>2, <2>1, <2>2
<1>4. z \in Nat /\ z = ShiftRight(m, a) /\ ShiftRight(m, b) \in Nat
  BY Zenon, <1>2, <1>3, ShiftRightIs
<1>5. ShiftRight(z, WordBits) = ShiftRight(m, b)
  <2>1. ShiftRight(ShiftRight(m, a), WordBits) = ShiftRight(m, a + WordBits)
    BY Zenon, <1>1, <1>3, ShiftFurther
  <2> QED BY Zenon, <1>3, <1>4, <2>1
<1>6. Word(m, i) = z % ShiftLeft(1, WordBits)
  BY Zenon, <1>2 DEF Word
<1>7. /\ Word(m, i) \in 0 .. (ShiftLeft(1, WordBits) - 1)
      /\ z = Word(m, i) + ShiftLeft(1, WordBits) * ShiftRight(m, b)
  <2>1. /\ z % ShiftLeft(1, WordBits) \in 0 .. (ShiftLeft(1, WordBits) - 1)
        /\ z = (z % ShiftLeft(1, WordBits)) + ShiftLeft(1, WordBits) * ShiftRight(z, WordBits)
    <3>1. z \in Nat
      BY <1>4
    <3> QED BY Zenon, <1>1, <3>1, RestIsLowBits
  <2> QED BY Zenon, <1>5, <1>6, <2>1
<1>8. \A x, y : x \in 0 .. y => x \in Nat
  OBVIOUS
<1> QED BY Zenon, <1>2, <1>4, <1>7, <1>8

LEMMA SameTop ==
  ASSUME NEW f \in Nat, NEW g \in Nat, NEW K \in Nat, NEW i \in 0 .. K,
         ShiftRight(f, WordBits * K) = ShiftRight(g, WordBits * K),
         \A w \in (i + 1) .. K : Word(f, w) = Word(g, w)
  PROVE  ShiftRight(f, WordBits * i) = ShiftRight(g, WordBits * i)
<1> DEFINE Same(n) == ShiftRight(f, WordBits * n) = ShiftRight(g, WordBits * n)
           T == {j \in Nat : j <= K - i => Same(K - j)}
<1>1. 0 \in T
  <2>1. K - 0 = K
    OBVIOUS
  <2> QED BY <2>1
<1>2. ASSUME NEW j \in Nat, j \in T PROVE j + 1 \in T
  <2> SUFFICES ASSUME j + 1 <= K - i PROVE Same(K - (j + 1))
    OBVIOUS
  <2>1. PICK w : w = K - j
    OBVIOUS
  <2>2. w \in Nat \ {0} /\ w \in (i + 1) .. K /\ w - 1 = K - (j + 1) /\ j <= K - i
    BY <2>1
  <2>3. ShiftRight(f, WordBits * w) = ShiftRight(g, WordBits * w)
    BY <1>2, <2>1, <2>2
  <2>4. /\ ShiftRight(f, WordBits * (w - 1))
             = Word(f, w) + ShiftLeft(1, WordBits) * ShiftRight(f, WordBits * w)
        /\ ShiftRight(g, WordBits * (w - 1))
             = Word(g, w) + ShiftLeft(1, WordBits) * ShiftRight(g, WordBits * w)
    BY Zenon, <2>2, WordStep
  <2>5. Word(f, w) = Word(g, w)
    BY <2>2
  <2>6. Same(w - 1)
    BY Zenon, <2>3, <2>4, <2>5
  <2> HIDE DEF Same
  <2> QED BY <2>2, <2>6
<1>3. K - i \in Nat
  OBVIOUS
<1>4. K - i \in T
  <2> HIDE DEF T
  <2> QED BY <1>1, <1>2, <1>3, InductionOnSet
<1>5. K - i <= K - i /\ K - (K - i) = i
  OBVIOUS
<1>6. Same(K - (K - i))
  <2> HIDE DEF Same
  <2> QED BY <1>4, <1>5
<1> QED BY <1>5, <1>6

LEMMA NotSmallerIs ==
  ASSUME NEW g \in Nat \ {0}, NEW f \in Nat \ {0}, BitSize(g) = BitSize(f), NotSmaller(g, f)
  PROVE  f <= g
<1>0. f \in Nat /\ g \in Nat
  OBVIOUS
<1>1. PICK K, B, W : K = NumWords(f) /\ B = BitSize(f) /\ W = WordBits
  OBVIOUS
<1>2. B \in Nat /\ f < ShiftLeft(1, B) /\ g < ShiftLeft(1, B)
  BY <1>1, BitSizeBounds
<1>3. W \in Nat \ {0} /\ K = (B + W - 1) \div W
  BY <1>1, WordsHold DEF NumWords
<1>4. K \in Nat /\ B <= W * K
  <2>1. K \in Nat
    <3>1. 1 \in Nat \ {0}
      OBVIOUS
    <3> QED BY <1>2, <1>3, <3>1, ChunksReach
  <2>2. PICK v \in Nat \ {0} : v = K + 1
    BY <2>1
  <2>3. ~ ((v - 1) * W < B)
    <3>1. ~ (v <= K)
      BY <2>1, <2>2
    <3>2. v <= (B + W - 1) \div W <=> (v - 1) * W < B
      BY <1>2, <1>3, ChunksReach
    <3> QED BY Zenon, <1>3, <3>1, <3>2
  <2>4. (v - 1) * W = W * K /\ W * K \in Nat
    BY <1>3, <2>1, <2>2
  <2> QED BY <1>2, <2>1, <2>3, <2>4
<1>5. ShiftRight(f, W * K) = 0 /\ ShiftRight(g, W * K) = 0
  <2>1. W * K \in Nat
    BY <1>3, <1>4
  <2> QED BY <1>0, <1>2, <1>4, <2>1, ShiftedAway
<1> DEFINE differ == {i \in 1 .. K : Word(g, i) # Word(f, i)}
<1>6. CASE differ = {}
  <2>1. \A w \in (0 + 1) .. K : Word(f, w) = Word(g, w)
    BY <1>6
  <2>2. 0 \in 0 .. K
    BY <1>4
  <2>3. ShiftRight(f, WordBits * 0) = ShiftRight(g, WordBits * 0)
    <3>1. K \in Nat /\ ShiftRight(f, WordBits * K) = ShiftRight(g, WordBits * K)
      BY Zenon, <1>1, <1>4, <1>5
    <3> HIDE DEF differ
    <3> QED BY <1>0, <2>1, <2>2, <3>1, SameTop
  <2>4. WordBits * 0 = 0
    BY WordsHold
  <2>5. ShiftRight(f, 0) = f /\ ShiftRight(g, 0) = g
    <3>1. 0 \in Nat
      OBVIOUS
    <3> QED BY <1>0, <3>1, ShiftRightIs
  <2>6. f = g
    BY Zenon, <2>3, <2>4, <2>5
  <2> QED BY <2>6
<1>7. CASE differ # {}
  <2>1. PICK i : i = Max(differ)
    OBVIOUS
  <2>2. i \in differ /\ \A y \in differ : i >= y
    <3>1. differ \subseteq 1 .. K
      OBVIOUS
    <3> HIDE DEF differ
    <3> QED BY <1>4, <1>7, <2>1, <3>1, MaxIs
  <2>3. Word(g, i) > Word(f, i)
    BY <1>1, <1>7, <2>1 DEF NotSmaller
  <2>4. i \in 1 .. K /\ i \in 0 .. K /\ i \in Nat \ {0}
    BY <2>2
  <2>5. \A w \in (i + 1) .. K : Word(f, w) = Word(g, w)
    <3> TAKE w \in (i + 1) .. K
    <3>1. w \in 1 .. K /\ ~ (i >= w)
      BY <2>4
    <3> QED BY <2>2, <3>1
  <2>6. ShiftRight(f, WordBits * i) = ShiftRight(g, WordBits * i)
    <3>1. K \in Nat /\ i \in 0 .. K /\ ShiftRight(f, WordBits * K) = ShiftRight(g, WordBits * K)
      BY Zenon, <1>1, <1>4, <1>5, <2>4
    <3> HIDE DEF differ
    <3> QED BY <1>0, <2>5, <3>1, SameTop
  <2>7. PICK x, y, u, v, h : /\ x = ShiftRight(f, WordBits * (i - 1))
                             /\ y = ShiftRight(g, WordBits * (i - 1))
                             /\ u = Word(f, i) /\ v = Word(g, i)
                             /\ h = ShiftLeft(1, WordBits) * ShiftRight(f, WordBits * i)
    OBVIOUS
  <2>8. x \in Nat /\ y \in Nat /\ u \in Nat /\ v \in Nat /\ x = u + h /\ y = v + h /\ v > u
    BY Zenon, <1>0, <2>3, <2>4, <2>6, <2>7, WordStep
  <2>9. h \in Int
    <3>1. WordBits \in Nat /\ WordBits * i \in Nat
      BY <2>4, WordsHold
    <3>2. ShiftLeft(1, WordBits) \in Nat /\ ShiftRight(f, WordBits * i) \in Nat
      BY <1>0, <3>1, PowerIs, ShiftRightIs
    <3> QED BY <2>7, <3>2
  <2>10. ~ (y <= x)
    BY <2>8, <2>9
  <2>11. ~ (g <= f)
    <3>1. WordBits * (i - 1) \in Nat
      BY <2>4, WordsHold
    <3>2. g <= f => y <= x
      BY Zenon, <1>0, <2>7, <3>1, ShiftMonotone
    <3> QED BY <2>10, <3>2
  <2> QED BY <1>0, <2>11
<1> QED BY <1>6, <1>7

(* The three copies of the rule say the same.                               *)
LEMMA CapacitiesAgree ==
  ASSUME NEW f, NEW g
  PROVE  /\ NewInputCapacity(f, g) = RepackCapacity(f, g)
         /\ FromElementsCapacity(f, g) = RepackCapacity(f, g)
<1> QED BY DEF NewInputCapacity, FromElementsCapacity, RepackCapacity

LEMMA CapacityIs ==
  ASSUME NEW f \in Moduli, NEW g \in Moduli
  PROVE  /\ RepackCapacity(f, g) \in Nat \ {0} /\ RepackCapacity(f, g) <= BitSize(g)
         /\ \/ RepackCapacity(f, g) = BitSize(f) /\ f <= g
            \/ RepackCapacity(f, g) = BitSize(g) - 1
<1>1. f \in Nat \ {0} /\ g \in Nat \ {0} /\ g > 1
  BY WordsHold
<1>2. PICK c, n : c = RepackCapacity(f, g) /\ n = BitSize(g)
  OBVIOUS
<1>3. n \in Nat \ {0} /\ n - 1 \in Nat \ {0}
  BY <1>1, <1>2, BitSizeBounds
<1>4. CASE BitSize(g) = BitSize(f) /\ NotSmaller(g, f)
  <2>1. c = n /\ n = BitSize(f)
    BY <1>2, <1>4 DEF RepackCapacity
  <2>2. f <= g
    BY <1>1, <1>4, NotSmallerIs
  <2>3. n <= n
    BY <1>3
  <2> QED BY Zenon, <1>2, <1>3, <2>1, <2>2, <2>3
<1>5. CASE ~ (BitSize(g) = BitSize(f) /\ NotSmaller(g, f))
  <2>1. c = n - 1
    BY <1>2, <1>5 DEF RepackCapacity
  <2>2. n - 1 <= n
    BY <1>3
  <2> QED BY Zenon, <1>2, <1>3, <2>1, <2>2
<1> QED BY <1>4, <1>5

-----------------------------------------------------------------------------
(* The bits of elements, cut into chunks, and what chunks become.          *)
LEMMA ElementIsItsBits ==
  ASSUME NEW f \in Nat \ {0}, NEW x \in 0 .. (f - 1)
  PROVE  /\ BitsLE(x, BitSize(f)) \in Seq(Bits) /\ Len(BitsLE(x, BitSize(f))) = BitSize(f)
         /\ FromBitsLE(BitsLE(x, BitSize(f))) = x
<1>1. PICK n, s : n = BitSize(f) /\ s = BitsLE(x, BitSize(f))
  OBVIOUS
<1>2. x \in Nat /\ n \in Nat /\ f \in Nat /\ f >= 1 /\ n >= BitSize(f)
  <2>1. n \in Nat
    BY <1>1, BitSizeBounds
  <2> QED BY <1>1, <2>1
<1>3. s \in Seq(Bits) /\ Len(s) = n /\ \A k \in 1 .. n : s[k] = ShiftRight(x, k - 1) % 2
  BY <1>1, <1>2, BitsLEIs
<1>4. ShiftRight(x, n) = 0
  BY <1>2, SmallerShiftedAway
<1>5. FromBitsLE(s) = x
  BY <1>2, <1>3, <1>4, BitsAreNumbers, BitsMakeNumber
<1> QED BY Zenon, <1>1, <1>3, <1>5

LEMMA BitsBEIs ==
  ASSUME NEW f \in Moduli, NEW elems \in Seq(0 .. (f - 1)),
         NEW n, n = BitSize(f), NEW b, b = BitsBE(f, elems)
  PROVE  /\ n \in Nat \ {0} /\ b \in Seq(Bits) /\ Len(InChunks(b, n)) = Len(elems)
         /\ \A i \in 1 .. Len(elems) :
              /\ InChunks(b, n)[i] = Reverse(BitsLE(elems[i], n))
              /\ Reverse(InChunks(b, n)[i]) = BitsLE(elems[i], n)
<1>1. f \in Nat \ {0} /\ n \in Nat \ {0}
  BY WordsHold, BitSizeBounds
<1>2. PICK seqs, N : seqs = [i \in DOMAIN elems |-> Reverse(BitsLE(elems[i], n))] /\ N = Len(elems)
  OBVIOUS
<1>3. N \in Nat /\ DOMAIN elems = 1 .. N
  BY <1>2
<1>4. ASSUME NEW i \in 1 .. N
      PROVE  /\ seqs[i] = Reverse(BitsLE(elems[i], n))
             /\ seqs[i] \in Seq(Bits) /\ Len(seqs[i]) = n /\ Reverse(seqs[i]) = BitsLE(elems[i], n)
  <2>1. elems[i] \in 0 .. (f - 1)
    BY <1>2, ElementOfSeq
  <2>2. PICK s : s = BitsLE(elems[i], n)
    OBVIOUS
  <2>3. s \in Seq(Bits) /\ Len(s) = n
    BY <1>1, <2>1, <2>2, ElementIsItsBits
  <2>4. seqs[i] = Reverse(s)
    BY <1>2, <1>3, <2>2
  <2> QED BY <2>2, <2>3, <2>4, ReverseIs
<1>5. seqs \in Seq(Seq(Bits)) /\ Len(seqs) = N
  <2>1. seqs \in [1 .. N -> Seq(Bits)]
    BY <1>2, <1>3, <1>4
  <2> QED BY <1>3, <2>1
<1>6. b = FlattenSeq(seqs)
  BY <1>2 DEF BitsBE
<1>7. \A i \in 1 .. Len(seqs) : Len(seqs[i]) = n
  BY Zenon, <1>4, <1>5
<1>8. FlattenSeq(seqs) \in Seq(Bits) /\ InChunks(FlattenSeq(seqs), n) = seqs
  BY <1>1, <1>5, <1>7, ChunksOfFlat
<1>9. b \in Seq(Bits) /\ InChunks(b, n) = seqs
  BY Zenon, <1>6, <1>8
<1> QED BY Zenon, <1>1, <1>2, <1>4, <1>5, <1>9

(* Chunks of the bits, the sizes of the fields and the capacity between.   *)
Cuts(f, g, elems, cs, c, n) ==
  /\ n = BitSize(g) /\ n \in Nat \ {0} /\ c \in Nat \ {0} /\ c <= n
  /\ cs = InChunks(BitsBE(f, elems), RepackCapacity(f, g)) /\ c = RepackCapacity(f, g)
  /\ cs \in Seq(Seq(Bits)) /\ FlattenSeq(cs) = BitsBE(f, elems) /\ DOMAIN cs = 1 .. Len(cs)

CutAt(ch, g, c, n) ==
  /\ ch \in Seq(Bits) /\ Len(ch) \in 1 .. c /\ Len(ch) <= n
  /\ Reverse(ch) \in Seq(Bits) /\ Len(Reverse(ch)) = Len(ch) /\ Reverse(Reverse(ch)) = ch
  /\ FromBitsBE(ch) \in 0 .. (g - 1)

LEMMA ChunkFits ==
  ASSUME NEW f \in Moduli, NEW g \in Moduli, NEW elems \in Seq(0 .. (f - 1)),
         NEW cs, NEW c, NEW n, Cuts(f, g, elems, cs, c, n), NEW i \in 1 .. Len(cs)
  PROVE  CutAt(cs[i], g, c, n)
<1>1. PICK b, ch : b = BitsBE(f, elems) /\ ch = cs[i]
  OBVIOUS
<1>2. /\ c \in Nat \ {0} /\ n \in Nat /\ c <= n /\ n = BitSize(g) /\ cs = InChunks(b, c)
      /\ c = RepackCapacity(f, g)
  BY <1>1 DEF Cuts
<1>3. b \in Seq(Bits)
  BY <1>1, BitsBEIs
<1>4. ch \in Seq(Bits) /\ Len(ch) \in 1 .. c
  <2>1. ch \in Seq(Bits) /\ ChunkOf(ch, b, c, i)
    BY Zenon, <1>1, <1>2, <1>3, ChunkIs
  <2> QED BY Zenon, <2>1 DEF ChunkOf
<1>5. Len(ch) <= n /\ Len(ch) \in Nat
  <2>1. PICK l : l = Len(ch)
    OBVIOUS
  <2>2. l \in 1 .. c
    BY <1>4, <2>1
  <2> QED BY <1>2, <2>1, <2>2
<1>6. PICK r : r = Reverse(ch)
  OBVIOUS
<1>7. r \in Seq(Bits) /\ Len(r) = Len(ch) /\ Reverse(r) = ch
  BY <1>4, <1>6, ReverseIs
<1>8. PICK x : x = FromBitsLE(r)
  OBVIOUS
<1>9. x \in Nat /\ x < ShiftLeft(1, Len(ch))
  BY Zenon, <1>7, <1>8, BitsBelow
<1>10. g \in Nat \ {0} /\ f \in Nat \ {0}
  BY WordsHold
<1>11. x \in 0 .. (g - 1)
  <2>1. CASE c = BitSize(f) /\ f <= g
    <3>1. Len(cs) = Len(elems) /\ r = BitsLE(elems[i], c)
      BY <1>1, <1>2, <1>6, <2>1, BitsBEIs
    <3>2. elems[i] \in 0 .. (f - 1)
      BY <3>1, ElementOfSeq
    <3>3. x = elems[i]
      BY <1>8, <1>10, <2>1, <3>1, <3>2, ElementIsItsBits
    <3>4. x \in 0 .. (f - 1)
      BY <3>2, <3>3
    <3> QED BY <1>10, <2>1, <3>4
  <2>2. CASE c = n - 1
    <3>1. ShiftLeft(1, n - 1) <= g
      BY <1>2, <1>10, BitSizeBounds
    <3>2. PICK d \in Nat : c = Len(ch) + d
      <4>1. PICK l : l = Len(ch) /\ l \in 1 .. c
        BY <1>4
      <4>2. c - l \in Nat /\ c = l + (c - l)
        BY <1>2, <4>1
      <4> QED BY <4>1, <4>2
    <3>3. PICK p, q, z : p = ShiftLeft(1, Len(ch)) /\ q = ShiftLeft(1, d) /\ z = ShiftLeft(1, c)
      OBVIOUS
    <3>4. p \in Nat \ {0} /\ q \in Nat \ {0} /\ z = p * q
      BY Zenon, <1>5, <3>2, <3>3, PowerIs, PowersAdd
    <3>5. p <= p * q /\ p * q \in Nat
      BY <3>4
    <3>6. x < p /\ z <= g
      BY Zenon, <1>9, <2>2, <3>1, <3>3
    <3>7. z \in Nat /\ p <= z
      BY Zenon, <3>4, <3>5
    <3> QED BY <1>9, <1>10, <3>4, <3>6, <3>7
  <2>3. (c = BitSize(f) /\ f <= g) \/ c = n - 1
    BY <1>2, CapacityIs
  <2> QED BY <2>1, <2>2, <2>3
<1>12. FromBitsBE(ch) = x
  BY Zenon, <1>6, <1>8 DEF FromBitsBE
<1> QED BY Zenon, <1>1, <1>4, <1>5, <1>6, <1>7, <1>11, <1>12 DEF CutAt

LEMMA CutsAre ==
  ASSUME NEW f \in Moduli, NEW g \in Moduli, NEW elems \in Seq(0 .. (f - 1))
  PROVE  \E cs, c, n : Cuts(f, g, elems, cs, c, n)
<1>1. PICK b, cs, c, n : b = BitsBE(f, elems) /\ cs = InChunks(b, c) /\ c = RepackCapacity(f, g) /\ n = BitSize(g)
  OBVIOUS
<1>2. b \in Seq(Bits) /\ c \in Nat \ {0} /\ c <= n
  BY <1>1, BitsBEIs, CapacityIs
<1>3. n \in Nat \ {0}
  BY <1>1, WordsHold, BitSizeBounds
<1>4. cs \in Seq(Seq(Bits)) /\ FlattenSeq(cs) = b
  <2>1. InChunks(b, c) \in Seq(Seq(Bits)) /\ FlattenSeq(InChunks(b, c)) = b
    BY <1>2, ChunksAre, FlatChunks
  <2> QED BY Zenon, <1>1, <2>1
<1>5. DOMAIN cs = 1 .. Len(cs)
  BY <1>4
<1> QED BY Zenon, <1>1, <1>2, <1>3, <1>4, <1>5 DEF Cuts

-----------------------------------------------------------------------------
LEMMA RepackedIs ==
  ASSUME NEW f \in Moduli, NEW g \in Moduli, NEW elems \in Seq(0 .. (f - 1)),
         NEW cs, NEW c, NEW n, Cuts(f, g, elems, cs, c, n)
  PROVE  /\ RepackInput(f, g, elems) = [i \in 1 .. Len(cs) |-> FromBitsBE(cs[i])]
         /\ DOMAIN RepackInput(f, g, elems) = 1 .. Len(cs)
         /\ \A i \in 1 .. Len(cs) : RepackInput(f, g, elems)[i] \in 0 .. (g - 1)
<1>1. PICK N : N = Len(cs) /\ DOMAIN cs = 1 .. N
  BY DEF Cuts
<1>2. RepackInput(f, g, elems) = [i \in 1 .. N |-> FromBitsBE(cs[i])]
  <2>1. RepackInput(f, g, elems) = [i \in DOMAIN cs |-> FromBitsBE(cs[i])]
    BY DEF Cuts, RepackInput
  <2> QED BY Zenon, <1>1, <2>1
<1>3. ASSUME NEW i \in 1 .. N PROVE FromBitsBE(cs[i]) \in 0 .. (g - 1)
  <2>1. CutAt(cs[i], g, c, n)
    BY Zenon, <1>1, ChunkFits
  <2> QED BY Zenon, <2>1 DEF CutAt
<1> HIDE DEF RepackInput
<1> QED BY <1>1, <1>2, <1>3

LEMMA FirstOfResized ==
  ASSUME NEW s \in Seq(Bits), NEW n \in Nat, Len(s) <= n
  PROVE  SubSeq(Resized(s, n), 1, Len(s)) = s
<1>1. PICK t, L : t = Resized(s, n) /\ L = Len(s)
  OBVIOUS
<1>2. L \in Nat /\ L <= n
  BY <1>1, LenProperties
<1>3. t \in Seq(Bits) /\ Len(t) = n /\ \A p \in 1 .. n : t[p] = ValueAt(s, p)
  <2>1. 0 \in Bits
    BY DEF Bits
  <2> QED BY <1>1, <2>1, ResizedIs
<1>4. /\ SubSeq(t, 1, L) \in Seq(Bits) /\ Len(SubSeq(t, 1, L)) = L
      /\ \A i \in 1 .. L : SubSeq(t, 1, L)[i] = t[i]
  BY <1>2, <1>3, PrefixOf
<1>5. \A i \in 1 .. L : i \in 1 .. n /\ i <= Len(s)
  BY <1>1, <1>2
<1>6. \A i \in 1 .. L : SubSeq(t, 1, L)[i] = s[i]
  BY Zenon, <1>3, <1>4, <1>5 DEF ValueAt
<1>7. SubSeq(t, 1, L) = s
  BY Zenon, <1>1, <1>4, <1>6, SeqEqual
<1> QED BY Zenon, <1>1, <1>7

(* The bits of an input, as many as were packed into it, are those packed. *)
LEMMA ChunkReadBack ==
  ASSUME NEW ch, NEW g, NEW c, NEW n, CutAt(ch, g, c, n), n \in Nat \ {0}
  PROVE  Reverse(SubSeq(BitsLE(FromBitsBE(ch), n), 1, Len(ch))) = ch
<1>1. PICK r : r = Reverse(ch)
  OBVIOUS
<1>2. r \in Seq(Bits) /\ Len(r) = Len(ch) /\ Reverse(r) = ch /\ Len(r) <= n
  BY Zenon, <1>1 DEF CutAt
<1>3. FromBitsBE(ch) = FromBitsLE(r)
  BY Zenon, <1>1 DEF FromBitsBE
<1>4. BitsLE(FromBitsLE(r), n) = Resized(r, n)
  BY <1>2, BitsOfValue
<1>5. SubSeq(Resized(r, n), 1, Len(r)) = r
  BY <1>2, FirstOfResized
<1> QED BY Zenon, <1>2, <1>3, <1>4, <1>5

LEMMA BooleansReadBack ==
  ASSUME NEW f \in Moduli, NEW g \in Moduli, NEW elems \in Seq(0 .. (f - 1))
  PROVE  /\ BooleanNewInput(f, g, elems).done
         /\ BooleanNewInput(f, g, elems).inputs = RepackInput(f, g, elems)
         /\ BooleanNewInput(f, g, elems).val = BooleanNewVariable(f, elems)
         /\ DOMAIN BooleanNewInput(f, g, elems).val = DOMAIN elems
<1>1. PICK cs, c, n : Cuts(f, g, elems, cs, c, n)
  BY CutsAre
<1>2. PICK N : N = Len(cs) /\ DOMAIN cs = 1 .. N
  BY <1>1 DEF Cuts
<1>3. /\ cs = InChunks(BitsBE(f, elems), RepackCapacity(f, g)) /\ cs \in Seq(Seq(Bits))
      /\ FlattenSeq(cs) = BitsBE(f, elems) /\ n = BitSize(g) /\ n \in Nat \ {0}
  BY Zenon, <1>1 DEF Cuts
<1> DEFINE inputs == [i \in DOMAIN cs |-> FromBitsBE(cs[i])]
           back == [i \in DOMAIN cs |->
                      Reverse(SubSeq(BitsLE(inputs[i], BitSize(g)), 1, Len(cs[i])))]
           cut == InChunks(FlattenSeq(back), BitSize(f))
<1>4. BooleanNewInput(f, g, elems)
        = [done |-> TRUE, inputs |-> inputs, val |-> [i \in DOMAIN cut |-> Reverse(cut[i])]]
  BY Zenon, <1>3, CapacitiesAgree DEF BooleanNewInput
<1>5. RepackInput(f, g, elems) = inputs
  BY Zenon, <1>3 DEF RepackInput
<1>6. back = cs
  <2>1. ASSUME NEW i \in 1 .. N PROVE back[i] = cs[i]
    <3>1. inputs[i] = FromBitsBE(cs[i])
      BY <1>2
    <3>2. back[i] = Reverse(SubSeq(BitsLE(inputs[i], BitSize(g)), 1, Len(cs[i])))
      BY <1>2
    <3>3. CutAt(cs[i], g, c, n)
      BY Zenon, <1>1, <1>2, ChunkFits
    <3>4. Reverse(SubSeq(BitsLE(FromBitsBE(cs[i]), n), 1, Len(cs[i]))) = cs[i]
      BY Zenon, <1>3, <3>3, ChunkReadBack
    <3> HIDE DEF inputs, back
    <3> QED BY Zenon, <1>3, <3>1, <3>2, <3>4
  <2>2. back = [i \in 1 .. N |-> back[i]]
    BY <1>2
  <2>3. cs = [i \in 1 .. N |-> cs[i]]
    BY <1>2, <1>3
  <2> HIDE DEF inputs, back
  <2> QED BY <2>1, <2>2, <2>3
<1>7. PICK m, b : m = BitSize(f) /\ b = BitsBE(f, elems)
  OBVIOUS
<1>8. cut = InChunks(b, m)
  BY Zenon, <1>3, <1>6, <1>7
<1>9. PICK M : M = Len(elems)
  OBVIOUS
<1>10. /\ m \in Nat \ {0} /\ b \in Seq(Bits) /\ Len(cut) = M
       /\ \A i \in 1 .. M : Reverse(cut[i]) = BitsLE(elems[i], m)
  <2>1. /\ m \in Nat \ {0} /\ b \in Seq(Bits) /\ Len(InChunks(b, m)) = Len(elems)
        /\ \A i \in 1 .. Len(elems) : Reverse(InChunks(b, m)[i]) = BitsLE(elems[i], m)
    <3> HIDE DEF cut, inputs, back
    <3> QED BY <1>7, BitsBEIs
  <2> HIDE DEF cut, inputs, back
  <2> QED BY Zenon, <1>8, <1>9, <2>1
<1>11. DOMAIN cut = 1 .. M /\ DOMAIN elems = 1 .. M
  <2>1. cut \in Seq(Seq(Bits))
    <3>1. InChunks(b, m) \in Seq(Seq(Bits))
      BY <1>10, ChunksAre
    <3> QED BY Zenon, <1>8, <3>1
  <2> HIDE DEF cut
  <2>2. DOMAIN cut = 1 .. Len(cut)
    BY <2>1
  <2>3. DOMAIN elems = 1 .. Len(elems)
    OBVIOUS
  <2> QED BY Zenon, <1>9, <1>10, <2>2, <2>3
<1> HIDE DEF cut, inputs, back
<1>12. [i \in DOMAIN cut |-> Reverse(cut[i])] = BooleanNewVariable(f, elems)
  <2>1. BooleanNewVariable(f, elems) = [i \in 1 .. M |-> BitsLE(elems[i], m)]
    BY Zenon, <1>7, <1>11 DEF BooleanNewVariable
  <2>2. [i \in 1 .. M |-> Reverse(cut[i])] = [i \in 1 .. M |-> BitsLE(elems[i], m)]
    BY <1>10
  <2> QED BY Zenon, <1>11, <2>1, <2>2
<1>13. DOMAIN BooleanNewVariable(f, elems) = DOMAIN elems
  BY DEF BooleanNewVariable
<1> QED BY <1>4, <1>5, <1>12, <1>13

-----------------------------------------------------------------------------
(* Limbs: slices of the bits, or what shifts and remainders give.          *)
LEMMA LimbsHold ==
  ASSUME NEW f \in Nat \ {0}, NEW n, n = BitSize(f), NEW N, N = NumLimbs(f)
  PROVE  /\ n \in Nat \ {0} /\ N \in Nat \ {0} /\ n <= LimbBits * N
         /\ (N - 1) * LimbBits \in Nat /\ n - (N - 1) * LimbBits \in 1 .. LimbBits
<1>1. PICK L : L = LimbBits
  OBVIOUS
<1>2. L \in Nat \ {0} /\ n \in Nat \ {0} /\ N = (n + L - 1) \div L
  BY <1>1, WordsHold, BitSizeBounds DEF NumLimbs
<1>3. N \in Nat /\ \A w \in Nat \ {0} : w <= N <=> (w - 1) * L < n
  <2>1. 1 \in Nat \ {0} /\ n \in Nat
    BY <1>2
  <2>2. N \in Nat
    BY <1>2, <2>1, ChunksReach
  <2>3. \A w \in Nat \ {0} : w <= (n + L - 1) \div L <=> (w - 1) * L < n
    BY <1>2, <2>1, ChunksReach
  <2> QED BY Zenon, <1>2, <2>2, <2>3
<1>4. N # 0
  <2>1. 1 \in Nat \ {0} /\ (1 - 1) * L = 0 /\ 0 < n
    BY <1>2
  <2>2. 1 <= N
    BY <1>3, <2>1
  <2> QED BY <1>3, <2>2
<1>5. PICK a : a = (N - 1) * L
  OBVIOUS
<1>6. a \in Nat /\ N * L = a + L /\ L * N = N * L
  <2>1. (N - 1) * L \in Nat /\ N * L = (N - 1) * L + L /\ L * N = N * L
    BY <1>2, <1>3, <1>4
  <2> QED BY Zenon, <1>5, <2>1
<1>7. a < n
  <2>1. N \in Nat \ {0} /\ N <= N
    BY <1>3, <1>4
  <2> QED BY <1>3, <1>5, <2>1
<1>8. n <= a + L
  <2>1. PICK v \in Nat \ {0} : v = N + 1 /\ v - 1 = N
    BY <1>3
  <2>2. ~ (v <= N)
    BY <1>3, <2>1
  <2>3. ~ (N * L < n)
    BY <1>3, <2>1, <2>2
  <2> QED BY <1>2, <1>6, <2>3
<1>9. n - a \in 1 .. L /\ n <= L * N
  <2>1. n - a \in 1 .. L
    BY <1>2, <1>6, <1>7, <1>8
  <2>2. L * N = a + L
    BY <1>6
  <2> QED BY Zenon, <1>8, <2>1, <2>2
<1>10. N \in Nat \ {0}
  BY <1>3, <1>4
<1> QED BY Zenon, <1>1, <1>2, <1>5, <1>6, <1>9, <1>10

(* The bits from a on, up to b, taken from the front of the turned bits.   *)
TurnedSlice(u, n, a, b) == Reverse(SubSeq(Reverse(u), (n - b) + 1, n - a))

IsSlice(t, u, a, l) == t \in Seq(Bits) /\ Len(t) = l /\ \A i \in 1 .. l : t[i] = u[a + i]

LEMMA SliceReversed ==
  ASSUME NEW u \in Seq(Bits), NEW n \in Nat, Len(u) = n,
         NEW a \in Nat, NEW b \in Nat, a <= b, b <= n, NEW l, l = b - a,
         NEW t, t = TurnedSlice(u, n, a, b)
  PROVE  IsSlice(t, u, a, l)
<1>1. PICK r, p, q, d : r = Reverse(u) /\ p = n - b /\ q = n - a /\ d = b - a
  OBVIOUS
<1>2. n \in Nat
  OBVIOUS
<1>3. p \in Nat /\ q \in Nat /\ p <= q /\ q <= n /\ q - p = d /\ d \in Nat
  BY <1>1, <1>2
<1>4. r \in Seq(Bits) /\ Len(r) = n /\ \A i \in 1 .. n : r[i] = u[n + 1 - i]
  BY <1>1, ReverseIs
<1>5. PICK s : s = SubSeq(r, p + 1, q)
  OBVIOUS
<1>6. s \in Seq(Bits) /\ Len(s) = d /\ \A i \in 1 .. d : s[i] = r[p + i]
  <2>1. /\ SubSeq(r, p + 1, q) \in Seq(Bits) /\ Len(SubSeq(r, p + 1, q)) = q - p
        /\ \A i \in 1 .. (q - p) : SubSeq(r, p + 1, q)[i] = r[p + i]
    <3>1. q <= Len(r)
      BY Zenon, <1>3, <1>4
    <3>2. SubSeq(r, p + 1, q) \in Seq(Bits) /\ SliceAt(SubSeq(r, p + 1, q), r, p, q)
      BY <1>3, <1>4, <3>1, SliceOf
    <3> QED BY Zenon, <3>2 DEF SliceAt
  <2> QED BY Zenon, <1>3, <1>5, <2>1
<1>7. t = Reverse(s)
  BY Zenon, <1>1, <1>5 DEF TurnedSlice
<1>8. t \in Seq(Bits) /\ Len(t) = d /\ \A i \in 1 .. d : t[i] = s[d + 1 - i]
  <2>1. PICK v : v = Reverse(s)
    OBVIOUS
  <2>2. v \in Seq(Bits) /\ Len(v) = d /\ \A i \in 1 .. d : v[i] = s[d + 1 - i]
    BY <1>6, <2>1, ReverseIs
  <2> QED BY Zenon, <1>7, <2>1, <2>2
<1>9. ASSUME NEW i \in 1 .. d PROVE t[i] = u[a + i]
  <2>1. PICK j, k : j = d + 1 - i /\ k = p + j
    OBVIOUS
  <2>2. j \in 1 .. d /\ k \in 1 .. n /\ n + 1 - k = a + i
    BY <1>1, <1>2, <1>3, <2>1
  <2>3. t[i] = s[j] /\ s[j] = r[k] /\ r[k] = u[a + i]
    BY <1>4, <1>6, <1>8, <2>1, <2>2
  <2> QED BY <2>3
<1> QED BY Zenon, <1>1, <1>5, <1>7, <1>8, <1>9 DEF IsSlice

LEMMA ZeroStays ==
  ASSUME NEW x \in Nat, NEW m \in Nat, ShiftRight(x, m) = 0, NEW k \in Nat, m <= k
  PROVE  ShiftRight(x, k) = 0
<1>1. PICK d \in Nat : k = m + d
  <2>1. k - m \in Nat /\ k = m + (k - m)
    OBVIOUS
  <2> QED BY <2>1
<1>2. ShiftRight(0, d) = 0
  <2>1. 0 \in Nat /\ 0 < ShiftLeft(1, d)
    BY PowerIs
  <2> QED BY <2>1, BelowShiftedAway
<1>3. ShiftRight(ShiftRight(x, m), d) = ShiftRight(x, m + d)
  BY ShiftFurther
<1> QED BY Zenon, <1>1, <1>2, <1>3

LEMMA MiddleBits ==
  ASSUME NEW x \in Nat, NEW a \in Nat, NEW L \in Nat, NEW l \in 0 .. L, NEW t \in Seq(Bits), Len(t) = l,
         \A i \in 1 .. l : t[i] = ShiftRight(x, a + i - 1) % 2,
         l = L \/ ShiftRight(x, a + l) = 0
  PROVE  FromBitsLE(t) = ShiftRight(x, a) % ShiftLeft(1, L)
<1>1. PICK z, v, w : z = ShiftRight(x, a) /\ v = BitsLE(ShiftRight(x, a), L) /\ w = Resized(t, L)
  OBVIOUS
<1>2. z \in Nat
  BY <1>1, ShiftRightIs
<1>3. v = BitsLE(z, L)
  BY Zenon, <1>1
<1>4. v \in Seq(Bits) /\ Len(v) = L /\ \A i \in 1 .. L : v[i] = ShiftRight(z, i - 1) % 2
  BY <1>2, <1>3, BitsLEIs
<1>5. w \in Seq(Bits) /\ Len(w) = L /\ \A i \in 1 .. L : w[i] = ValueAt(t, i)
  <2>1. 0 \in Bits
    BY DEF Bits
  <2> QED BY <1>1, <2>1, ResizedIs
<1>6. ASSUME NEW i \in 1 .. L PROVE v[i] = w[i]
  <2>1. PICK k \in Nat, m \in Nat : k = i - 1 /\ m = a + k /\ m = a + i - 1
    OBVIOUS
  <2>2. ShiftRight(z, k) = ShiftRight(x, m)
    BY <1>1, <2>1, ShiftFurther
  <2>3. v[i] = ShiftRight(x, m) % 2
    BY Zenon, <1>4, <2>1, <2>2
  <2>4. CASE i <= l
    <3>1. i \in 1 .. l
      BY <2>4
    <3>2. t[i] = ShiftRight(x, m) % 2
      BY Zenon, <2>1, <3>1
    <3>3. w[i] = t[i]
      BY Zenon, <1>5, <2>4 DEF ValueAt
    <3> QED BY Zenon, <2>3, <3>2, <3>3
  <2>5. CASE ~ (i <= l)
    <3>1. w[i] = 0
      BY Zenon, <1>5, <2>5 DEF ValueAt
    <3>2. l # L /\ a + l \in Nat /\ a + l <= m
      BY <2>1, <2>5
    <3>3. ShiftRight(x, m) = 0
      BY <3>2, ZeroStays
    <3>4. 0 % 2 = 0
      OBVIOUS
    <3> QED BY Zenon, <2>3, <3>1, <3>3, <3>4
  <2> QED BY <2>4, <2>5
<1>7. v = w
  BY Zenon, <1>4, <1>5, <1>6, SeqEqual
<1>8. FromBitsLE(w) = FromBitsLE(t)
  <2>1. Len(t) <= L /\ t \in Seq(Int)
    BY BitsAreNumbers
  <2> QED BY <1>1, <2>1, FilledValue
<1>9. z % ShiftLeft(1, L) = FromBitsLE(v)
  BY <1>2, <1>3, RestIsLowBits
<1> QED BY Zenon, <1>1, <1>7, <1>8, <1>9

-----------------------------------------------------------------------------
LEMMA LimbPlaces ==
  ASSUME NEW n \in Nat, NEW N \in Nat \ {0}, NEW L \in Nat \ {0},
         (N - 1) * L \in Nat, n - (N - 1) * L \in 1 .. L, NEW j \in 1 .. N,
         NEW top, top = n - (N - 1) * L, NEW a, a = L * (N - j), NEW b, b = IF j = 1 THEN n ELSE a + L
  PROVE  /\ a \in Nat /\ b \in Nat /\ a <= b /\ b <= n /\ b - a \in 0 .. L
         /\ j = 1 => n - b = 0 /\ n - a = top
         /\ j # 1 => top + ((j - 1) - 1) * L = n - b /\ top + (j - 1) * L = n - a /\ b - a = L
<1>1. PICK q, m : q = (N - 1) * L /\ m = (j - 1) * L
  OBVIOUS
<1>2. m \in Nat /\ a \in Nat /\ q = a + m /\ (j = 1 => m = 0) /\ (j # 1 => m >= L /\ ((j - 1) - 1) * L = m - L)
  <2>1. PICK k \in Nat, r \in Nat : k = j - 1 /\ r = N - j
    <3>1. j - 1 \in Nat /\ N - j \in Nat
      OBVIOUS
    <3> QED BY <3>1
  <2>2. N - 1 = k + r
    BY <2>1
  <2>3. k * L \in Nat /\ L * r \in Nat /\ (k + r) * L = L * r + k * L /\ (k - 1) * L = k * L - L
    OBVIOUS
  <2>4. m = k * L /\ a = L * r /\ q = (k + r) * L
    BY <1>1, <2>1, <2>2
  <2>5. k = 0 => k * L = 0
    OBVIOUS
  <2>6. k # 0 => k * L >= L
    <3>1. SUFFICES ASSUME k # 0 PROVE k * L >= L
      OBVIOUS
    <3>2. (k - 1) * L \in Nat
      <4>1. k - 1 \in Nat
        BY <3>1
      <4> QED BY <4>1
    <3>3. PICK y, z : y = (k - 1) * L /\ z = k * L
      OBVIOUS
    <3>4. y \in Nat /\ z \in Nat /\ y = z - L
      BY <2>3, <3>2, <3>3
    <3>5. z >= L
      BY <3>4
    <3> QED BY <3>3, <3>5
  <2>7. (j = 1 <=> k = 0) /\ (j - 1) - 1 = k - 1
    BY <2>1
  <2> QED BY <2>3, <2>4, <2>5, <2>6, <2>7
<1>3. n - q \in 1 .. L /\ top = n - q /\ q \in Nat
  BY <1>1
<1>4. CASE j = 1
  BY <1>2, <1>3, <1>4
<1>5. CASE j # 1
  <2>1. b = a + L /\ m >= L /\ ((j - 1) - 1) * L = m - L /\ (j - 1) * L = m
    BY <1>1, <1>2, <1>5
  <2>2. top + (m - L) = n - b /\ top + m = n - a /\ b - a = L /\ b <= n /\ a <= b /\ b \in Nat
    BY <1>2, <1>3, <2>1
  <2>3. /\ top + ((j - 1) - 1) * L = n - b /\ top + (j - 1) * L = n - a
        /\ a \in Nat /\ b - a \in 0 .. L
    BY <1>2, <2>1, <2>2
  <2> QED BY <1>5, <2>2, <2>3
<1> QED BY <1>4, <1>5

(* The limbs made of the bits of a number are the limbs of the number.     *)
LEMMA LimbsAre ==
  ASSUME NEW f \in Nat \ {0}, NEW bits \in Seq(Bits), Len(bits) <= BitSize(f)
  PROVE  Limbs(f, bits) = Decomposition(f, FromBitsLE(bits))
<1>1. PICK n, N, L, x, u : /\ n = BitSize(f) /\ N = NumLimbs(f) /\ L = LimbBits
                           /\ x = FromBitsLE(bits) /\ u = Resized(bits, n)
  OBVIOUS
<1>2. /\ n \in Nat \ {0} /\ N \in Nat \ {0} /\ (N - 1) * L \in Nat /\ n - (N - 1) * L \in 1 .. L
      /\ L \in Nat \ {0}
  BY <1>1, LimbsHold, WordsHold
<1>3. x \in Nat /\ ShiftRight(x, n) = 0 /\ u = BitsLE(x, n)
  <2>1. x \in Nat /\ x < ShiftLeft(1, Len(bits)) /\ Len(bits) \in Nat /\ Len(bits) <= n /\ n \in Nat
    BY <1>1, <1>2, BitsBelow
  <2>2. ShiftRight(x, n) = 0
    BY <2>1, ShiftedAway
  <2>3. BitsLE(FromBitsLE(bits), n) = Resized(bits, n)
    BY <2>1, BitsOfValue
  <2> QED BY Zenon, <1>1, <2>1, <2>2, <2>3
<1>4. u \in Seq(Bits) /\ Len(u) = n /\ \A k \in 1 .. n : u[k] = ShiftRight(x, k - 1) % 2
  <2>1. n \in Nat
    BY <1>2
  <2> QED BY <1>3, <2>1, BitsLEIs
<1> DEFINE top == n - (N - 1) * L
           slice(j) == IF j = 0 THEN SubSeq(Reverse(u), 1, top)
                       ELSE SubSeq(Reverse(u), top + (j - 1) * L + 1, top + j * L)
<1>5. Limbs(f, bits) = [j \in 1 .. N |-> FromBitsBE(slice(j - 1))]
  BY <1>1 DEF Limbs
<1>6. Decomposition(f, x) = [j \in 1 .. N |-> ShiftRight(x, L * (N - j)) % ShiftLeft(1, L)]
  BY <1>1 DEF Decomposition
<1>7. ASSUME NEW j \in 1 .. N
      PROVE  FromBitsBE(slice(j - 1)) = ShiftRight(x, L * (N - j)) % ShiftLeft(1, L)
  <2>1. PICK a, b, w : a = L * (N - j) /\ b = (IF j = 1 THEN n ELSE a + L) /\ w = top
    OBVIOUS
  <2>2. /\ a \in Nat /\ b \in Nat /\ a <= b /\ b <= n /\ b - a \in 0 .. L
        /\ j = 1 => n - b = 0 /\ n - a = w
        /\ j # 1 => w + ((j - 1) - 1) * L = n - b /\ w + (j - 1) * L = n - a /\ b - a = L
    <3>1. n \in Nat /\ w = n - (N - 1) * L
      BY <1>2, <2>1
    <3> HIDE DEF top, slice
    <3> QED BY <1>2, <2>1, <3>1, LimbPlaces
  <2>3. slice(j - 1) = SubSeq(Reverse(u), (n - b) + 1, n - a)
    <3>1. CASE j = 1
      <4>1. j - 1 = 0 /\ (n - b) + 1 = 1
        BY <2>2, <3>1
      <4>2. slice(j - 1) = SubSeq(Reverse(u), 1, w)
        BY <2>1, <4>1
      <4> HIDE DEF slice, top
      <4> QED BY <2>2, <3>1, <4>1, <4>2
    <3>2. CASE j # 1
      <4>1. j - 1 # 0
        BY <3>2
      <4>2. slice(j - 1) = SubSeq(Reverse(u), (w + ((j - 1) - 1) * L) + 1, w + (j - 1) * L)
        BY <2>1, <4>1
      <4> HIDE DEF slice, top
      <4> QED BY Zenon, <2>2, <3>2, <4>2
    <3> QED BY <3>1, <3>2
  <2> HIDE DEF slice, top
  <2>4. PICK t, l : t = TurnedSlice(u, n, a, b) /\ l = b - a
    OBVIOUS
  <2>5. t \in Seq(Bits) /\ Len(t) = l /\ \A i \in 1 .. l : t[i] = u[a + i]
    <3>1. /\ u \in Seq(Bits) /\ n \in Nat /\ Len(u) = n /\ a \in Nat /\ b \in Nat /\ a <= b /\ b <= n
      BY <1>2, <1>4, <2>2
    <3>2. IsSlice(t, u, a, l)
      BY Zenon, <2>4, <3>1, SliceReversed
    <3> QED BY Zenon, <3>2 DEF IsSlice
  <2>6. \A i \in 1 .. l : t[i] = ShiftRight(x, a + i - 1) % 2
    <3> SUFFICES ASSUME NEW i \in 1 .. l PROVE t[i] = ShiftRight(x, a + i - 1) % 2
      OBVIOUS
    <3>1. PICK k, m : k = a + i /\ m = a + i - 1
      OBVIOUS
    <3>2. k \in 1 .. n /\ k - 1 = m
      BY <1>2, <2>2, <2>4, <3>1
    <3>3. t[i] = u[k] /\ u[k] = ShiftRight(x, m) % 2
      BY Zenon, <1>4, <2>5, <3>1, <3>2
    <3> QED BY Zenon, <3>1, <3>3
  <2>7. l \in 0 .. L /\ (l = L \/ ShiftRight(x, a + l) = 0)
    <3>1. j = 1 => b = n
      BY <2>1
    <3>2. a + l = b /\ l \in 0 .. L /\ (j # 1 => l = L)
      BY <2>2, <2>4
    <3> QED BY <1>3, <3>1, <3>2
  <2>8. FromBitsLE(t) = ShiftRight(x, a) % ShiftLeft(1, L)
    <3>1. L \in Nat /\ x \in Nat /\ a \in Nat /\ l \in 0 .. L /\ t \in Seq(Bits) /\ Len(t) = l
      BY <1>2, <1>3, <2>2, <2>5, <2>7
    <3> QED BY SMTT(60), <2>6, <2>7, <3>1, MiddleBits
  <2> QED BY Zenon, <2>1, <2>3, <2>4, <2>8 DEF FromBitsBE, TurnedSlice
<1>8. [j \in 1 .. N |-> FromBitsBE(slice(j - 1))]
        = [j \in 1 .. N |-> ShiftRight(x, L * (N - j)) % ShiftLeft(1, L)]
  <2> HIDE DEF slice, top
  <2> QED BY Zenon, <1>7
<1> QED BY Zenon, <1>1, <1>5, <1>6, <1>8

-----------------------------------------------------------------------------
(* The value of limbs, from the top limb.                                  *)
LimbValues(v, limbs) ==
  /\ v \in [0 .. Len(limbs) -> Int] /\ v[0] = 0
  /\ \A j \in 1 .. Len(limbs) : v[j] = limbs[j] + ShiftLeft(1, LimbBits) * v[j - 1]

LEMMA LimbsValueLoop ==
  ASSUME NEW limbs, limbs \in Seq(Int)
  PROVE  \E v : LimbValues(v, limbs) /\ v[Len(limbs)] = LimbsValue(limbs)
<1> DEFINE N == Len(limbs)
           pow == ShiftLeft(1, LimbBits)
           F(h) == [j \in 0 .. N |-> IF j = 0 THEN 0 ELSE limbs[j] + pow * h[j - 1]]
           op == [p \in Int \X (1 .. N) |-> limbs[p[2]] + pow * p[1]]
           value == CHOOSE h : h = F(h)
<1>0. N \in Nat /\ (\A j \in 1 .. N : limbs[j] \in Int) /\ pow \in Int
  <2>1. N \in Nat /\ \A j \in 1 .. N : limbs[j] \in Int
    OBVIOUS
  <2>2. LimbBits \in Nat
    BY WordsHold
  <2>3. pow \in Int
    BY <2>2, PowerIs
  <2> QED BY <2>1, <2>3
<1>1. op \in Steps(Int, N)
  <2>1. ASSUME NEW p \in Int \X (1 .. N) PROVE limbs[p[2]] + pow * p[1] \in Int
    <3>1. p[1] \in Int /\ p[2] \in 1 .. N
      OBVIOUS
    <3>2. limbs[p[2]] \in Int
      BY <1>0, <3>1
    <3> HIDE DEF N, pow
    <3>3. pow * p[1] \in Int
      BY <1>0, <3>1
    <3> QED BY <3>2, <3>3
  <2> QED BY <2>1 DEF Steps
<1>2. \A y \in Int : \A j \in 1 .. N : op[<<y, j>>] = limbs[j] + pow * y
  OBVIOUS
<1> HIDE DEF op
<1>3. PICK e : e \in [0 .. N -> Int] /\ e[0] = 0 /\ \A j \in 1 .. N : e[j] = op[<<e[j - 1], j>>]
  <2>1. 0 \in Int
    OBVIOUS
  <2> HIDE DEF N
  <2>2. \E h : Repeats(h, Int, N, 0, op)
    BY Zenon, <1>0, <1>1, <2>1, RecursionExists
  <2> QED BY <2>2 DEF Repeats
<1>4. ASSUME NEW j \in 1 .. N PROVE e[j] = limbs[j] + pow * e[j - 1]
  <2>1. j - 1 \in 0 .. N
    BY <1>0
  <2>2. e[j - 1] \in Int
    BY <1>3, <2>1
  <2> QED BY Zenon, <1>2, <1>3, <2>2
<1>5. e = F(e)
  <2>1. \A j \in 0 .. N : j # 0 => j \in 1 .. N
    BY <1>0
  <2> HIDE DEF pow
  <2>2. \A j \in 0 .. N : e[j] = F(e)[j]
    BY <1>3, <1>4, <2>1
  <2>3. e = [j \in 0 .. N |-> e[j]] /\ F(e) = [j \in 0 .. N |-> F(e)[j]]
    BY <1>3
  <2> HIDE DEF F
  <2> QED BY <2>2, <2>3
<1>6. value = F(value)
  <2> HIDE DEF F
  <2> QED BY <1>5
<1>7. LimbsValue(limbs) = value[N]
  BY DEF LimbsValue
<1> HIDE DEF value, pow
<1>8. value[0] = 0
  <2>1. 0 \in 0 .. N
    BY <1>0
  <2> QED BY <1>6, <2>1
<1>9. ASSUME NEW j \in 1 .. N PROVE value[j] = limbs[j] + pow * value[j - 1]
  <2>1. j \in 0 .. N /\ j # 0
    BY <1>0
  <2>2. \A h : j \in 0 .. N /\ j # 0 => F(h)[j] = limbs[j] + pow * h[j - 1]
    OBVIOUS
  <2> HIDE DEF F
  <2> QED BY Zenon, <1>6, <2>1, <2>2
<1> HIDE DEF F, N
<1> DEFINE T == {j \in Nat : j <= N => value[j] = e[j]}
<1>10. 0 \in T
  BY <1>3, <1>8
<1>11. ASSUME NEW j \in Nat, j \in T PROVE j + 1 \in T
  <2> SUFFICES ASSUME j + 1 <= N PROVE value[j + 1] = e[j + 1]
    OBVIOUS
  <2>1. PICK k : k = j + 1
    OBVIOUS
  <2>2. k \in 1 .. N /\ k - 1 = j /\ j <= N
    BY <1>0, <2>1
  <2>3. value[j] = e[j]
    BY <1>11, <2>2
  <2>4. value[k] = limbs[k] + pow * value[j] /\ e[k] = limbs[k] + pow * e[j]
    BY Zenon, <1>4, <1>9, <2>2
  <2> QED BY Zenon, <2>1, <2>3, <2>4
<1>12. N \in T
  <2> HIDE DEF T
  <2> QED BY <1>0, <1>10, <1>11, InductionOnSet
<1>13. e[N] = LimbsValue(limbs)
  BY <1>0, <1>7, <1>12
<1>14. LimbValues(e, limbs)
  BY Zenon, <1>3, <1>4 DEF LimbValues, N, pow
<1> QED BY <1>13, <1>14 DEF N

(* The limbs of a number that has no more bits than the modulus have its   *)
(* value.                                                                  *)
LEMMA LimbsValueIs ==
  ASSUME NEW f \in Nat \ {0}, NEW x \in Nat, ShiftRight(x, BitSize(f)) = 0
  PROVE  LimbsValue(Decomposition(f, x)) = x
<1>1. PICK n, N, L, pow, limbs :
        /\ n = BitSize(f) /\ N = NumLimbs(f) /\ L = LimbBits
        /\ pow = ShiftLeft(1, LimbBits) /\ limbs = Decomposition(f, x)
  OBVIOUS
<1>2. n \in Nat /\ N \in Nat \ {0} /\ n <= L * N /\ L \in Nat \ {0} /\ pow \in Nat \ {0}
  <2>1. n \in Nat \ {0} /\ N \in Nat \ {0} /\ n <= L * N /\ L \in Nat \ {0}
    BY <1>1, LimbsHold, WordsHold
  <2>2. L \in Nat /\ pow = ShiftLeft(1, L)
    BY <1>1, <2>1
  <2>3. pow \in Nat \ {0}
    BY <2>2, PowerIs
  <2> QED BY <2>1, <2>3
<1>3. limbs = [j \in 1 .. N |-> ShiftRight(x, L * (N - j)) % pow]
  BY Zenon, <1>1 DEF Decomposition
<1>4. ASSUME NEW j \in 1 .. N
      PROVE  /\ limbs[j] \in Int
             /\ ShiftRight(x, L * (N - j)) = limbs[j] + pow * ShiftRight(x, L * (N - (j - 1)))
  <2>1. PICK a, b : a = L * (N - j) /\ b = L * (N - (j - 1))
    OBVIOUS
  <2>2. a \in Nat /\ b = a + L
    <3>1. PICK r \in Nat : r = N - j
      <4>1. N - j \in Nat
        BY <1>2
      <4> QED BY <4>1
    <3>2. N - (j - 1) = r + 1
      BY <1>2, <3>1
    <3>3. L * r \in Nat /\ L * (r + 1) = L * r + L
      BY <1>2
    <3> QED BY <2>1, <3>1, <3>2, <3>3
  <2>3. PICK z : z = ShiftRight(x, a)
    OBVIOUS
  <2>4. z \in Nat /\ L \in Nat
    BY <1>2, <2>2, <2>3, ShiftRightIs
  <2>5. z % ShiftLeft(1, L) \in 0 .. (ShiftLeft(1, L) - 1) /\ z = (z % ShiftLeft(1, L)) + ShiftLeft(1, L) * ShiftRight(z, L)
    BY <2>4, RestIsLowBits
  <2>6. ShiftRight(z, L) = ShiftRight(x, a + L)
    BY <2>2, <2>3, <2>4, ShiftFurther
  <2>7. pow = ShiftLeft(1, L)
    BY <1>1
  <2>8. limbs[j] = z % pow
    BY Zenon, <1>3, <2>1, <2>3
  <2>9. z % pow \in Int
    <3>1. ShiftLeft(1, L) \in Int
      BY <2>4, PowerIs
    <3>2. z % ShiftLeft(1, L) \in Int
      BY <2>5, <3>1
    <3> QED BY Zenon, <2>7, <3>2
  <2> QED BY Zenon, <2>1, <2>2, <2>3, <2>5, <2>6, <2>7, <2>8, <2>9
<1>5. limbs \in Seq(Int) /\ Len(limbs) = N
  <2>1. DOMAIN limbs = 1 .. N /\ limbs = [j \in 1 .. N |-> limbs[j]] /\ \A j \in 1 .. N : limbs[j] \in Int
    BY Zenon, <1>3, <1>4
  <2> QED BY <1>2, <2>1
<1>6. PICK v : LimbValues(v, limbs) /\ v[Len(limbs)] = LimbsValue(limbs)
  BY Zenon, <1>5, LimbsValueLoop
<1>7. v[0] = 0 /\ \A j \in 1 .. N : v[j] = limbs[j] + pow * v[j - 1]
  BY Zenon, <1>1, <1>5, <1>6 DEF LimbValues
<1> DEFINE T == {j \in Nat : j <= N => v[j] = ShiftRight(x, L * (N - j))}
<1>8. 0 \in T
  <2>1. PICK m : m = L * N
    OBVIOUS
  <2>2. m \in Nat /\ n <= m /\ N - 0 = N
    BY <1>2, <2>1
  <2>3. ShiftRight(x, n) = 0
    BY <1>1
  <2>4. ShiftRight(x, m) = 0
    BY <1>2, <2>2, <2>3, ZeroStays
  <2>5. v[0] = ShiftRight(x, L * (N - 0))
    BY Zenon, <1>7, <2>1, <2>2, <2>4
  <2> QED BY <2>5
<1>9. ASSUME NEW j \in Nat, j \in T PROVE j + 1 \in T
  <2> SUFFICES ASSUME j + 1 <= N PROVE v[j + 1] = ShiftRight(x, L * (N - (j + 1)))
    OBVIOUS
  <2>1. PICK k : k = j + 1
    OBVIOUS
  <2>2. k \in 1 .. N /\ k - 1 = j /\ j <= N
    BY <1>2, <2>1
  <2>3. v[j] = ShiftRight(x, L * (N - j))
    BY <1>9, <2>2
  <2>4. v[k] = limbs[k] + pow * v[j]
    BY Zenon, <1>7, <2>2
  <2>5. ShiftRight(x, L * (N - k)) = limbs[k] + pow * ShiftRight(x, L * (N - j))
    BY Zenon, <1>4, <2>2
  <2> QED BY Zenon, <2>1, <2>3, <2>4, <2>5
<1>10. N \in T
  <2> HIDE DEF T
  <2>1. N \in Nat
    BY <1>2
  <2> QED BY <1>8, <1>9, <2>1, InductionOnSet
<1>11. v[N] = ShiftRight(x, L * (N - N))
  BY <1>2, <1>10
<1>12. L * (N - N) = 0 /\ ShiftRight(x, 0) = x
  <2>1. N - N = 0 /\ L * 0 = 0 /\ 0 \in Nat
    BY <1>2
  <2>2. ShiftRight(x, 0) = x
    BY <2>1, ShiftRightIs
  <2> QED BY <2>1, <2>2
<1> QED BY Zenon, <1>1, <1>5, <1>6, <1>11, <1>12

-----------------------------------------------------------------------------
(* Squeezed bits: the limbs of the powers of two add up, without a carry.  *)
LEMMA TimesGrows ==
  ASSUME NEW pow \in Nat \ {0}, NEW u \in Nat, NEW v \in Nat, u <= v
  PROVE  pow * u <= pow * v /\ pow * v \in Nat /\ u <= pow * u
<1>1. PICK d \in Nat : v = u + d
  <2>1. v - u \in Nat /\ v = u + (v - u)
    OBVIOUS
  <2> QED BY <2>1
<1>2. pow * d \in Nat /\ pow * u \in Nat /\ pow * (u + d) = pow * u + pow * d
  OBVIOUS
<1>3. u <= pow * u
  <2>1. PICK k \in Nat : pow = k + 1
    <3>1. pow - 1 \in Nat /\ pow = (pow - 1) + 1
      OBVIOUS
    <3> QED BY <3>1
  <2>2. k * u \in Nat /\ (k + 1) * u = k * u + u
    OBVIOUS
  <2> QED BY <2>1, <2>2
<1> QED BY <1>1, <1>2, <1>3

LEMMA PowerGrows ==
  ASSUME NEW i \in Nat, NEW n \in Nat, i <= n
  PROVE  ShiftLeft(1, i) <= ShiftLeft(1, n)
<1>1. PICK d \in Nat : n = i + d
  <2>1. n - i \in Nat /\ n = i + (n - i)
    OBVIOUS
  <2> QED BY <2>1
<1>2. PICK p, q : p = ShiftLeft(1, i) /\ q = ShiftLeft(1, d)
  OBVIOUS
<1>3. p \in Nat \ {0} /\ q \in Nat \ {0}
  BY <1>2, PowerIs
<1>4. ShiftLeft(1, n) = p * q
  BY Zenon, <1>1, <1>2, PowersAdd
<1>5. p * 1 <= p * q /\ p * 1 = p
  <2>1. 1 \in Nat /\ q \in Nat /\ 1 <= q
    BY <1>3
  <2>2. p * 1 <= p * q
    BY <1>3, <2>1, TimesGrows
  <2> QED BY <1>3, <2>2
<1> QED BY <1>2, <1>4, <1>5

(* The powers of two of the bits of an odd modulus are smaller than it.    *)
LEMMA PowerBelow ==
  ASSUME NEW f \in Moduli, NEW j \in 1 .. BitSize(f)
  PROVE  ShiftLeft(1, j - 1) % f = ShiftLeft(1, j - 1)
<1>1. PICK n, p : n = BitSize(f) /\ p = ShiftLeft(1, j - 1)
  OBVIOUS
<1>2. f \in Nat \ {0} /\ f > 1 /\ f % 2 = 1
  BY WordsHold
<1>3. n \in Nat \ {0} /\ n - 1 \in Nat /\ ShiftLeft(1, n - 1) <= f
  BY <1>1, <1>2, BitSizeBounds
<1>4. j - 1 \in Nat /\ j - 1 <= n - 1
  BY <1>1, <1>3
<1>5. p \in Nat \ {0} /\ p <= ShiftLeft(1, n - 1) /\ ShiftLeft(1, n - 1) \in Nat
  <2>1. p \in Nat \ {0}
    BY <1>1, <1>4, PowerIs
  <2>2. ShiftLeft(1, n - 1) \in Nat
    BY <1>3, PowerIs
  <2>3. ShiftLeft(1, j - 1) <= ShiftLeft(1, n - 1)
    BY <1>3, <1>4, PowerGrows
  <2> QED BY <1>1, <2>1, <2>2, <2>3
<1>6. p <= f
  BY <1>2, <1>3, <1>5
<1>7. p # f
  <2>1. CASE j - 1 = 0
    <3>1. 1 \in Nat /\ 0 \in Nat
      OBVIOUS
    <3>2. ShiftLeft(1, 0) = 1
      BY <3>1, ShiftLeftIs
    <3> QED BY <1>1, <1>2, <2>1, <3>2
  <2>2. CASE j - 1 # 0
    <3>1. PICK k \in Nat : j - 1 = k + 1
      <4>1. (j - 1) - 1 \in Nat /\ j - 1 = ((j - 1) - 1) + 1
        BY <1>4, <2>2
      <4> QED BY <4>1
    <3>2. ShiftLeft(1, k + 1) = 2 * ShiftLeft(1, k) /\ ShiftLeft(1, k) \in Nat
      <4>1. 1 \in Nat /\ k \in Nat
        OBVIOUS
      <4> QED BY <4>1, ShiftLeftIs
    <3>3. p % 2 = 0
      <4>1. PICK q \in Nat : q = ShiftLeft(1, k)
        BY <3>2
      <4>2. p = 2 * q
        BY Zenon, <1>1, <3>1, <3>2, <4>1
      <4> QED BY <4>2
    <3>4. 0 # 1
      OBVIOUS
    <3> QED BY Zenon, <1>2, <3>3, <3>4
  <2> QED BY <2>1, <2>2
<1>8. p \in 0 .. (f - 1)
  BY <1>2, <1>5, <1>6, <1>7
<1>9. p % f = p
  BY <1>2, <1>8, SmallRest
<1> QED BY Zenon, <1>1, <1>9

LEMMA ShiftAdds ==
  ASSUME NEW x \in Nat, NEW a \in Nat, NEW c \in Nat
  PROVE  ShiftRight(x + ShiftLeft(1, a) * c, a) = ShiftRight(x, a) + c
<1>1. PICK pow, z, s, t : /\ pow = ShiftLeft(1, a) /\ z = x + ShiftLeft(1, a) * c
                        /\ s = ShiftRight(x, a) /\ t = ShiftRight(x + ShiftLeft(1, a) * c, a)
  OBVIOUS
<1>2. pow \in Nat \ {0}
  BY <1>1, PowerIs
<1>3. z = x + pow * c /\ t = ShiftRight(z, a)
  BY Zenon, <1>1
<1>4. z \in Nat /\ pow * c \in Nat
  <2>1. pow * c \in Nat
    BY <1>2
  <2> QED BY <1>3, <2>1
<1>5. s \in Nat /\ t \in Nat
  BY <1>1, <1>3, <1>4, ShiftRightIs
<1>6. PICK r1, r2 : r1 = x % pow /\ r2 = z % pow
  OBVIOUS
<1>7. r1 \in 0 .. (pow - 1) /\ x = r1 + pow * s
  <2>1. x % ShiftLeft(1, a) \in 0 .. (ShiftLeft(1, a) - 1) /\ x = (x % ShiftLeft(1, a)) + ShiftLeft(1, a) * ShiftRight(x, a)
    BY RestIsLowBits
  <2> QED BY Zenon, <1>1, <1>6, <2>1
<1>8. r2 \in 0 .. (pow - 1) /\ z = r2 + pow * t
  <2>1. z % ShiftLeft(1, a) \in 0 .. (ShiftLeft(1, a) - 1) /\ z = (z % ShiftLeft(1, a)) + ShiftLeft(1, a) * ShiftRight(z, a)
    BY <1>4, RestIsLowBits
  <2> QED BY Zenon, <1>1, <1>3, <1>6, <2>1
<1>9. r1 + pow * s + pow * c = r2 + pow * t
  BY <1>2, <1>3, <1>4, <1>5, <1>7, <1>8
<1>10. PICK k \in Int : k = (s + c) - t
  BY <1>5
<1>11. pow * k = r2 - r1
  <2>1. pow * ((s + c) - t) = (pow * s + pow * c) - pow * t /\ pow * s \in Int /\ pow * t \in Int /\ pow * c \in Int
    BY <1>2, <1>5
  <2>2. pow * k = (pow * s + pow * c) - pow * t
    BY <1>10, <2>1
  <2>3. PICK u, v, w : u = pow * s /\ v = pow * c /\ w = pow * t
    OBVIOUS
  <2>4. u \in Int /\ v \in Int /\ w \in Int /\ r1 + u + v = r2 + w
    BY Zenon, <1>9, <2>1, <2>3
  <2>5. r1 \in Int /\ r2 \in Int
    BY <1>2, <1>7, <1>8
  <2>6. (u + v) - w = r2 - r1
    BY <2>4, <2>5
  <2> QED BY Zenon, <2>2, <2>3, <2>6
<1>12. k = 0
  <2>1. PICK d : d = pow * k
    OBVIOUS
  <2>2. d \in Int /\ d < pow /\ -pow < d
    BY <1>2, <1>7, <1>8, <1>11, <2>1
  <2>3. CASE k >= 1
    <3>1. k \in Nat /\ 1 \in Nat /\ 1 <= k
      BY <2>3
    <3>2. pow * 1 <= pow * k /\ pow * 1 = pow
      BY <1>2, <3>1, TimesGrows
    <3> QED BY <1>2, <2>1, <2>2, <3>2
  <2>4. CASE k <= -1
    <3>1. PICK m \in Nat : m = -k
      BY <2>4
    <3>2. 1 \in Nat /\ 1 <= m
      BY <2>4, <3>1
    <3>3. pow * 1 <= pow * m /\ pow * 1 = pow
      BY <1>2, <3>2, TimesGrows
    <3>4. pow * m = -d
      BY <1>2, <2>1, <3>1
    <3> QED BY <1>2, <2>2, <3>3, <3>4
  <2> QED BY <2>3, <2>4
<1>13. t = s + c
  BY <1>5, <1>10, <1>12
<1> QED BY Zenon, <1>1, <1>13

-----------------------------------------------------------------------------
(* The limb at a of x, and of a power of two above x, add up to the limb   *)
(* of their sum.                                                           *)
LEMMA NoCarry ==
  ASSUME NEW y \in Nat, NEW d \in Nat, y < ShiftLeft(1, d), NEW L \in Nat
  PROVE  (y + ShiftLeft(1, d)) % ShiftLeft(1, L)
           = (y % ShiftLeft(1, L)) + (ShiftLeft(1, d) % ShiftLeft(1, L))
<1>1. PICK pow, q : pow = ShiftLeft(1, L) /\ q = ShiftLeft(1, d)
  OBVIOUS
<1>2. pow \in Nat \ {0} /\ q \in Nat \ {0}
  BY <1>1, PowerIs
<1>3. y < q
  BY Zenon, <1>1
<1>4. CASE d < L
  <2>1. PICK m \in Nat : m = d + 1
    OBVIOUS
  <2>2. ShiftLeft(1, m) <= pow
    <3>1. m <= L
      BY <1>4, <2>1
    <3> QED BY <1>1, <3>1, PowerGrows
  <2>3. ShiftLeft(1, m) = 2 * q
    <3>1. 1 \in Nat
      OBVIOUS
    <3>2. ShiftLeft(1, d + 1) = 2 * ShiftLeft(1, d)
      BY <3>1, ShiftLeftIs
    <3> QED BY Zenon, <1>1, <2>1, <3>2
  <2>4. y + q \in 0 .. (pow - 1) /\ y \in 0 .. (pow - 1) /\ q \in 0 .. (pow - 1)
    BY <1>2, <1>3, <2>2, <2>3
  <2>5. (y + q) % pow = y + q /\ y % pow = y /\ q % pow = q
    BY <1>2, <2>4, SmallRest
  <2> QED BY Zenon, <1>1, <2>5
<1>5. CASE ~ (d < L)
  <2>1. PICK e \in Nat : d = L + e
    <3>1. d - L \in Nat /\ d = L + (d - L)
      BY <1>5
    <3> QED BY <3>1
  <2>2. PICK c : c = ShiftLeft(1, e)
    OBVIOUS
  <2>3. c \in Nat
    BY <2>2, PowerIs
  <2>4. q = pow * c
    BY Zenon, <1>1, <2>1, <2>2, PowersAdd
  <2>5. q % pow = 0
    <3>1. 0 \in 0 .. (pow - 1) /\ q = 0 + pow * c /\ q \in Int /\ c \in Int
      BY <1>2, <2>3, <2>4
    <3> QED BY <1>2, <3>1, RestFound
  <2>6. PICK r, s : r = y % pow /\ s = ShiftRight(y, L)
    OBVIOUS
  <2>7. r \in 0 .. (pow - 1) /\ y = r + pow * s
    <3>1. y % ShiftLeft(1, L) \in 0 .. (ShiftLeft(1, L) - 1) /\ y = (y % ShiftLeft(1, L)) + ShiftLeft(1, L) * ShiftRight(y, L)
      BY RestIsLowBits
    <3> QED BY Zenon, <1>1, <2>6, <3>1
  <2>8. (y + q) % pow = r
    <3>1. s \in Nat
      BY <2>6, ShiftRightIs
    <3>2. y + q = r + pow * (s + c) /\ y + q \in Int /\ s + c \in Int
      <4>1. pow * (s + c) = pow * s + pow * c /\ pow * s \in Int /\ pow * c \in Int
        BY <1>2, <2>3, <3>1
      <4>2. PICK u, v : u = pow * s /\ v = pow * c
        OBVIOUS
      <4>3. pow * (s + c) = u + v /\ u \in Int /\ v \in Int /\ q = v /\ y = r + u
        BY Zenon, <2>4, <2>7, <4>1, <4>2
      <4>4. r \in Int /\ s + c \in Int
        BY <1>2, <2>3, <2>7, <3>1
      <4>5. y + q = r + (u + v) /\ y + q \in Int
        BY <4>3, <4>4
      <4> QED BY Zenon, <4>3, <4>4, <4>5
    <3> QED BY <1>2, <2>7, <3>2, RestFound
  <2>9. r \in Int
    BY <1>2, <2>7
  <2>10. r + 0 = r
    BY <2>9
  <2> QED BY Zenon, <1>1, <2>5, <2>6, <2>8, <2>10
<1> QED BY <1>4, <1>5

LEMMA LimbGrows ==
  ASSUME NEW x \in Nat, NEW j \in Nat, x < ShiftLeft(1, j), NEW a \in Nat, NEW L \in Nat
  PROVE  ShiftRight(x + ShiftLeft(1, j), a) % ShiftLeft(1, L)
           = (ShiftRight(x, a) % ShiftLeft(1, L)) + (ShiftRight(ShiftLeft(1, j), a) % ShiftLeft(1, L))
<1>1. PICK pow, q : pow = ShiftLeft(1, L) /\ q = ShiftLeft(1, j)
  OBVIOUS
<1>2. pow \in Nat \ {0} /\ q \in Nat \ {0}
  BY <1>1, PowerIs
<1>3. x < q
  BY Zenon, <1>1
<1>4. CASE j < a
  <2>1. PICK m \in Nat : m = j + 1
    OBVIOUS
  <2>2. m <= a /\ ShiftLeft(1, m) = 2 * q
    <3>1. 1 \in Nat
      OBVIOUS
    <3>2. ShiftLeft(1, j + 1) = 2 * ShiftLeft(1, j)
      BY <3>1, ShiftLeftIs
    <3> QED BY <1>1, <1>4, <2>1, <3>2
  <2>3. \A z \in Nat : z < 2 * q => ShiftRight(z, a) = 0
    <3> SUFFICES ASSUME NEW z \in Nat, z < 2 * q PROVE ShiftRight(z, a) = 0
      OBVIOUS
    <3>1. z < ShiftLeft(1, m)
      BY Zenon, <2>2
    <3> QED BY <2>2, <3>1, ShiftedAway
  <2>4. x + q \in Nat /\ x + q < 2 * q /\ x < 2 * q /\ q \in Nat /\ q < 2 * q
    BY <1>2, <1>3
  <2>5. ShiftRight(x + q, a) = 0 /\ ShiftRight(x, a) = 0 /\ ShiftRight(q, a) = 0
    BY Zenon, <2>3, <2>4
  <2>6. 0 % pow = 0 /\ 0 + 0 = 0
    BY <1>2
  <2> QED BY Zenon, <1>1, <2>5, <2>6
<1>5. CASE ~ (j < a)
  <2>1. PICK d \in Nat : j = a + d
    <3>1. j - a \in Nat /\ j = a + (j - a)
      BY <1>5
    <3> QED BY <3>1
  <2>2. PICK c, A, y : c = ShiftLeft(1, d) /\ A = ShiftLeft(1, a) /\ y = ShiftRight(x, a)
    OBVIOUS
  <2>3. c \in Nat /\ A \in Nat \ {0} /\ y \in Nat
    BY <2>2, PowerIs, ShiftRightIs
  <2>4. q = A * c
    BY Zenon, <1>1, <2>1, <2>2, PowersAdd
  <2>5. ShiftRight(x + q, a) = y + c
    <3>1. ShiftRight(x + ShiftLeft(1, a) * c, a) = ShiftRight(x, a) + c
      BY <2>3, ShiftAdds
    <3> QED BY Zenon, <2>2, <2>4, <3>1
  <2>6. ShiftRight(q, a) = c
    <3>1. 0 \in Nat /\ 0 < ShiftLeft(1, a) /\ 0 + q = q /\ 0 + c = c
      BY <1>2, <2>2, <2>3
    <3>2. ShiftRight(0 + ShiftLeft(1, a) * c, a) = ShiftRight(0, a) + c
      BY <2>3, <3>1, ShiftAdds
    <3>3. ShiftRight(0, a) = 0
      BY <3>1, BelowShiftedAway
    <3> QED BY Zenon, <2>2, <2>4, <3>1, <3>2, <3>3
  <2>7. y < c
    <3>1. SUFFICES ASSUME ~ (y < c) PROVE FALSE
      OBVIOUS
    <3>2. c <= y
      BY <2>3, <3>1
    <3>3. A * c <= A * y /\ A * y \in Nat
      BY <2>3, <3>2, TimesGrows
    <3>4. A * y <= x
      <4>1. x % ShiftLeft(1, a) \in 0 .. (ShiftLeft(1, a) - 1) /\ x = (x % ShiftLeft(1, a)) + ShiftLeft(1, a) * ShiftRight(x, a)
        BY RestIsLowBits
      <4>2. PICK r, u : r = x % A /\ u = A * y
        OBVIOUS
      <4>3. r \in 0 .. (A - 1) /\ x = r + u /\ u \in Nat
        BY Zenon, <2>2, <3>3, <4>1, <4>2
      <4>4. u <= x
        BY <2>3, <4>3
      <4> QED BY Zenon, <4>2, <4>4
    <3>5. PICK u : u = A * y
      OBVIOUS
    <3>6. q <= u /\ u <= x /\ u \in Nat
      BY Zenon, <2>4, <3>3, <3>4, <3>5
    <3> QED BY <1>2, <1>3, <3>6
  <2>8. (y + c) % pow = (y % pow) + (c % pow)
    <3>1. y < ShiftLeft(1, d)
      BY Zenon, <2>2, <2>7
    <3>2. (y + ShiftLeft(1, d)) % ShiftLeft(1, L) = (y % ShiftLeft(1, L)) + (ShiftLeft(1, d) % ShiftLeft(1, L))
      BY <2>3, <3>1, NoCarry
    <3> QED BY Zenon, <1>1, <2>2, <3>2
  <2> QED BY Zenon, <1>1, <2>2, <2>5, <2>6, <2>8
<1> QED BY <1>4, <1>5

(* One more low bit.                                                       *)
LEMMA LowBitsGrow ==
  ASSUME NEW x \in Nat, NEW j \in Nat
  PROVE  /\ x % ShiftLeft(1, j) \in Nat /\ x % ShiftLeft(1, j) < ShiftLeft(1, j)
         /\ ShiftRight(x, j) % 2 \in {0, 1}
         /\ x % ShiftLeft(1, j + 1) = (x % ShiftLeft(1, j)) + (ShiftRight(x, j) % 2) * ShiftLeft(1, j)
<1>1. PICK k, p, q, r, l, s, t : /\ k = j + 1 /\ p = ShiftLeft(1, j) /\ q = ShiftLeft(1, k)
                                 /\ r = x % p /\ l = x % q /\ s = ShiftRight(x, j) /\ t = ShiftRight(x, k)
  OBVIOUS
<1>2. k \in Nat /\ p \in Nat \ {0} /\ q = 2 * p
  <2>1. 1 \in Nat /\ k \in Nat
    BY <1>1
  <2>2. ShiftLeft(1, j + 1) = 2 * ShiftLeft(1, j)
    BY <2>1, ShiftLeftIs
  <2>3. p \in Nat \ {0}
    BY <1>1, PowerIs
  <2> QED BY Zenon, <1>1, <2>1, <2>2, <2>3
<1>3. r \in 0 .. (p - 1) /\ x = r + p * s
  <2>1. x % ShiftLeft(1, j) \in 0 .. (ShiftLeft(1, j) - 1) /\ x = (x % ShiftLeft(1, j)) + ShiftLeft(1, j) * ShiftRight(x, j)
    BY RestIsLowBits
  <2> QED BY Zenon, <1>1, <2>1
<1>4. l \in 0 .. (q - 1) /\ x = l + q * t
  <2>1. x % ShiftLeft(1, k) \in 0 .. (ShiftLeft(1, k) - 1) /\ x = (x % ShiftLeft(1, k)) + ShiftLeft(1, k) * ShiftRight(x, k)
    BY <1>2, RestIsLowBits
  <2> QED BY Zenon, <1>1, <2>1
<1>5. s \in Nat /\ t \in Nat /\ t = s \div 2
  <2>1. ShiftRight(x, j) \in Nat /\ ShiftRight(x, j + 1) = ShiftRight(x, j) \div 2
    BY ShiftRightIs
  <2>2. s \in Nat /\ t = s \div 2
    BY Zenon, <1>1, <2>1
  <2> QED BY <2>2
<1>6. PICK b : b = s % 2
  OBVIOUS
<1>7. b \in {0, 1} /\ s = b + 2 * t
  BY <1>5, <1>6
<1>8. l = r + b * p
  <2>1. PICK u : u = p * t
    OBVIOUS
  <2>2. u \in Int /\ p * s = b * p + 2 * u /\ q * t = 2 * u /\ b * p \in Int
    <3>1. p * t \in Int /\ b * p \in Int /\ p * (b + 2 * t) = b * p + 2 * (p * t) /\ (2 * p) * t = 2 * (p * t)
      BY <1>2, <1>5, <1>7
    <3> QED BY Zenon, <1>2, <1>7, <2>1, <3>1
  <2>3. PICK v, w : v = p * s /\ w = b * p
    OBVIOUS
  <2>4. w \in Int /\ u \in Int /\ x = r + v /\ v = w + 2 * u /\ x = l + 2 * u
    BY Zenon, <1>3, <1>4, <2>2, <2>3
  <2>5. r \in Int /\ l \in Int
    BY <1>2, <1>3, <1>4
  <2>6. l = r + w
    BY <2>4, <2>5
  <2> QED BY Zenon, <2>3, <2>6
<1>9. r \in Nat /\ r < p
  BY <1>2, <1>3
<1> QED BY Zenon, <1>1, <1>6, <1>7, <1>8, <1>9

-----------------------------------------------------------------------------
(* The loop over squeezed bits.                                            *)
Looked(f, j) == Decomposition(f, ShiftLeft(1, j - 1) % f)
EmulatedValues(v, f, bits) ==
  /\ v[0] = [k \in 1 .. NumLimbs(f) |-> 0]
  /\ \A j \in 1 .. Len(bits) :
       v[j] = [k \in 1 .. NumLimbs(f) |-> v[j - 1][k] + bits[j] * Looked(f, j)[k]]

LEMMA EmulateLoop ==
  ASSUME NEW f, NEW bits, Len(bits) \in Nat,
         \A j \in 1 .. Len(bits) : bits[j] \in Int /\ \A k \in 1 .. NumLimbs(f) : Looked(f, j)[k] \in Int
  PROVE  \E v : EmulatedValues(v, f, bits) /\ v[Len(bits)] = BitsLEToEmulated(f, bits)
<1> DEFINE N == Len(bits)
           K == 1 .. NumLimbs(f)
           S == [K -> Int]
           zero == [k \in K |-> 0]
           added(y, j) == [k \in K |-> y[k] + bits[j] * Looked(f, j)[k]]
           F(h) == [j \in 0 .. N |-> IF j = 0 THEN zero ELSE added(h[j - 1], j)]
           op == [p \in S \X (1 .. N) |-> added(p[1], p[2])]
           value == CHOOSE h : h = F(h)
<1>0. N \in Nat
  OBVIOUS
<1>1. ASSUME NEW y \in S, NEW j \in 1 .. N PROVE added(y, j) \in S
  <2>1. ASSUME NEW k \in K PROVE y[k] + bits[j] * Looked(f, j)[k] \in Int
    <3>1. y[k] \in Int
      OBVIOUS
    <3>2. PICK b, l : b = bits[j] /\ l = Looked(f, j)[k]
      OBVIOUS
    <3>3. b \in Int /\ l \in Int
      BY <3>2
    <3>4. PICK u \in Int : u = b * l
      BY <3>3
    <3> HIDE DEF N, K, S, added
    <3>5. y[k] + u \in Int
      BY <3>1
    <3> QED BY Zenon, <3>2, <3>4, <3>5
  <2> HIDE DEF K
  <2> QED BY <2>1
<1>2. zero \in S
  OBVIOUS
<1>3. op \in Steps(S, N) /\ \A y \in S : \A j \in 1 .. N : op[<<y, j>>] = added(y, j)
  <2> HIDE DEF added, S, N
  <2>1. \A p \in S \X (1 .. N) : added(p[1], p[2]) \in S
    BY <1>1
  <2> QED BY <2>1 DEF Steps
<1> HIDE DEF op, zero, added, S, N
<1>4. PICK e : e \in [0 .. N -> S] /\ e[0] = zero /\ \A j \in 1 .. N : e[j] = op[<<e[j - 1], j>>]
  <2>1. \E h : Repeats(h, S, N, zero, op)
    BY Zenon, <1>0, <1>2, <1>3, RecursionExists
  <2> QED BY <2>1 DEF Repeats
<1>5. ASSUME NEW j \in 1 .. N PROVE e[j] = added(e[j - 1], j)
  <2>1. j - 1 \in 0 .. N
    BY <1>0
  <2>2. e[j - 1] \in S
    BY <1>4, <2>1
  <2> QED BY Zenon, <1>3, <1>4, <2>2
<1>6. e = F(e)
  <2>1. \A j \in 0 .. N : j # 0 => j \in 1 .. N
    BY <1>0
  <2>2. \A j \in 0 .. N : e[j] = F(e)[j]
    BY <1>4, <1>5, <2>1
  <2>3. e = [j \in 0 .. N |-> e[j]] /\ F(e) = [j \in 0 .. N |-> F(e)[j]]
    BY <1>4
  <2> HIDE DEF F
  <2> QED BY <2>2, <2>3
<1>7. value = F(value)
  <2> HIDE DEF F
  <2> QED BY <1>6
<1>8. BitsLEToEmulated(f, bits) = value[N]
  BY DEF BitsLEToEmulated, Looked, zero, added, N
<1> HIDE DEF value
<1>9. value[0] = zero
  <2>1. 0 \in 0 .. N
    BY <1>0
  <2> QED BY <1>7, <2>1
<1>10. ASSUME NEW j \in 1 .. N PROVE value[j] = added(value[j - 1], j)
  <2>1. j \in 0 .. N /\ j # 0
    BY <1>0
  <2>2. \A h : j \in 0 .. N /\ j # 0 => F(h)[j] = added(h[j - 1], j)
    OBVIOUS
  <2> HIDE DEF F
  <2> QED BY Zenon, <1>7, <2>1, <2>2
<1> HIDE DEF F
<1> DEFINE T == {j \in Nat : j <= N => value[j] = e[j]}
<1>11. 0 \in T
  BY <1>4, <1>9
<1>12. ASSUME NEW j \in Nat, j \in T PROVE j + 1 \in T
  <2> SUFFICES ASSUME j + 1 <= N PROVE value[j + 1] = e[j + 1]
    OBVIOUS
  <2>1. PICK k : k = j + 1
    OBVIOUS
  <2>2. k \in 1 .. N /\ k - 1 = j /\ j <= N
    BY <1>0, <2>1
  <2>3. value[j] = e[j]
    BY <1>12, <2>2
  <2>4. value[k] = added(value[j], k) /\ e[k] = added(e[j], k)
    BY Zenon, <1>5, <1>10, <2>2
  <2> QED BY Zenon, <2>1, <2>3, <2>4
<1>13. N \in T
  <2> HIDE DEF T
  <2> QED BY <1>0, <1>11, <1>12, InductionOnSet
<1>14. e[N] = BitsLEToEmulated(f, bits)
  BY <1>0, <1>8, <1>13
<1>15. EmulatedValues(e, f, bits)
  BY Zenon, <1>4, <1>5 DEF EmulatedValues, N, zero, added
<1> QED BY Zenon, <1>14, <1>15 DEF N

-----------------------------------------------------------------------------
LEMMA DecompositionIs ==
  ASSUME NEW f \in Nat \ {0}, NEW x \in Nat, NEW k \in 1 .. NumLimbs(f)
  PROVE  /\ LimbBits * (NumLimbs(f) - k) \in Nat
         /\ Decomposition(f, x)[k] = ShiftRight(x, LimbBits * (NumLimbs(f) - k)) % ShiftLeft(1, LimbBits)
         /\ Decomposition(f, x)[k] \in Nat /\ Decomposition(f, x)[k] < ShiftLeft(1, LimbBits)
<1>1. PICK N, L, a, pow : /\ N = NumLimbs(f) /\ L = LimbBits /\ a = LimbBits * (NumLimbs(f) - k)
                        /\ pow = ShiftLeft(1, LimbBits)
  OBVIOUS
<1>2. N \in Nat \ {0} /\ L \in Nat \ {0}
  BY <1>1, LimbsHold, WordsHold
<1>3. a \in Nat
  <2>1. PICK r \in Nat : r = N - k
    <3>1. N - k \in Nat
      BY <1>1, <1>2
    <3> QED BY <3>1
  <2>2. L * r \in Nat
    BY <1>2
  <2> QED BY <1>1, <2>1, <2>2
<1>4. Decomposition(f, x)[k] = ShiftRight(x, a) % pow
  BY Zenon, <1>1 DEF Decomposition
<1>5. ShiftRight(x, a) % pow \in 0 .. (pow - 1) /\ pow \in Nat \ {0}
  <2>1. PICK z : z = ShiftRight(x, a)
    OBVIOUS
  <2>2. z \in Nat
    BY <1>3, <2>1, ShiftRightIs
  <2>3. L \in Nat
    BY <1>2
  <2>4. pow = ShiftLeft(1, L)
    BY <1>1
  <2>5. z % ShiftLeft(1, L) \in 0 .. (ShiftLeft(1, L) - 1)
    BY <2>2, <2>3, RestIsLowBits
  <2>6. pow \in Nat \ {0}
    BY <2>3, <2>4, PowerIs
  <2> QED BY Zenon, <2>1, <2>4, <2>5, <2>6
<1>6. ShiftRight(x, a) % pow \in Nat /\ ShiftRight(x, a) % pow < pow
  BY <1>5
<1> QED BY Zenon, <1>1, <1>3, <1>4, <1>6

(* Squeezed bits are made the limbs of their value.                        *)
LEMMA EmulatedIs ==
  ASSUME NEW f \in Moduli, NEW bits \in Seq(Bits), Len(bits) <= BitSize(f)
  PROVE  BitsLEToEmulated(f, bits) = Decomposition(f, FromBitsLE(bits))
<1>1. PICK n, x : n = Len(bits) /\ x = FromBitsLE(bits)
  OBVIOUS
<1>2. /\ n \in Nat /\ x \in Nat /\ x < ShiftLeft(1, n) /\ f \in Nat \ {0}
      /\ NumLimbs(f) \in Nat /\ LimbBits \in Nat /\ BitSize(f) \in Nat
  <2>1. FromBitsLE(bits) \in Nat /\ FromBitsLE(bits) < ShiftLeft(1, Len(bits)) /\ Len(bits) \in Nat
    BY BitsBelow
  <2>2. f \in Nat \ {0} /\ LimbBits \in Nat
    BY WordsHold
  <2>3. NumLimbs(f) \in Nat \ {0} /\ BitSize(f) \in Nat \ {0}
    BY <2>2, LimbsHold
  <2>4. NumLimbs(f) \in Nat /\ BitSize(f) \in Nat
    BY <2>3
  <2> QED BY Zenon, <1>1, <2>1, <2>2, <2>4
<1>3. ASSUME NEW j \in 1 .. n PROVE bits[j] = ShiftRight(x, j - 1) % 2 /\ bits[j] \in {0, 1}
  <2>1. BitsLE(x, n) = Resized(bits, n)
    BY <1>1, <1>2, BitsOfValue
  <2>2. BitsLE(x, n)[j] = ShiftRight(x, j - 1) % 2
    BY <1>2, BitsLEIs
  <2>3. Resized(bits, n)[j] = bits[j]
    BY <1>1 DEF Resized
  <2>4. bits[j] \in {0, 1}
    BY <1>1 DEF Bits
  <2> QED BY Zenon, <2>1, <2>2, <2>3, <2>4
<1>4. ASSUME NEW j \in 1 .. n
      PROVE  Looked(f, j) = Decomposition(f, ShiftLeft(1, j - 1)) /\ ShiftLeft(1, j - 1) \in Nat
  <2>1. j \in 1 .. BitSize(f) /\ j - 1 \in Nat
    BY <1>1, <1>2
  <2>2. ShiftLeft(1, j - 1) % f = ShiftLeft(1, j - 1)
    BY <2>1, PowerBelow
  <2>3. ShiftLeft(1, j - 1) \in Nat
    BY <2>1, PowerIs
  <2> QED BY Zenon, <2>2, <2>3 DEF Looked
<1>5. PICK v : EmulatedValues(v, f, bits) /\ v[n] = BitsLEToEmulated(f, bits)
  <2>1. ASSUME NEW j \in 1 .. n PROVE bits[j] \in Int /\ \A k \in 1 .. NumLimbs(f) : Looked(f, j)[k] \in Int
    <3>1. bits[j] \in Int
      BY <1>3
    <3>2. ASSUME NEW k \in 1 .. NumLimbs(f) PROVE Looked(f, j)[k] \in Int
      <4>1. PICK p \in Nat : p = ShiftLeft(1, j - 1)
        BY <1>4
      <4>2. Decomposition(f, p)[k] \in Nat
        BY <1>2, DecompositionIs
      <4>3. Looked(f, j) = Decomposition(f, p)
        BY Zenon, <1>4, <4>1
      <4>4. Looked(f, j)[k] \in Nat
        BY Zenon, <4>2, <4>3
      <4> QED BY <4>4
    <3> QED BY <3>1, <3>2
  <2>2. Len(bits) \in Nat
    BY <1>1, <1>2
  <2>3. \E v : EmulatedValues(v, f, bits) /\ v[Len(bits)] = BitsLEToEmulated(f, bits)
    BY Zenon, <1>1, <2>1, <2>2, EmulateLoop
  <2> QED BY Zenon, <1>1, <2>3
<1>6. /\ v[0] = [k \in 1 .. NumLimbs(f) |-> 0]
      /\ \A j \in 1 .. n : v[j] = [k \in 1 .. NumLimbs(f) |-> v[j - 1][k] + bits[j] * Looked(f, j)[k]]
  BY Zenon, <1>1, <1>5 DEF EmulatedValues
<1> DEFINE low(j) == x % ShiftLeft(1, j)
           T == {j \in Nat : j <= n => v[j] = Decomposition(f, low(j))}
<1>7. 0 \in T
  <2>1. low(0) = 0
    <3>1. 1 \in Nat
      OBVIOUS
    <3>2. ShiftLeft(1, 0) = 1
      BY <3>1, ShiftLeftIs
    <3>3. x % 1 = 0
      BY <1>2
    <3> QED BY Zenon, <3>2, <3>3
  <2> HIDE DEF low
  <2>2. ASSUME NEW k \in 1 .. NumLimbs(f)
        PROVE  ShiftRight(0, LimbBits * (NumLimbs(f) - k)) % ShiftLeft(1, LimbBits) = 0
    <3>1. PICK a : a = LimbBits * (NumLimbs(f) - k)
      OBVIOUS
    <3>2. a \in Nat
      <4>1. 0 \in Nat
        OBVIOUS
      <4> QED BY <1>2, <3>1, <4>1, DecompositionIs
    <3>3. ShiftRight(0, a) = 0
      <4>1. 0 \in Nat /\ 0 < ShiftLeft(1, a)
        BY <3>2, PowerIs
      <4> QED BY <3>2, <4>1, BelowShiftedAway
    <3>4. PICK pow \in Nat \ {0} : pow = ShiftLeft(1, LimbBits)
      BY <1>2, PowerIs
    <3>5. 0 % pow = 0
      OBVIOUS
    <3> QED BY Zenon, <3>1, <3>3, <3>4, <3>5
  <2>3. Decomposition(f, 0) = [k \in 1 .. NumLimbs(f) |-> 0]
    BY Zenon, <2>2 DEF Decomposition
  <2>4. v[0] = Decomposition(f, low(0))
    BY Zenon, <1>6, <2>1, <2>3
  <2> QED BY <2>4
<1>8. ASSUME NEW j \in Nat, j \in T PROVE j + 1 \in T
  <2> SUFFICES ASSUME j + 1 <= n PROVE v[j + 1] = Decomposition(f, low(j + 1))
    OBVIOUS
  <2>1. PICK i : i = j + 1
    OBVIOUS
  <2>2. i \in 1 .. n /\ i - 1 = j /\ j <= n
    BY <1>2, <2>1
  <2>3. v[j] = Decomposition(f, low(j))
    BY <1>8, <2>2
  <2>4. PICK y, q, b : y = x % ShiftLeft(1, j) /\ q = ShiftLeft(1, j) /\ b = bits[i]
    OBVIOUS
  <2>5. low(j) = y
    BY <2>4
  <2>6. y \in Nat /\ y < q /\ b \in {0, 1} /\ q \in Nat /\ low(j + 1) = y + b * q
    <3>1. /\ x % ShiftLeft(1, j) \in Nat /\ x % ShiftLeft(1, j) < ShiftLeft(1, j)
          /\ x % ShiftLeft(1, j + 1) = (x % ShiftLeft(1, j)) + (ShiftRight(x, j) % 2) * ShiftLeft(1, j)
      BY <1>2, LowBitsGrow
    <3>2. b = ShiftRight(x, j) % 2 /\ b \in {0, 1}
      BY Zenon, <1>3, <2>2, <2>4
    <3>3. low(j + 1) = y + b * q
      BY Zenon, <2>4, <3>1, <3>2
    <3>4. q \in Nat
      BY <2>4, PowerIs
    <3> HIDE DEF low
    <3> QED BY Zenon, <2>4, <3>1, <3>2, <3>3, <3>4
  <2> HIDE DEF low, T
  <2>7. Looked(f, i) = Decomposition(f, q)
    BY Zenon, <1>4, <2>2, <2>4
  <2>8. v[i] = [k \in 1 .. NumLimbs(f) |-> Decomposition(f, y)[k] + b * Decomposition(f, q)[k]]
    <3>1. v[i] = [k \in 1 .. NumLimbs(f) |-> v[i - 1][k] + bits[i] * Looked(f, i)[k]]
      BY Zenon, <1>6, <2>2
    <3>2. v[i - 1] = Decomposition(f, y)
      BY Zenon, <2>2, <2>3, <2>5
    <3> QED BY Zenon, <2>4, <2>7, <3>1, <3>2
  <2>9. ASSUME NEW k \in 1 .. NumLimbs(f)
        PROVE  Decomposition(f, y)[k] + b * Decomposition(f, q)[k]
                 = ShiftRight(y + b * q, LimbBits * (NumLimbs(f) - k)) % ShiftLeft(1, LimbBits)
    <3>1. PICK a, pow, c, d : /\ a = LimbBits * (NumLimbs(f) - k) /\ pow = ShiftLeft(1, LimbBits)
                            /\ c = Decomposition(f, y)[k] /\ d = Decomposition(f, q)[k]
      OBVIOUS
    <3>2. a \in Nat /\ c = ShiftRight(y, a) % pow /\ c \in Nat
      <4>1. /\ LimbBits * (NumLimbs(f) - k) \in Nat
            /\ Decomposition(f, y)[k] = ShiftRight(y, LimbBits * (NumLimbs(f) - k)) % ShiftLeft(1, LimbBits)
            /\ Decomposition(f, y)[k] \in Nat
        BY <1>2, <2>6, DecompositionIs
      <4> QED BY Zenon, <3>1, <4>1
    <3>3. d = ShiftRight(q, a) % pow /\ d \in Nat
      <4>1. /\ Decomposition(f, q)[k] = ShiftRight(q, LimbBits * (NumLimbs(f) - k)) % ShiftLeft(1, LimbBits)
            /\ Decomposition(f, q)[k] \in Nat
        BY <1>2, <2>6, DecompositionIs
      <4> QED BY Zenon, <3>1, <4>1
    <3>4. c + b * d = ShiftRight(y + b * q, a) % pow
      <4>1. CASE b = 0
        <5>1. c + 0 * d = c /\ y + 0 * q = y
          BY <2>6, <3>2, <3>3
        <5> QED BY Zenon, <3>2, <4>1, <5>1
      <4>2. CASE b = 1
        <5>1. c + 1 * d = c + d /\ y + 1 * q = y + q
          BY <2>6, <3>2, <3>3
        <5>2. y < ShiftLeft(1, j)
          BY Zenon, <2>4, <2>6
        <5>3. ShiftRight(y + ShiftLeft(1, j), a) % ShiftLeft(1, LimbBits)
                = (ShiftRight(y, a) % ShiftLeft(1, LimbBits)) + (ShiftRight(ShiftLeft(1, j), a) % ShiftLeft(1, LimbBits))
          BY <1>2, <2>6, <3>2, <5>2, LimbGrows
        <5> QED BY Zenon, <2>4, <3>1, <3>2, <3>3, <4>2, <5>1, <5>3
      <4> QED BY <2>6, <4>1, <4>2
    <3> QED BY Zenon, <3>1, <3>4
  <2>10. Decomposition(f, y + b * q)
           = [k \in 1 .. NumLimbs(f) |-> Decomposition(f, y)[k] + b * Decomposition(f, q)[k]]
    BY Zenon, <2>9 DEF Decomposition
  <2> QED BY Zenon, <2>1, <2>6, <2>8, <2>10
<1>9. n \in T
  <2> HIDE DEF T
  <2> QED BY <1>2, <1>7, <1>8, InductionOnSet
<1>10. v[n] = Decomposition(f, low(n))
  <2> HIDE DEF low
  <2> QED BY <1>2, <1>9
<1>11. low(n) = x
  <2>1. PICK q : q = ShiftLeft(1, n)
    OBVIOUS
  <2>2. q \in Nat \ {0} /\ x < q
    BY <1>2, <2>1, PowerIs
  <2>3. x \in 0 .. (q - 1)
    BY <1>2, <2>2
  <2>4. x % q = x
    BY <2>2, <2>3, SmallRest
  <2> QED BY Zenon, <2>1, <2>4
<1> HIDE DEF low
<1> QED BY Zenon, <1>1, <1>5, <1>10, <1>11

-----------------------------------------------------------------------------
(* What each piece of code packs is what repack_input packs.               *)
LEMMA ElementLimbs ==
  ASSUME NEW f \in Nat \ {0}, NEW x \in 0 .. (f - 1)
  PROVE  /\ Limbs(f, BitsLE(x, BitSize(f))) = Decomposition(f, x)
         /\ LimbsValue(Decomposition(f, x)) = x
<1>1. BitSize(f) \in Nat /\ f < ShiftLeft(1, BitSize(f)) /\ x \in Nat
  BY BitSizeBounds
<1>2. /\ BitsLE(x, BitSize(f)) \in Seq(Bits) /\ Len(BitsLE(x, BitSize(f))) = BitSize(f)
      /\ FromBitsLE(BitsLE(x, BitSize(f))) = x
  BY ElementIsItsBits
<1>3. Len(BitsLE(x, BitSize(f))) <= BitSize(f)
  BY <1>1, <1>2
<1>4. Limbs(f, BitsLE(x, BitSize(f))) = Decomposition(f, FromBitsLE(BitsLE(x, BitSize(f))))
  BY Zenon, <1>2, <1>3, LimbsAre
<1>5. x < ShiftLeft(1, BitSize(f))
  <2>1. ShiftLeft(1, BitSize(f)) \in Nat
    BY <1>1, PowerIs
  <2> QED BY <1>1, <2>1
<1>6. ShiftRight(x, BitSize(f)) = 0
  BY <1>1, <1>5, BelowShiftedAway
<1>7. LimbsValue(Decomposition(f, x)) = x
  BY <1>1, <1>6, LimbsValueIs
<1> QED BY Zenon, <1>2, <1>4, <1>7

LEMMA VerifierAgrees ==
  ASSUME NEW f \in Moduli, NEW g \in Moduli, NEW elems \in Seq(0 .. (f - 1)),
         NEW b, b = BooleanFromFieldElements(f, g, elems),
         NEW e, e = EmulatedFromFieldElements(f, g, elems)
  PROVE  /\ [i \in DOMAIN b |-> FromBitsLE(b[i])] = RepackInput(f, g, elems)
         /\ [i \in DOMAIN e |-> LimbsValue(e[i])] = RepackInput(f, g, elems)
<1>1. PICK cs, c, n : Cuts(f, g, elems, cs, c, n)
  BY CutsAre
<1>2. RepackInput(f, g, elems) = [i \in 1 .. Len(cs) |-> FromBitsBE(cs[i])]
  BY <1>1, RepackedIs
<1>3. b = [i \in 1 .. Len(cs) |-> Reverse(cs[i])] /\ n = BitSize(g)
  <2>1. cs = InChunks(BitsBE(f, elems), RepackCapacity(f, g)) /\ DOMAIN cs = 1 .. Len(cs) /\ n = BitSize(g)
    BY <1>1 DEF Cuts
  <2>2. BooleanFromFieldElements(f, g, elems) = [i \in DOMAIN cs |-> Reverse(cs[i])]
    BY Zenon, <2>1, CapacitiesAgree DEF BooleanFromFieldElements
  <2> QED BY Zenon, <2>1, <2>2
<1>4. e = [i \in 1 .. Len(cs) |-> Limbs(g, Reverse(cs[i]))]
  <2>1. EmulatedFromFieldElements(f, g, elems) = [i \in DOMAIN b |-> Limbs(g, b[i])]
    BY Zenon DEF EmulatedFromFieldElements
  <2> QED BY Zenon, <1>3, <2>1
<1>5. ASSUME NEW i \in 1 .. Len(cs)
      PROVE  /\ FromBitsLE(Reverse(cs[i])) = FromBitsBE(cs[i])
             /\ LimbsValue(Limbs(g, Reverse(cs[i]))) = FromBitsBE(cs[i])
  <2>1. CutAt(cs[i], g, c, n)
    BY Zenon, <1>1, ChunkFits
  <2>2. PICK r, x : r = Reverse(cs[i]) /\ x = FromBitsBE(cs[i])
    OBVIOUS
  <2>3. x = FromBitsLE(r)
    BY Zenon, <2>2 DEF FromBitsBE
  <2>4. r \in Seq(Bits) /\ Len(r) <= BitSize(g) /\ x \in 0 .. (g - 1)
    <3>1. /\ Len(cs[i]) <= n /\ Reverse(cs[i]) \in Seq(Bits) /\ Len(Reverse(cs[i])) = Len(cs[i])
          /\ FromBitsBE(cs[i]) \in 0 .. (g - 1)
      BY Zenon, <2>1 DEF CutAt
    <3> QED BY Zenon, <1>3, <2>2, <3>1
  <2>5. g \in Nat \ {0}
    BY WordsHold
  <2>6. Limbs(g, r) = Decomposition(g, FromBitsLE(r))
    BY Zenon, <2>4, <2>5, LimbsAre
  <2>7. LimbsValue(Decomposition(g, x)) = x
    BY Zenon, <2>4, <2>5, ElementLimbs
  <2> QED BY Zenon, <2>2, <2>3, <2>6, <2>7
<1>6. [i \in DOMAIN b |-> FromBitsLE(b[i])] = [i \in 1 .. Len(cs) |-> FromBitsBE(cs[i])]
  <2>1. DOMAIN b = 1 .. Len(cs) /\ \A i \in 1 .. Len(cs) : b[i] = Reverse(cs[i])
    BY Zenon, <1>3
  <2> QED BY Zenon, <1>5, <2>1
<1>7. [i \in DOMAIN e |-> LimbsValue(e[i])] = [i \in 1 .. Len(cs) |-> FromBitsBE(cs[i])]
  <2>1. DOMAIN e = 1 .. Len(cs) /\ \A i \in 1 .. Len(cs) : e[i] = Limbs(g, Reverse(cs[i]))
    BY Zenon, <1>4
  <2> QED BY Zenon, <1>5, <2>1
<1> QED BY Zenon, <1>2, <1>6, <1>7

LEMMA EnforcedIsWitness ==
  ASSUME NEW f \in Moduli, NEW g \in Moduli, NEW elems \in Seq(0 .. (f - 1)),
         NEW e, e = EmulatedNewInput(f, g, elems)
  PROVE  e.enforced = e.witness
<1>1. PICK b : b = BooleanNewInput(f, g, elems).val
  OBVIOUS
<1>2. b = [i \in DOMAIN elems |-> BitsLE(elems[i], BitSize(f))]
  <2>1. BooleanNewInput(f, g, elems).val = BooleanNewVariable(f, elems)
    BY Zenon, BooleansReadBack
  <2> QED BY Zenon, <1>1, <2>1 DEF BooleanNewVariable
<1>3. /\ e.witness = [i \in DOMAIN elems |-> Decomposition(f, elems[i])]
      /\ e.enforced = [i \in DOMAIN b |-> Limbs(f, b[i])]
  BY <1>1 DEF EmulatedNewInput
<1>4. DOMAIN b = DOMAIN elems /\ \A i \in DOMAIN elems : b[i] = BitsLE(elems[i], BitSize(f))
  BY Zenon, <1>2
<1>5. \A i \in DOMAIN elems : Limbs(f, BitsLE(elems[i], BitSize(f))) = Decomposition(f, elems[i])
  <2> SUFFICES ASSUME NEW i \in DOMAIN elems
               PROVE  Limbs(f, BitsLE(elems[i], BitSize(f))) = Decomposition(f, elems[i])
    OBVIOUS
  <2>1. f \in Nat \ {0} /\ elems[i] \in 0 .. (f - 1)
    BY WordsHold
  <2> QED BY Zenon, <2>1, ElementLimbs
<1> QED BY Zenon, <1>3, <1>4, <1>5

LEMMA SqueezedIsNormal ==
  ASSUME NEW f \in Moduli, NEW bits \in Seq(Bits), Len(bits) <= BitSize(f),
         NEW l, l = BitsLEToEmulated(f, bits)
  PROVE  /\ \A k \in DOMAIN l : l[k] < ShiftLeft(1, LimbBits)
         /\ LimbsValue(l) = FromBitsLE(bits)
<1>1. PICK x : x = FromBitsLE(bits)
  OBVIOUS
<1>2. l = Decomposition(f, x) /\ f \in Nat \ {0} /\ BitSize(f) \in Nat
  <2>1. f \in Nat \ {0}
    BY WordsHold
  <2>2. BitSize(f) \in Nat
    BY <2>1, BitSizeBounds
  <2>3. BitsLEToEmulated(f, bits) = Decomposition(f, FromBitsLE(bits))
    BY Zenon, EmulatedIs
  <2> QED BY Zenon, <1>1, <2>1, <2>2, <2>3
<1>3. x \in Nat /\ ShiftRight(x, BitSize(f)) = 0
  <2>1. FromBitsLE(bits) \in Nat /\ FromBitsLE(bits) < ShiftLeft(1, Len(bits)) /\ Len(bits) \in Nat
    BY BitsBelow
  <2>2. x \in Nat /\ x < ShiftLeft(1, Len(bits))
    BY Zenon, <1>1, <2>1
  <2> QED BY <1>2, <2>1, <2>2, ShiftedAway
<1>4. LimbsValue(Decomposition(f, x)) = x
  BY Zenon, <1>2, <1>3, LimbsValueIs
<1>5. DOMAIN l = 1 .. NumLimbs(f)
  BY Zenon, <1>2 DEF Decomposition
<1>6. ASSUME NEW k \in 1 .. NumLimbs(f) PROVE l[k] < ShiftLeft(1, LimbBits)
  <2>1. Decomposition(f, x)[k] < ShiftLeft(1, LimbBits)
    BY <1>2, <1>3, DecompositionIs
  <2> QED BY Zenon, <1>2, <2>1
<1> QED BY Zenon, <1>1, <1>2, <1>4, <1>5, <1>6

-----------------------------------------------------------------------------
(* The inductive invariant: what is packed is what the code made of the    *)
(* elements, which are elements of From.                                   *)
PackInv ==
  /\ from \in Moduli /\ into \in Moduli /\ src \in Seq(0 .. (from - 1))
  /\ repacked \in {Unset, [done |-> TRUE, elems |-> RepackInput(from, into, src)]}
  /\ proved \in {Unset, [done |-> TRUE, booleans |-> BooleanNewInput(from, into, src),
                         emulated |-> EmulatedNewInput(from, into, src)]}
  /\ verified \in {Unset, [done |-> TRUE,
                           booleans  |-> BooleanFromFieldElements(from, into, src),
                           emulated  |-> EmulatedFromFieldElements(from, into, src),
                           constants |-> EmulatedFromConstants(from, into, src)]}
  /\ squeezed = Unset \/ \E bits \in Seq(Bits) :
       /\ Len(bits) <= BitSize(into)
       /\ squeezed = [done |-> TRUE, bits |-> bits, limbs |-> BitsLEToEmulated(into, bits)]

LEMMA PackStarts == PackInit => PackInv
<1> SUFFICES ASSUME PackInit PROVE PackInv
  OBVIOUS
<1>1. from \in Moduli /\ into \in Moduli
  BY DEF PackInit
<1>2. PICK n \in 0 .. MaxInputs : src \in [1 .. n -> Samples[from]]
  BY DEF PackInit
<1>3. Samples[from] \subseteq 0 .. (from - 1)
  BY <1>1, PackingAssumption
<1>4. src \in [1 .. n -> 0 .. (from - 1)]
  BY <1>2, <1>3
<1>5. n \in Nat
  BY PackingAssumption
<1>6. src \in Seq(0 .. (from - 1))
  <2>1. PICK S : S = 0 .. (from - 1)
    OBVIOUS
  <2>2. src \in [1 .. n -> S]
    BY Zenon, <1>4, <2>1
  <2>3. src \in Seq(S)
    BY <1>5, <2>2
  <2> QED BY Zenon, <2>1, <2>3
<1> QED BY <1>1, <1>6 DEF PackInit, PackInv

LEMMA PackKeeps == PackInv /\ [PackNext]_packVars => PackInv'
<1> SUFFICES ASSUME PackInv, [PackNext]_packVars PROVE PackInv'
  OBVIOUS
<1>1. CASE Repack
  BY <1>1 DEF Repack, PackInv
<1>2. CASE AllocateInputs
  BY <1>2 DEF AllocateInputs, PackInv
<1>3. CASE VerifyInCircuit
  BY <1>3 DEF VerifyInCircuit, PackInv
<1>4. ASSUME NEW n \in 0 .. BitSize(into), NEW bits \in [1 .. n -> {0, 1}], Emulate(bits)
      PROVE  PackInv'
  <2>1. into \in Nat \ {0}
    BY WordsHold DEF PackInv
  <2>2. BitSize(into) \in Nat
    BY <2>1, BitSizeBounds
  <2>3. n \in Nat /\ n <= BitSize(into)
    BY <2>2
  <2>4. bits \in Seq(Bits) /\ Len(bits) = n
    BY <2>3 DEF Bits
  <2>5. UNCHANGED <<from, into, src, repacked, proved, verified>>
    BY <1>4 DEF Emulate
  <2>6. squeezed' = [done |-> TRUE, bits |-> bits, limbs |-> BitsLEToEmulated(into, bits)]
    BY <1>4 DEF Emulate
  <2>7. Len(bits) <= BitSize(into)
    BY <2>3, <2>4
  <2> QED BY <2>4, <2>5, <2>6, <2>7 DEF PackInv
<1>5. CASE UNCHANGED packVars
  BY <1>5 DEF packVars, PackInv
<1> QED BY <1>1, <1>2, <1>3, <1>4, <1>5 DEF PackNext

LEMMA PackInvAgrees == PackInv => PackingsAgree
<1> SUFFICES ASSUME PackInv PROVE PackingsAgree
  OBVIOUS
<1>1. PICK f, g, s, r : f = from /\ g = into /\ s = src /\ r = RepackInput(from, into, src)
  OBVIOUS
<1>2. f \in Moduli /\ g \in Moduli /\ s \in Seq(0 .. (f - 1)) /\ r = RepackInput(f, g, s)
  BY <1>1 DEF PackInv
<1>3. repacked.done => repacked.elems = r
  BY <1>1 DEF PackInv, Unset
<1>4. proved.done => /\ proved.booleans = BooleanNewInput(f, g, s)
                     /\ proved.emulated = EmulatedNewInput(f, g, s)
  BY <1>1 DEF PackInv, Unset
<1>5. verified.done => /\ verified.booleans = BooleanFromFieldElements(f, g, s)
                       /\ verified.emulated = EmulatedFromFieldElements(f, g, s)
  BY <1>1 DEF PackInv, Unset
<1>6. InputsAgree
  <2>1. BooleanNewInput(f, g, s).inputs = r
    BY Zenon, <1>2, BooleansReadBack
  <2>2. verified.done =>
          /\ [i \in DOMAIN verified.booleans |-> FromBitsLE(verified.booleans[i])] = r
          /\ [i \in DOMAIN verified.emulated |-> LimbsValue(verified.emulated[i])] = r
    <3>1. PICK b, e : b = BooleanFromFieldElements(f, g, s) /\ e = EmulatedFromFieldElements(f, g, s)
      OBVIOUS
    <3>2. /\ [i \in DOMAIN b |-> FromBitsLE(b[i])] = RepackInput(f, g, s)
          /\ [i \in DOMAIN e |-> LimbsValue(e[i])] = RepackInput(f, g, s)
      BY <1>2, <3>1, VerifierAgrees
    <3> QED BY Zenon, <1>2, <1>5, <3>1, <3>2
  <2> QED BY Zenon, <1>3, <1>4, <2>1, <2>2 DEF InputsAgree
<1>7. InputsFit
  <2>1. ASSUME NEW i \in DOMAIN r PROVE r[i] < into
    <3>1. PICK cs, c, n : Cuts(f, g, s, cs, c, n)
      BY Zenon, <1>2, CutsAre
    <3>2. i \in 1 .. Len(cs)
      BY Zenon, <1>2, <3>1, RepackedIs
    <3>3. r[i] \in 0 .. (g - 1)
      BY Zenon, <1>2, <3>1, <3>2, RepackedIs
    <3>4. g \in Nat
      BY <1>2, WordsHold
    <3>5. r[i] < g
      BY <3>3, <3>4
    <3> QED BY Zenon, <1>1, <3>5
  <2> QED BY Zenon, <1>3, <2>1 DEF InputsFit
<1>8. InputsReadBack
  <2>1. BooleanNewInput(f, g, s).val = BooleanNewVariable(f, s)
    BY Zenon, <1>2, BooleansReadBack
  <2>2. EmulatedNewInput(f, g, s).enforced = EmulatedNewInput(f, g, s).witness
    BY Zenon, <1>2, EnforcedIsWitness
  <2> QED BY Zenon, <1>1, <1>4, <2>1, <2>2 DEF InputsReadBack
<1>9. SqueezedBitsNormal
  <2>1. CASE squeezed = Unset
    BY <2>1 DEF SqueezedBitsNormal, Unset
  <2>2. ASSUME NEW bits \in Seq(Bits), Len(bits) <= BitSize(into),
               squeezed = [done |-> TRUE, bits |-> bits, limbs |-> BitsLEToEmulated(into, bits)]
        PROVE  SqueezedBitsNormal
    <3>1. squeezed.bits = bits /\ squeezed.limbs = BitsLEToEmulated(into, bits)
      BY <2>2
    <3>2. PICK l : l = BitsLEToEmulated(into, bits)
      OBVIOUS
    <3>3. into \in Moduli
      BY <1>1, <1>2
    <3>4. (\A k \in DOMAIN l : l[k] < ShiftLeft(1, LimbBits)) /\ LimbsValue(l) = FromBitsLE(bits)
      BY Zenon, <2>2, <3>2, <3>3, SqueezedIsNormal
    <3> QED BY Zenon, <3>1, <3>2, <3>4 DEF SqueezedBitsNormal
  <2> QED BY <2>1, <2>2 DEF PackInv
<1> QED BY <1>6, <1>7, <1>8, <1>9 DEF PackingsAgree

(* Elements carried from any field to any other, whatever the words and    *)
(* the limbs of the library: the verifier's repack_input, the circuit that *)
(* is proved and the circuit that verifies it speak of the same public     *)
(* inputs, each of which the field holds; the circuit reads back what was  *)
(* packed; squeezed bits are limbs in normal form.                         *)
THEOREM PackingsAlwaysAgree == PackSpec => []PackingsAgree
<1>1. PackSpec => []PackInv
  BY PackStarts, PackKeeps, PTL DEF PackSpec
<1> QED BY <1>1, PackInvAgrees, PTL
=============================================================================
