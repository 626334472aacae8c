---------------------------- MODULE Sha256Stream ----------------------------
(***************************************************************************)
(* Sha256Gadget of crh/sha256/constraints.rs: the buffering of update and  *)
(* the padding of finalize.  The compression function is not computed:     *)
(* blocks is the sequence of 64-byte blocks update_state has been given,   *)
(* of which the state words are a function.                                *)
(*                                                                         *)
(* Bytes are parameters.  The message is one endless sequence of which     *)
(* the caller hands over the next n bytes at a time, so that a byte lost,  *)
(* repeated or misplaced shows.                                            *)
(***************************************************************************)
EXTENDS Integers, Sequences

CONSTANTS
  Lengths,           \* the lengths a caller may pass to update
  MaxBytes,          \* bound: message bytes of a behaviour
  Message(_),        \* byte p of the message, from 1
  ZeroByte,          \* UInt8::constant(0)
  Marker,            \* UInt8::constant(0x80)
  LengthByte(_, _)   \* byte k of data_bitlen.to_be_bytes()

ASSUME LengthsAssumption == Lengths \subseteq Nat
ASSUME MaxBytesAssumption == MaxBytes \in Nat

VARIABLES
  blocks,                 \* what update_state was given: self.state
  completed_data_blocks,  \* self.completed_data_blocks
  pending,                \* self.pending, always 64 bytes
  num_pending,            \* self.num_pending
  pc,                     \* "idle", "chunks" (the loop of update), "done"
  rest,                   \* data[offset..] not yet consumed by that loop
  last,                   \* the update is the one finalize makes
  total                   \* history: the message bytes passed so far

vars == <<blocks, completed_data_blocks, pending, num_pending, pc, rest,
          last, total>>

From(s, first) == SubSeq(s, first, Len(s))

(* pending[at..at + s.len()].clone_from_slice(s)                           *)
Overwrite(buffer, at, s) ==
  [j \in 1 .. 64 |-> IF j \in (at + 1) .. (at + Len(s)) THEN s[j - at] ELSE buffer[j]]

(* The padding finalize appends: a one, zeros, the length of the data in   *)
(* bits, up to the end of this block or of the next.  (PaddingOffsetAt56   *)
(* is a mutant of PaddingOffset with the boundary off by one.)             *)
PaddingOffsetAt56 == IF num_pending <= 56 THEN 56 - num_pending ELSE 120 - num_pending
PaddingOffset == IF num_pending < 56 THEN 56 - num_pending ELSE 120 - num_pending
DataBitlen == completed_data_blocks * 512 + num_pending * 8
Padding ==
  [j \in 1 .. (PaddingOffset + 8) |->
     IF j > PaddingOffset THEN LengthByte(DataBitlen, j - PaddingOffset)
     ELSE IF j = 1 THEN Marker ELSE ZeroByte]

-----------------------------------------------------------------------------
(* default                                                                 *)
Init ==
  /\ blocks = <<>>
  /\ completed_data_blocks = 0
  /\ pending = [j \in 1 .. 64 |-> ZeroByte]
  /\ num_pending = 0
  /\ pc = "idle"
  /\ rest = <<>>
  /\ last = FALSE
  /\ total = 0

(* update up to its loop: a buffer the data completes is processed.        *)
EnterUpdate(data) ==
  LET offset == 64 - num_pending
      full   == Overwrite(pending, num_pending, SubSeq(data, 1, offset))
  IN  /\ pc' = "chunks"
      /\ IF num_pending > 0 /\ num_pending + Len(data) >= 64
         THEN /\ pending' = full
              /\ blocks' = Append(blocks, full)
              /\ completed_data_blocks' = completed_data_blocks + 1
              /\ num_pending' = 0
              /\ rest' = From(data, offset + 1)
         ELSE /\ rest' = data
              /\ UNCHANGED <<blocks, completed_data_blocks, pending, num_pending>>

(* The caller's update with the next n bytes of its message.               *)
Update(n) ==
  /\ pc = "idle"
  /\ total + n <= MaxBytes
  /\ EnterUpdate([j \in 1 .. n |-> Message(total + j)])
  /\ total' = total + n
  /\ UNCHANGED last

(* finalize: an update with the padding.                                   *)
Finalize ==
  /\ pc = "idle"
  /\ EnterUpdate(Padding)
  /\ last' = TRUE
  /\ UNCHANGED total

(* A turn of the loop over data[offset..].chunks(64): a full chunk.        *)
FullChunk ==
  /\ pc = "chunks"
  /\ Len(rest) >= 64
  /\ blocks' = Append(blocks, SubSeq(rest, 1, 64))
  /\ completed_data_blocks' = completed_data_blocks + 1
  /\ rest' = From(rest, 65)
  /\ UNCHANGED <<pending, num_pending, pc, last, total>>

(* Mutant of PartialChunk: written over the bytes already pending.         *)
PartialChunkOverwrites ==
  /\ pc = "chunks"
  /\ rest # <<>>
  /\ Len(rest) < 64
  /\ pending' = Overwrite(pending, 0, rest)
  /\ num_pending' = num_pending + Len(rest)
  /\ rest' = <<>>
  /\ UNCHANGED <<blocks, completed_data_blocks, pc, last, total>>

(* A chunk of fewer bytes, which can only be the last.                     *)
PartialChunk ==
  /\ pc = "chunks"
  /\ rest # <<>>
  /\ Len(rest) < 64
  /\ pending' = Overwrite(pending, num_pending, rest)
  /\ num_pending' = num_pending + Len(rest)
  /\ rest' = <<>>
  /\ UNCHANGED <<blocks, completed_data_blocks, pc, last, total>>

(* update returns; finalize consumes the gadget.                           *)
Return ==
  /\ pc = "chunks"
  /\ rest = <<>>
  /\ pc' = IF last THEN "done" ELSE "idle"
  /\ UNCHANGED <<blocks, completed_data_blocks, pending, num_pending, rest,
                 last, total>>

Next ==
  \/ \E n \in Lengths : Update(n)
  \/ Finalize
  \/ FullChunk
  \/ PartialChunk
  \/ Return

Spec == Init /\ [][Next]_vars

-----------------------------------------------------------------------------
(* The buffer is never full between calls and keeps its 64 bytes.          *)
TypeOK ==
  /\ completed_data_blocks \in Nat
  /\ DOMAIN pending = 1 .. 64
  /\ num_pending \in 0 .. 63
  /\ pc \in {"idle", "chunks", "done"}
  /\ last \in BOOLEAN
  /\ total \in Nat

(* In the loop a full chunk never overtakes bytes still in the buffer, and *)
(* a partial one fits behind them: the slice pending[num_pending..] of     *)
(* update is never too short and no byte is hashed before an earlier one.  *)
LoopKeepsOrder ==
  pc = "chunks" =>
    IF Len(rest) >= 64 THEN num_pending = 0 ELSE num_pending + Len(rest) < 64

-----------------------------------------------------------------------------
(* The padded message, as FIPS 180-4 defines it: the message, a one, the   *)
(* fewest zeros that make it whole blocks, its length in bits.             *)
PaddedLength == 64 * ((total + 9 + 63) \div 64)
PaddedByte(p) ==
  IF p <= total THEN Message(p)
  ELSE IF p = total + 1 THEN Marker
  ELSE IF p <= PaddedLength - 8 THEN ZeroByte
  ELSE LengthByte(8 * total, p - (PaddedLength - 8))

(* Between calls, however the message was cut into updates, what was       *)
(* hashed and what is pending are the message so far.                      *)
StreamKept ==
  pc = "idle" =>
    /\ 64 * Len(blocks) + num_pending = total
    /\ \A b \in 1 .. Len(blocks) : \A j \in 1 .. 64 :
         blocks[b][j] = Message(64 * (b - 1) + j)
    /\ \A j \in 1 .. num_pending : pending[j] = Message(64 * Len(blocks) + j)

(* When finalize returns, the blocks hashed are those of the padded        *)
(* message: the gadget digests what the native Sha256 digests.             *)
HashesPaddedMessage ==
  pc = "done" =>
    /\ num_pending = 0
    /\ 64 * Len(blocks) = PaddedLength
    /\ \A b \in 1 .. Len(blocks) : \A j \in 1 .. 64 :
         blocks[b][j] = PaddedByte(64 * (b - 1) + j)
=============================================================================
