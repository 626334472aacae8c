------------------------------ MODULE GrainLFSR ------------------------------
(***************************************************************************)
(* PoseidonGrainLFSR of sponge/poseidon/grain_lfsr.rs and its one client,  *)
(* find_poseidon_ark_and_mds of sponge/poseidon/traits.rs, which draws the *)
(* round constants and the matrix of a Poseidon instance from it.          *)
(*                                                                         *)
(* A step is one update of the register or one number made of its bits.    *)
(* pc is the place in the nested loops: "init" is the warm-up; "first",    *)
(* "discard" and "second" are the three calls of update in get_bits;       *)
(* "number" is where the bits of a number are complete; "matrix" is the    *)
(* end of find_poseidon_ark_and_mds.                                       *)
(***************************************************************************)
EXTENDS Naturals, FiniteSets, Sequences, SequencesExt

CONSTANTS
  Size, Taps,   \* the register: 80 bits, six of them fed back
  Warmup,       \* the updates of init: 160
  Fields,       \* the fields there are: their MODULUS_BIT_SIZE, MODULUS, and
                \* the tables PARAMS_OPT_FOR_CONSTRAINTS and _FOR_WEIGHTS, each
                \* a sequence of entries
  Rates         \* the rates somebody may ask parameters for

ASSUME SizeAssumption == Size \in Nat \ {0}
ASSUME TapsAssumption == Taps \subseteq 0 .. (Size - 1) /\ 0 \in Taps
ASSUME WarmupAssumption == Warmup \in Nat \ {0}

(* What an entry of a table is.                                            *)
IsEntry(e) ==
  {e.rate, e.full_rounds, e.partial_rounds, e.skip_matrices} \subseteq Nat

(* Elements of a field other than zero have an inverse.                    *)
ASSUME FieldsAssumption ==
  \A f \in Fields :
    /\ f.bits \in Nat \ {0} /\ f.modulus \in Nat \ {0, 1}
    /\ \A x \in 1 .. (f.modulus - 1) :
         \E y \in 0 .. (f.modulus - 1) : (x * y) % f.modulus = 1
    /\ \A table \in f.tables : \A i \in DOMAIN table : IsEntry(table[i])

VARIABLES
  state,    \* self.state, used as a ring
  head,     \* self.head
  pc,
  left,     \* the updates of init that are left
  bits,     \* the bits get_bits has so far
  res,      \* the elements of the running get_field_elements_* call
  answers,  \* the results of the calls that have returned
  field,    \* the field parameters are asked for
  entry,    \* the entry of its table the parameters are made from
  mds,      \* the matrix
  stream    \* history: every bit since the warm-up

vars == <<state, head, pc, left, bits, res, answers, field, entry, mds, stream>>

Positions == 0 .. (Size - 1)
PrimeBits == field.bits
Modulus == field.modulus

-----------------------------------------------------------------------------
(* new: the bits that describe the instance, each number with its most     *)
(* significant bit first, and ones behind them.                            *)
BitOf(v, last, i) == (v \div 2^(last - i)) % 2 = 1

Seed(inverse, stateLen, full, partial) ==
  [i \in Positions |->
     \/ i = 1
     \/ i = 5 /\ inverse
     \/ i \in 6 .. 17 /\ BitOf(PrimeBits, 17, i)
     \/ i \in 18 .. 29 /\ BitOf(stateLen, 29, i)
     \/ i \in 30 .. 39 /\ BitOf(full, 39, i)
     \/ i \in 40 .. 49 /\ BitOf(partial, 49, i)
     \/ i >= 50]

(* The bit update would enter: the exclusive or of the tapped bits, whose  *)
(* positions are counted from head.                                        *)
NewBit == Cardinality({t \in Taps : state[(head + t) % Size]}) % 2 = 1

(* Mutant of Update: the ring closes one position early.                   *)
UpdateShortRing ==
  /\ state' = [state EXCEPT ![head] = NewBit]
  /\ head' = (head + 1) % (Size - 1)

(* update: the new bit takes the place of the oldest one.                  *)
Update ==
  /\ state' = [state EXCEPT ![head] = NewBit]
  /\ head' = (head + 1) % Size

-----------------------------------------------------------------------------
(* The numbers made of the bits: from_bigint after reverse, and the bytes  *)
(* of get_field_elements_mod_p, which are read from the other end.         *)
BigInt(bs) ==
  LET n[k \in 0 .. Len(bs)] ==
        IF k = 0 THEN 0 ELSE 2 * n[k - 1] + (IF bs[k] THEN 1 ELSE 0)
  IN n[Len(bs)]

Bytes(bs) ==
  LET lsbFirst == Reverse(bs)
      Upto(k) == IF 8 * k < Len(bs) THEN 8 * k ELSE Len(bs)
  IN [k \in 1 .. (Len(bs) + 7) \div 8 |->
        BigInt(Reverse(SubSeq(lsbFirst, 8 * k - 7, Upto(k))))]

FromLeBytes(bytes) ==
  LET n[k \in 0 .. Len(bytes)] ==
        IF k = 0 THEN 0 ELSE 256 * n[k - 1] + Reverse(bytes)[k]
  IN n[Len(bytes)] % Modulus

(* The calls find_poseidon_ark_and_mds makes, in their order: one row of   *)
(* constants for each round, the matrices to skip, xs and ys.              *)
Calls(e) ==
  LET width == e.rate + 1
      rounds == e.full_rounds + e.partial_rounds
  IN [k \in 1 .. (rounds + e.skip_matrices + 2) |->
        IF k <= rounds THEN [sampling |-> TRUE, count |-> width]
        ELSE IF k <= rounds + e.skip_matrices
             THEN [sampling |-> FALSE, count |-> 2 * width]
             ELSE [sampling |-> FALSE, count |-> width]]

Call == Calls(entry)[Len(answers) + 1]

-----------------------------------------------------------------------------
(* get_default_poseidon_parameters_internal takes the first entry of the   *)
(* rate it was asked for, and new seeds the register for it.               *)
FirstOfRate(table, rate, i) ==
  table[i].rate = rate /\ \A j \in 1 .. (i - 1) : table[j].rate # rate

Init ==
  /\ field \in Fields
  /\ \E table \in field.tables, rate \in Rates :
       \E i \in DOMAIN table : FirstOfRate(table, rate, i) /\ entry = table[i]
  /\ state = Seed(FALSE, entry.rate + 1, entry.full_rounds, entry.partial_rounds)
  /\ head = 0
  /\ pc = "init"
  /\ left = Warmup
  /\ bits = <<>>
  /\ res = <<>>
  /\ answers = <<>>
  /\ mds = <<>>
  /\ stream = <<>>

(* A turn of init.                                                         *)
WarmUp ==
  /\ pc = "init"
  /\ Update
  /\ left' = left - 1
  /\ pc' = IF left = 1 THEN "first" ELSE "init"
  /\ UNCHANGED <<bits, res, answers, field, entry, mds, stream>>

(* Mutant of FirstBit: after a zero the next bit is a first bit again.     *)
FirstBitNoDiscard ==
  /\ pc = "first"
  /\ Update
  /\ stream' = Append(stream, NewBit)
  /\ pc' = IF NewBit THEN "second" ELSE "first"
  /\ UNCHANGED <<left, bits, res, answers, field, entry, mds>>

(* get_bits: the first bit of a pair says whether the second one counts.   *)
FirstBit ==
  /\ pc = "first"
  /\ Update
  /\ stream' = Append(stream, NewBit)
  /\ pc' = IF NewBit THEN "second" ELSE "discard"
  /\ UNCHANGED <<left, bits, res, answers, field, entry, mds>>

DiscardBit ==
  /\ pc = "discard"
  /\ Update
  /\ stream' = Append(stream, NewBit)
  /\ pc' = "first"
  /\ UNCHANGED <<left, bits, res, answers, field, entry, mds>>

SecondBit ==
  /\ pc = "second"
  /\ Update
  /\ stream' = Append(stream, NewBit)
  /\ bits' = Append(bits, NewBit)
  /\ pc' = IF Len(bits) + 1 = PrimeBits THEN "number" ELSE "first"
  /\ UNCHANGED <<left, res, answers, field, entry, mds>>

(* A number was made: it may complete its call, and the call the calls.    *)
Push(v) ==
  /\ bits' = <<>>
  /\ IF Len(res) + 1 = Call.count
     THEN /\ answers' = Append(answers, Append(res, v))
          /\ res' = <<>>
          /\ pc' = IF Len(answers) + 1 = Len(Calls(entry)) THEN "matrix" ELSE "first"
     ELSE /\ res' = Append(res, v)
          /\ pc' = "first"
          /\ UNCHANGED answers
  /\ UNCHANGED <<state, head, left, field, entry, mds, stream>>

(* get_field_elements_rejection_sampling: from_bigint gives Some or None.  *)
Accept ==
  /\ pc = "number"
  /\ Call.sampling
  /\ BigInt(bits) < Modulus
  /\ Push(BigInt(bits))

(* Mutant of RejectNumber: the bits are drawn from scratch for ever.       *)
RejectNumberKeepsBits ==
  /\ pc = "number"
  /\ Call.sampling
  /\ BigInt(bits) >= Modulus
  /\ UNCHANGED vars

RejectNumber ==
  /\ pc = "number"
  /\ Call.sampling
  /\ BigInt(bits) >= Modulus
  /\ bits' = <<>>
  /\ pc' = "first"
  /\ UNCHANGED <<state, head, left, res, answers, field, entry, mds, stream>>

(* get_field_elements_mod_p.                                               *)
Reduce ==
  /\ pc = "number"
  /\ ~Call.sampling
  /\ Push(FromLeBytes(Bytes(bits)))

xs == answers[Len(answers) - 1]
ys == answers[Len(answers)]

Inverse_p(x) == CHOOSE y \in 0 .. (Modulus - 1) : (x * y) % Modulus = 1

(* Mutant of FillMatrix: both indices run over xs.                         *)
FillMatrixOfXs ==
  /\ pc = "matrix"
  /\ IF \A i \in DOMAIN xs, j \in DOMAIN xs : (xs[i] + xs[j]) % Modulus # 0
     THEN /\ mds' = [i \in DOMAIN xs |-> [j \in DOMAIN xs |-> Inverse_p(xs[i] + xs[j])]]
          /\ pc' = "done"
     ELSE pc' = "panicked" /\ UNCHANGED mds
  /\ UNCHANGED <<state, head, left, bits, res, answers, field, entry, stream>>

(* The Cauchy matrix of xs and ys; inverse().unwrap() panics on a zero.    *)
FillMatrix ==
  /\ pc = "matrix"
  /\ IF \A i \in DOMAIN xs, j \in DOMAIN ys : (xs[i] + ys[j]) % Modulus # 0
     THEN /\ mds' = [i \in DOMAIN xs |-> [j \in DOMAIN ys |-> Inverse_p(xs[i] + ys[j])]]
          /\ pc' = "done"
     ELSE pc' = "panicked" /\ UNCHANGED mds
  /\ UNCHANGED <<state, head, left, bits, res, answers, field, entry, stream>>

Next ==
  \/ WarmUp
  \/ FirstBit \/ DiscardBit \/ SecondBit
  \/ Accept \/ RejectNumber \/ Reduce
  \/ FillMatrix

(* One thread runs the whole function.                                     *)
Spec == Init /\ [][Next]_vars /\ WF_vars(Next)
-----------------------------------------------------------------------------
(* The ring with its moving head behaves like a register that shifts: read *)
(* from head on, it loses its oldest bit and takes the exclusive or of the *)
(* tapped ones, and nothing else ever happens to it.                       *)
Unrolled == [i \in Positions |-> state[(head + i) % Size]]
TapXor(r) == Cardinality({t \in Taps : r[t]}) % 2 = 1
Shifting == INSTANCE ShiftRegister WITH register <- Unrolled, Feedback <- TapXor
ImplementsShiftRegister == Shifting!ShiftSpec

(* What the stream says the numbers are: it is cut into pairs, the second  *)
(* bit of a pair counts if the first one is set, and PrimeBits such bits   *)
(* are a number, most significant bit first.                               *)
Selected ==
  FlattenSeq([k \in 1 .. (Len(stream) \div 2) |->
                IF stream[2 * k - 1] THEN <<stream[2 * k]>> ELSE <<>>])

Windows ==
  LET sel == Selected
      taken == Len(sel) \div PrimeBits
      used == IF pc = "number" THEN taken - 1 ELSE taken
  IN [k \in 1 .. used |-> BigInt(SubSeq(sel, PrimeBits * (k - 1) + 1, PrimeBits * k))]

(* Those of the first c numbers that are elements as they are.             *)
Below(w, c) ==
  FlattenSeq([k \in 1 .. c |-> IF w[k] < Modulus THEN <<w[k]>> ELSE <<>>])

Drawn == FlattenSeq(answers) \o res
NumConstants == (entry.full_rounds + entry.partial_rounds) * (entry.rate + 1)

(* The round constants are the first numbers of the stream below the       *)
(* modulus; everything drawn after the last of them is reduced instead,    *)
(* and no bit is lost or used twice between calls.                         *)
NumbersFromStream ==
  LET w == Windows
      sel == Selected
  IN /\ bits = SubSeq(sel, PrimeBits * Len(w) + 1, Len(sel))
     /\ \E c \in 0 .. Len(w) :
          /\ Drawn = Below(w, c) \o [i \in 1 .. (Len(w) - c) |-> w[c + i] % Modulus]
          /\ Len(Below(w, c)) <= NumConstants
          /\ c < Len(w) => Len(Below(w, c)) = NumConstants

(* The comment in find_poseidon_ark_and_mds lists what a qualifying matrix *)
(* needs: no duplicates in xs or ys, no sum that is zero.  It is exactly   *)
(* that: every minor of order one or two is then non-zero, and with a      *)
(* duplicate one of them is zero.  The code only notices a zero sum; the   *)
(* table's skip_matrices has to avoid the rest.                            *)
QualifiesIffDistinct ==
  pc = "done" =>
    LET width == DOMAIN xs
        NoDuplicates(v) == \A i, j \in width : v[i] = v[j] => i = j
        Minor(i, k, j, l) == (mds[i][j] * mds[k][l]) % Modulus # (mds[i][l] * mds[k][j]) % Modulus
    IN /\ \A i, j \in width : mds[i][j] % Modulus # 0
       /\ (NoDuplicates(xs) /\ NoDuplicates(ys))
            <=> \A i, k, j, l \in width : i # k /\ j # l => Minor(i, k, j, l)

(* Neither the loop of get_bits nor rejection sampling runs for ever.      *)
Returns == <>(pc \in {"done", "panicked"})
=============================================================================
