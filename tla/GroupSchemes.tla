---------------------------- MODULE GroupSchemes ----------------------------
(***************************************************************************)
(* The Schnorr signature of signature/schnorr and the ElGamal encryption   *)
(* of encryption/elgamal, each with its gadget, over a group of prime      *)
(* order.  A signature and the public key it is checked against can be     *)
(* randomized, by different parties and any number of times.               *)
(***************************************************************************)
EXTENDS GroupBytes

CONSTANTS
  Order,               \* of the group: C::ScalarField::MODULUS
  Generator,           \* parameters.generator
  Challenge(_, _),     \* the digest of a commitment and a message, as a scalar
  Messages,            \* the messages that are signed
  Randomness,          \* the byte strings keys and signatures are shifted by
  MaxRandomizations    \* bound: the shifts of a key, and of a signature

Scalars == 0 .. (Order - 1)
Group == Scalars

(* from_random_bytes of the digest gave None.                              *)
Rejected == -1

(* Scalars are a prime field; a digest is a scalar or none.                *)
ASSUME SchemesAssumption ==
  /\ Order \in Nat \ {0, 1} /\ Generator \in 1 .. (Order - 1)
  /\ \A x \in 1 .. (Order - 1) : \E y \in Scalars : (x * y) % Order = 1
  /\ \A p \in Group, m \in Messages : Challenge(p, m) \in Scalars \cup {Rejected}
  /\ Randomness \subseteq Seq(0 .. 255) /\ MaxRandomizations \in Nat

VARIABLES
  scheme,      \* "schnorr" or "elgamal": what the keys are for
  secret,      \* the secret key, or Unmade
  public,      \* the public key, shifted or not
  publicVar,   \* the same key in a circuit
  signature,   \* <<[response, challenge]>>, or <<>>
  signed,      \* history: the message signed and the commitment k G
  keyShifts,   \* history: the randomness the key was shifted by
  sigShifts,   \* history: and the signature
  ciphertext,  \* <<[message, r, native, circuit]>>, or <<>>
  decrypted    \* what decrypt gave for it, or Unmade

schemesVars == <<scheme, secret, public, publicVar, signature, signed, keyShifts,
                 sigShifts, ciphertext, decrypted>>

Unmade == -2
Mul(x, p) == (x * p) % Order

-----------------------------------------------------------------------------
SchemesInit ==
  /\ scheme \in {"schnorr", "elgamal"}
  /\ secret = Unmade /\ public = 0 /\ publicVar = 0
  /\ signature = <<>> /\ signed = <<>>
  /\ keyShifts = <<>> /\ sigShifts = <<>>
  /\ ciphertext = <<>> /\ decrypted = Unmade

KeyGen(x) ==
  /\ secret = Unmade
  /\ secret' = x
  /\ public' = Mul(x, Generator)
  /\ publicVar' = public'
  /\ UNCHANGED <<scheme, signature, signed, keyShifts, sigShifts, ciphertext, decrypted>>

(* sign leaves its loop with the first k whose digest is a scalar.         *)
Sign(k, m) ==
  LET e == Challenge(Mul(k, Generator), m) IN
  /\ scheme = "schnorr" /\ secret # Unmade
  /\ signature = <<>> /\ e # Rejected
  /\ signature' = <<[response |-> (k - e * secret) % Order, challenge |-> e]>>
  /\ signed' = <<[message |-> m, commitment |-> Mul(k, Generator)]>>
  /\ UNCHANGED <<scheme, secret, public, publicVar, keyShifts, sigShifts, ciphertext, decrypted>>

(* verify.                                                                 *)
ClaimedCommitment(pk, sig) == (Mul(sig.response, Generator) + Mul(sig.challenge, pk)) % Order
Verify(pk, m, sig) ==
  LET e == Challenge(ClaimedCommitment(pk, sig), m)
  IN e # Rejected /\ sig.challenge = e

(* randomize_public_key doubles and adds from the last bit; the gadget     *)
(* multiplies by the bits of each byte from the least significant.         *)
DoubleAndAdd(bits) ==
  LET encoded[n \in 0 .. Len(bits)] ==
        IF n = 0 THEN 0
        ELSE (2 * encoded[n - 1] + (IF bits[Len(bits) + 1 - n] = 1 THEN Generator ELSE 0)) % Order
  IN encoded[Len(bits)]
KeyShift(randomness) == DoubleAndAdd(BitsMSBFirst(randomness))
KeyShiftVar(randomness) == Mul(FromBitsLE(BitsLSBFirst(randomness)), Generator)
RandomizePublicKey(randomness) ==
  /\ scheme = "schnorr" /\ secret # Unmade
  /\ Len(keyShifts) < MaxRandomizations
  /\ public' = (KeyShift(randomness) + public) % Order
  /\ publicVar' = (publicVar + KeyShiftVar(randomness)) % Order
  /\ keyShifts' = Append(keyShifts, randomness)
  /\ UNCHANGED <<scheme, secret, signature, signed, sigShifts, ciphertext, decrypted>>

(* randomize_signature sums the powers of two of the bits that are set.    *)
(* (MultiplierLSBFirst is a mutant: Pedersen's bytes_to_bits.)             *)
PowersSum(bits) ==
  LET loop[n \in 0 .. Len(bits)] ==
        IF n = 0 THEN [multiplier |-> 0, base |-> 1]
        ELSE LET l == loop[n - 1]
             IN [multiplier |-> (l.multiplier + (IF bits[n] = 1 THEN l.base ELSE 0)) % Order,
                 base |-> (2 * l.base) % Order]
  IN loop[Len(bits)].multiplier
MultiplierLSBFirst(randomness) == PowersSum(BitsLSBFirst(randomness))
Multiplier(randomness) == PowersSum(BitsMSBFirst(randomness))
RandomizeSignature(randomness) ==
  /\ signature # <<>> /\ Len(sigShifts) < MaxRandomizations
  /\ signature' = <<[signature[1] EXCEPT !.response =
                       (@ - signature[1].challenge * Multiplier(randomness)) % Order]>>
  /\ sigShifts' = Append(sigShifts, randomness)
  /\ UNCHANGED <<scheme, secret, public, publicVar, signed, keyShifts, ciphertext, decrypted>>

(* ElGamal's encrypt, and its gadget on the bytes of r.                    *)
EncryptNative(pk, m, r) == [c1 |-> Mul(r, Generator), c2 |-> (m + Mul(r, pk)) % Order]
EncryptVar(pk, m, r) ==
  LET scalar == FromBitsLE(BitsLSBFirst(ScalarBytes(r, Order)))
  IN [c1 |-> Mul(scalar, Generator), c2 |-> (m + Mul(scalar, pk)) % Order]
Encrypt(m, r) ==
  /\ scheme = "elgamal" /\ secret # Unmade /\ ciphertext = <<>>
  /\ ciphertext' = <<[message |-> m, r |-> r, native |-> EncryptNative(public, m, r),
                      circuit |-> EncryptVar(public, m, r)]>>
  /\ UNCHANGED <<scheme, secret, public, publicVar, signature, signed, keyShifts, sigShifts, decrypted>>

(* decrypt takes away the shared secret.  (DecryptWithAdds is a mutant.)   *)
DecryptWithAdds(x, c) == (c.c2 + Mul(x, c.c1)) % Order
DecryptWith(x, c) == (c.c2 - Mul(x, c.c1)) % Order
Decrypt ==
  /\ ciphertext # <<>> /\ decrypted = Unmade
  /\ decrypted' = DecryptWith(secret, ciphertext[1].native)
  /\ UNCHANGED <<scheme, secret, public, publicVar, signature, signed, keyShifts, sigShifts, ciphertext>>

SchemesNext ==
  \/ \E x \in Scalars : KeyGen(x)
  \/ \E k \in Scalars, m \in Messages : Sign(k, m)
  \/ \E randomness \in Randomness : RandomizePublicKey(randomness) \/ RandomizeSignature(randomness)
  \/ \E m \in Group, r \in Scalars : Encrypt(m, r)
  \/ Decrypt

SchemesSpec == SchemesInit /\ [][SchemesNext]_schemesVars

-----------------------------------------------------------------------------
SameShifts ==
  \A randomness \in Randomness :
    Cardinality({i \in DOMAIN keyShifts : keyShifts[i] = randomness})
      = Cardinality({i \in DOMAIN sigShifts : sigShifts[i] = randomness})

SumOf(f, s) ==
  LET total[n \in 0 .. Len(s)] == IF n = 0 THEN 0 ELSE total[n - 1] + f[s[n]]
  IN total[Len(s)]

TotalShift(shifts) ==
  SumOf([randomness \in Randomness |-> KeyShift(randomness)], shifts) % Order

(* A signature follows its key: shifted by the same randomness, in any     *)
(* order and before or after each other, it verifies; shifted otherwise,   *)
(* what verify recomputes is another commitment than the signer's.         *)
SignatureFollowsKey ==
  signature # <<>> =>
    LET sig == signature[1] IN
    /\ SameShifts => Verify(public, signed[1].message, sig)
    /\ ClaimedCommitment(public, sig) = signed[1].commitment
         <=> sig.challenge = 0 \/ TotalShift(keyShifts) = TotalShift(sigShifts)

(* Decryption inverts encryption, and only with the secret key, unless     *)
(* nothing blinds the message; the circuit's ciphertext is the native one. *)
DecryptionInverts ==
  ciphertext # <<>> =>
    LET c == ciphertext[1] IN
    /\ c.circuit = c.native
    /\ decrypted # Unmade => decrypted = c.message
    /\ \A x \in Scalars : DecryptWith(x, c.native) = c.message <=> x = secret \/ c.r = 0

(* The gadget of SigRandomizePkGadget gives the key that the scheme's own  *)
(* randomize_public_key gives.                                             *)
GadgetRandomizesAlike == publicVar = public
=============================================================================
