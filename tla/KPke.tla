------------------------------- MODULE KPke -------------------------------
(***************************************************************************)
(* The values the KEM of src/lib.rs is built from, and K-PKE (src/PKE.rs)  *)
(* as functions on them.  The arithmetic is abstracted to what the         *)
(* Fujisaki-Okamoto layer can tell apart:                                  *)
(*                                                                         *)
(*  - a vector of NTT coefficients modulo q, or a 32-byte seed, is the     *)
(*    name of the key-generation seed d it was derived from, or Damaged    *)
(*    when it is no longer what any key generation produced;               *)
(*  - its 12-bit encoding also says whether some 12-bit field holds a      *)
(*    value in q .. 4095 ("over"): decoding reduces it, so two encodings   *)
(*    stand for one vector;                                                *)
(*  - hashes are injective terms over the bytes they absorb.               *)
(***************************************************************************)
EXTENDS Integers

CONSTANTS
  Seeds,          \* the 32-byte key-generation seeds d
  RejectionSeeds, \* the 32-byte implicit-rejection seeds z
  Messages,       \* the 32-byte encapsulation randomness m
  Damaged,        \* bytes no operation of the library produced
  Garble(_, _)    \* what decrypting a ciphertext meant for another key yields

ASSUME DamagedAssumption == Damaged \notin Seeds /\ Damaged \notin RejectionSeeds

Vectors == Seeds \cup {Damaged}

\* A packed vector: its coefficients modulo q, and whether a field is >= q.
Encodings == [val : Vectors, over : BOOLEAN]

EkBytes == [sized : BOOLEAN, t : Encodings, rho : Vectors]

\* H(bytes): SHA3-256 of a serialized encapsulation key.
H(bytes) == [of |-> bytes]
Hashes == [of : EkBytes] \cup {Damaged}

EncryptionKeys == [t_hat : Vectors, rho : Vectors, a_hat_transpose : Vectors]
Coins == [m : Messages, h : Hashes]

\* How far a ciphertext is from what encrypt wrote: untouched, altered but
\* still within the decoder's reach, or altered beyond it.
Noise == {"none", "near", "far"}
Ciphertexts ==
  [t : Vectors, a : Vectors, m : Messages, r : Coins, noise : Noise]

ASSUME GarbleAssumption ==
  \A s \in Vectors, c \in Ciphertexts : Garble(s, c) \in Messages

CtBytes == [sized : BOOLEAN, c : Ciphertexts]
DkBytes == [sized : BOOLEAN, s : Encodings, ek : EkBytes, h : Hashes,
            z : RejectionSeeds \cup {Damaged}]

-----------------------------------------------------------------------------
\* ByteEncode_12 of a vector whose elements are canonicalized first.
ByteEncode12(v) == [val |-> v, over |-> FALSE]

\* ByteDecode_12: every 12-bit field is reduced modulo q.
ByteDecode12(e) == e.val

\* EncryptionKey::to_bytes
EncryptionKeyToBytes(ek) ==
  [sized |-> TRUE, t |-> ByteEncode12(ek.t_hat), rho |-> ek.rho]

\* EncryptionKey::from_bytes: decodes t_hat and expands A^T from rho once.
EncryptionKeyFromBytes(b) ==
  [t_hat |-> ByteDecode12(b.t), rho |-> b.rho, a_hat_transpose |-> b.rho]

\* Mutant: the key pair keeps a matrix other than the one rho expands to.
KeyPairStaleMatrix(d) == [t_hat |-> d, rho |-> d, a_hat_transpose |-> Damaged]
\* KeyPair::new_derand: rho, s and t_hat are all functions of d.
KeyPairEncryptionKey(d) == [t_hat |-> d, rho |-> d, a_hat_transpose |-> d]
KeyPairSecret(d) == d

\* encrypt reads the cached matrix and t_hat; rho itself takes no part.
Encrypt(ek, m, r) ==
  [t |-> ek.t_hat, a |-> ek.a_hat_transpose, m |-> m, r |-> r,
   noise |-> "none"]

\* s_hat is the secret of the key (t, A) only if one key generation made all
\* three.
Opens(s, t, a) == s \in Seeds /\ t = s /\ a = s

Decrypt(s, c) ==
  IF Opens(s, c.t, c.a) /\ c.noise # "far" THEN c.m ELSE Garble(s, c)
=============================================================================
