------------------------------- MODULE MlKem -------------------------------
(***************************************************************************)
(* The public API of src/lib.rs for one parameter set: a key holder with   *)
(* at most one live DecapsulationKey, a peer with at most one live         *)
(* EncapsulationKey, and the bytes they serialize, keep and exchange.      *)
(*                                                                         *)
(* The library promises nothing about those bytes between to_bytes and     *)
(* from_bytes: between two calls they may be kept and parsed again (a      *)
(* duplicate), overwritten (a loss), cut, altered, or rewritten by another *)
(* implementation.  The Alter actions are that environment.                *)
(***************************************************************************)
EXTENDS KPke, FiniteSets

CONSTANTS
  None,          \* no object or no bytes in a place
  MaxCalls,      \* bound on the distinct encapsulations, and decapsulations
  MaxAlterations \* bound on the alterations of stored bytes

ASSUME BoundsAssumption == MaxCalls \in Nat /\ MaxAlterations \in Nat

VARIABLES
  dk,          \* the holder's DecapsulationKey
  ek,          \* the peer's EncapsulationKey
  bytes,       \* serialized forms outside the library: an ek, a dk, a ct
  verdict,     \* the answer of the latest from_bytes
  origin,      \* the bytes the live ek and dk were parsed from, if they were
  sent,        \* every encapsulate call that returned
  opened,      \* every decapsulate call that returned
  alterations  \* alterations so far

vars == <<dk, ek, bytes, verdict, origin, sent, opened, alterations>>

-----------------------------------------------------------------------------
EncapsulationKeys == [ek_pke : EncryptionKeys, h_ek : Hashes]

DecapsulationKeys ==
  [dk_pke : Vectors, ek : EncapsulationKeys, h_ek : Hashes,
   z : RejectionSeeds \cup {Damaged}]

\* K from G(m || H(ek)), or the rejection secret J(z || c).
SharedSecrets ==
  [kind : {"K"}, m : Messages, h : Hashes]
    \cup [kind : {"J"}, z : RejectionSeeds \cup {Damaged}, c : Ciphertexts]

Answers == {"Ok", "InvalidEncapsulationKeyLength",
            "EncapsulationKeyModulusCheckFailed",
            "InvalidDecapsulationKeyLength", "DecapsulationKeyHashMismatch",
            "InvalidCiphertextLength"}

Stored == [ek : EkBytes \cup {None}, dk : DkBytes \cup {None},
           ct : CtBytes \cup {None}]

TypeOK ==
  /\ dk \in DecapsulationKeys \cup {None}
  /\ ek \in EncapsulationKeys \cup {None}
  /\ bytes \in Stored
  /\ verdict \in Answers
  /\ origin \in [ek : EkBytes \cup {None}, dk : DkBytes \cup {None}]
  /\ sent \subseteq [ek : EncapsulationKeys, m : Messages,
                     c : Ciphertexts, secret : SharedSecrets]
  /\ opened \subseteq [dk : DecapsulationKeys, c : Ciphertexts,
                       secret : SharedSecrets]
  /\ alterations \in 0 .. MaxAlterations

-----------------------------------------------------------------------------
\* From<PKE::EncryptionKey>: the sole constructor, caching H(ek) over the
\* re-encoded key, not over any bytes the key was parsed from.
EncapsulationKeyFrom(ek_pke) ==
  [ek_pke |-> ek_pke, h_ek |-> H(EncryptionKeyToBytes(ek_pke))]

EncapsulationKeyToBytes(key) == EncryptionKeyToBytes(key.ek_pke)

\* G: the two halves of SHA3-512(m || h).
SharedKWithoutKey(m, h) == [kind |-> "K", m |-> m, h |-> Damaged]
SharedK(m, h) == [kind |-> "K", m |-> m, h |-> h]
SharedR(m, h) == [m |-> m, h |-> h]
J(z, c) == [kind |-> "J", z |-> z, c |-> c]

\* generate_derand(d || z)
GenerateDerand(d, z) ==
  LET key == EncapsulationKeyFrom(KeyPairEncryptionKey(d)) IN
  [dk_pke |-> KeyPairSecret(d), ek |-> key, h_ek |-> key.h_ek, z |-> z]

\* encapsulate_derand(m): the ciphertext; the secret is SharedK(m, key.h_ek).
EncapsulateDerand(key, m) ==
  Encrypt(key.ek_pke, m, SharedR(m, key.h_ek))

\* Mutants of decapsulate: no re-encryption check; the message returned raw.
DecapsulateUnchecked(key, c) ==
  SharedK(Decrypt(key.dk_pke, c), key.h_ek)
DecapsulateRaw(key, c) == Decrypt(key.dk_pke, c)

\* decapsulate(c): decrypt, re-derive, re-encrypt, compare, select.
Decapsulate(key, c) ==
  LET m_prime == Decrypt(key.dk_pke, c)
      c_prime == Encrypt(key.ek.ek_pke, m_prime, SharedR(m_prime, key.h_ek))
  IN IF c = c_prime THEN SharedK(m_prime, key.h_ek) ELSE J(key.z, c)

\* Mutant: the last two fields are written in the wrong order.
DecapsulationKeyToBytesSwapped(key) ==
  [sized |-> TRUE, s |-> ByteEncode12(key.dk_pke),
   ek |-> EncryptionKeyToBytes(key.ek.ek_pke), h |-> key.z, z |-> key.h_ek]

\* dk_PKE, ek, H(ek), z.
DecapsulationKeyToBytes(key) ==
  [sized |-> TRUE, s |-> ByteEncode12(key.dk_pke),
   ek |-> EncryptionKeyToBytes(key.ek.ek_pke), h |-> key.h_ek, z |-> key.z]

\* Mutants of the parsers: no modulus check; no hash check.
EncapsulationKeyAnswerLenient(b) ==
  IF ~b.sized THEN "InvalidEncapsulationKeyLength" ELSE "Ok"
DecapsulationKeyAnswerLenient(b) ==
  IF ~b.sized THEN "InvalidDecapsulationKeyLength" ELSE "Ok"

\* EncapsulationKey::try_from: the length check, then the modulus check on
\* the re-encoding of the parsed key.
EncapsulationKeyAnswer(b) ==
  IF ~b.sized THEN "InvalidEncapsulationKeyLength"
  ELSE IF EncryptionKeyToBytes(EncryptionKeyFromBytes(b)) # b
       THEN "EncapsulationKeyModulusCheckFailed"
       ELSE "Ok"

\* DecapsulationKey::try_from: the object built from well-sized bytes ...
DecapsulationKeyParsed(b) ==
  [dk_pke |-> ByteDecode12(b.s),
   ek |-> EncapsulationKeyFrom(EncryptionKeyFromBytes(b.ek)),
   h_ek |-> b.h, z |-> b.z]

\* ... and its checks: the length, then the stored hash against the cached one.
DecapsulationKeyAnswer(b) ==
  IF ~b.sized THEN "InvalidDecapsulationKeyLength"
  ELSE IF DecapsulationKeyParsed(b).ek.h_ek # b.h
       THEN "DecapsulationKeyHashMismatch"
       ELSE "Ok"

CiphertextAnswer(b) == IF b.sized THEN "Ok" ELSE "InvalidCiphertextLength"

-----------------------------------------------------------------------------
Init ==
  /\ dk = None
  /\ ek = None
  /\ bytes = [ek |-> None, dk |-> None, ct |-> None]
  /\ verdict = "Ok"
  /\ origin = [ek |-> None, dk |-> None]
  /\ sent = {}
  /\ opened = {}
  /\ alterations = 0

\* DecapsulationKey::generate, replacing (dropping) the holder's key.
Generate(d, z) ==
  /\ dk' = GenerateDerand(d, z)
  /\ origin' = [origin EXCEPT !.dk = None]
  /\ UNCHANGED <<ek, bytes, verdict, sent, opened, alterations>>

\* encapsulation_key().clone() handed to a peer in the same process.
ShareKey ==
  /\ dk # None
  /\ ek' = dk.ek
  /\ origin' = [origin EXCEPT !.ek = None]
  /\ UNCHANGED <<dk, bytes, verdict, sent, opened, alterations>>

\* EncapsulationKey::to_bytes of the holder's encapsulation key.
ExportEk ==
  /\ dk # None
  /\ bytes' = [bytes EXCEPT !.ek = EncapsulationKeyToBytes(dk.ek)]
  /\ UNCHANGED <<dk, ek, verdict, origin, sent, opened, alterations>>

\* DecapsulationKey::to_bytes.
ExportDk ==
  /\ dk # None
  /\ bytes' = [bytes EXCEPT !.dk = DecapsulationKeyToBytes(dk)]
  /\ UNCHANGED <<dk, ek, verdict, origin, sent, opened, alterations>>

\* EncapsulationKey::from_bytes: an error leaves the peer's key as it was.
ImportEk ==
  /\ bytes.ek # None
  /\ verdict' = EncapsulationKeyAnswer(bytes.ek)
  /\ \/ /\ verdict' = "Ok"
        /\ ek' = EncapsulationKeyFrom(EncryptionKeyFromBytes(bytes.ek))
        /\ origin' = [origin EXCEPT !.ek = bytes.ek]
     \/ verdict' # "Ok" /\ UNCHANGED <<ek, origin>>
  /\ UNCHANGED <<dk, bytes, sent, opened, alterations>>

\* DecapsulationKey::from_bytes: an error leaves the holder's key as it was.
ImportDk ==
  /\ bytes.dk # None
  /\ verdict' = DecapsulationKeyAnswer(bytes.dk)
  /\ \/ /\ verdict' = "Ok"
        /\ dk' = DecapsulationKeyParsed(bytes.dk)
        /\ origin' = [origin EXCEPT !.dk = bytes.dk]
     \/ verdict' # "Ok" /\ UNCHANGED <<dk, origin>>
  /\ UNCHANGED <<ek, bytes, sent, opened, alterations>>

\* encapsulate: m is fresh randomness; encapsulate_derand lets m repeat.
Encapsulate(m) ==
  /\ ek # None
  /\ LET c == EncapsulateDerand(ek, m) IN
       /\ bytes' = [bytes EXCEPT !.ct = [sized |-> TRUE, c |-> c]]
       /\ sent' = sent \cup {[ek |-> ek, m |-> m, c |-> c,
                              secret |-> SharedK(m, ek.h_ek)]}
  /\ Cardinality(sent') <= MaxCalls
  /\ UNCHANGED <<dk, ek, verdict, origin, opened, alterations>>

\* Ciphertext::from_bytes, then decapsulate if it parsed.
ReceiveCiphertext ==
  /\ dk # None /\ bytes.ct # None
  /\ verdict' = CiphertextAnswer(bytes.ct)
  /\ \/ /\ verdict' = "Ok"
        /\ opened' = opened \cup {[dk |-> dk, c |-> bytes.ct.c,
                                   secret |-> Decapsulate(dk, bytes.ct.c)]}
     \/ verdict' # "Ok" /\ UNCHANGED opened
  /\ Cardinality(opened') <= MaxCalls
  /\ UNCHANGED <<dk, ek, bytes, origin, sent, alterations>>

-----------------------------------------------------------------------------
\* What may happen to bytes outside the library.
AlteredEk(b) ==
  {[b EXCEPT !.sized = FALSE], [b EXCEPT !.t.over = TRUE],
   [b EXCEPT !.t.val = Damaged], [b EXCEPT !.rho = Damaged]}

AlteredDk(b) ==
  {[b EXCEPT !.sized = FALSE], [b EXCEPT !.s.over = TRUE],
   [b EXCEPT !.s.val = Damaged], [b EXCEPT !.ek.t.over = TRUE],
   [b EXCEPT !.ek.t.val = Damaged], [b EXCEPT !.ek.rho = Damaged],
   [b EXCEPT !.h = Damaged], [b EXCEPT !.z = Damaged],
   \* an implementation that packs unreduced coefficients and hashes them
   [b EXCEPT !.ek.t.over = TRUE, !.h = H([b.ek EXCEPT !.t.over = TRUE])]}

AlteredCt(b) ==
  {[b EXCEPT !.sized = FALSE], [b EXCEPT !.c.noise = "near"],
   [b EXCEPT !.c.noise = "far"]}

Alter ==
  /\ alterations < MaxAlterations
  /\ \/ bytes.ek # None
        /\ \E b \in AlteredEk(bytes.ek) : bytes' = [bytes EXCEPT !.ek = b]
     \/ bytes.dk # None
        /\ \E b \in AlteredDk(bytes.dk) : bytes' = [bytes EXCEPT !.dk = b]
     \/ bytes.ct # None
        /\ \E b \in AlteredCt(bytes.ct) : bytes' = [bytes EXCEPT !.ct = b]
  /\ alterations' = alterations + 1
  /\ UNCHANGED <<dk, ek, verdict, origin, sent, opened>>

Next ==
  \/ \E d \in Seeds, z \in RejectionSeeds : Generate(d, z)
  \/ ShareKey \/ ExportEk \/ ExportDk \/ ImportEk \/ ImportDk
  \/ \E m \in Messages : Encapsulate(m)
  \/ ReceiveCiphertext
  \/ Alter

Spec == Init /\ [][Next]_vars

-----------------------------------------------------------------------------
\* An encapsulation key's two caches are those of its own key material.
Fresh(key) ==
  /\ key.h_ek = H(EncapsulationKeyToBytes(key))
  /\ key.ek_pke.a_hat_transpose = key.ek_pke.rho

\* Every live key's cached hash and cached matrix belong to the key they are
\* stored in, and a DecapsulationKey's own copy of the hash is that of its
\* encapsulation key, however the object came about: generated, shared, or
\* parsed from bytes that were altered on the way (src/src/lib.rs:215, 546).
CachesFresh ==
  /\ ek # None => Fresh(ek)
  /\ dk # None => Fresh(dk.ek) /\ dk.h_ek = dk.ek.h_ek

\* The secret vector is the one the public key bytes were generated with.
OwnsItsKey(key) ==
  Opens(key.dk_pke, key.ek.ek_pke.t_hat, key.ek.ek_pke.rho)

\* The history keeps what each call computed, on keys whose caches were fresh.
HistoryFaithful ==
  /\ \A e \in sent :
       /\ Fresh(e.ek)
       /\ e.c = EncapsulateDerand(e.ek, e.m)
       /\ e.secret = SharedK(e.m, e.ek.h_ek)
  /\ \A o \in opened :
       /\ Fresh(o.dk.ek)
       /\ o.dk.h_ek = o.dk.ek.h_ek
       /\ o.secret = Decapsulate(o.dk, o.c)

\* A ciphertext that looks untouched is one that encapsulate wrote.
UntouchedWasSent ==
  /\ bytes.ct # None /\ bytes.ct.c.noise = "none" =>
       \E e \in sent : e.c = bytes.ct.c
  /\ \A o \in opened :
       o.c.noise = "none" => \E e \in sent : e.c = o.c

\* The inductive invariant behind the two properties below.
IInv ==
  /\ TypeOK
  /\ CachesFresh
  /\ HistoryFaithful
  /\ UntouchedWasSent

\* Both ends derive one secret: a holder whose secret vector opens the key
\* that was encapsulated to gets the encapsulator's secret from the unaltered
\* ciphertext, through every export, alteration and re-import of both keys
\* that left them alive (src/src/lib.rs:285, 491).
Agreement ==
  \A e \in sent, o \in opened :
    /\ e.c = o.c
    /\ EncapsulationKeyToBytes(e.ek) = EncapsulationKeyToBytes(o.dk.ek)
    /\ OwnsItsKey(o.dk)
    => o.secret = e.secret

\* Implicit rejection: a secret derived from a message is returned only for
\* exactly a ciphertext that was encapsulated to this key; for anything else
\* the answer is the rejection secret of this key's z and that ciphertext
\* (src/src/lib.rs:491).
RejectsEverythingElse ==
  \A o \in opened :
    \/ o.secret = J(o.dk.z, o.c)
    \/ \E e \in sent :
         /\ e.c = o.c /\ e.secret = o.secret
         /\ EncapsulationKeyToBytes(e.ek) = EncapsulationKeyToBytes(o.dk.ek)

\* A key that was accepted can be kept: the serialization of any live key,
\* parsed again, is accepted and gives the same key (src/src/lib.rs:445, 546).
ReloadsItself ==
  /\ ek # None =>
       LET b == EncapsulationKeyToBytes(ek) IN
       /\ EncapsulationKeyAnswer(b) = "Ok"
       /\ EncapsulationKeyFrom(EncryptionKeyFromBytes(b)) = ek
  /\ dk # None =>
       LET b == DecapsulationKeyToBytes(dk) IN
       /\ DecapsulationKeyAnswer(b) = "Ok"
       /\ DecapsulationKeyParsed(b) = dk

\* The peer hashes what it received: a parsed encapsulation key is the only
\* reading of its bytes, so its cached hash is the hash of those very bytes,
\* which is what the holder's hash is of (src/src/lib.rs:321).
PeerHashesWhatItReceived ==
  ek # None /\ origin.ek # None =>
    ek.h_ek = H(origin.ek) /\ EncapsulationKeyToBytes(ek) = origin.ek

\* The documented condition of DecapsulationKeyHashMismatch: a parsed
\* decapsulation key's bytes held the hash of the encapsulation key embedded
\* in those bytes (src/src/lib.rs:541-543, 566-570).
StoredHashIsOfStoredKey ==
  dk # None /\ origin.dk # None => origin.dk.h = H(origin.dk.ek)

\* The ideal mechanism's table and answers, read off the calls made.
IssuedRecord(e) ==
  [key |-> EncapsulationKeyToBytes(e.ek), c |-> e.c, secret |-> e.secret]
AnsweredRecord(o) ==
  [own |-> OwnsItsKey(o.dk), key |-> EncapsulationKeyToBytes(o.dk.ek),
   z |-> o.dk.z, c |-> o.c, secret |-> o.secret]
Issued == {IssuedRecord(e) : e \in sent}
Answered == {AnsweredRecord(o) : o \in opened}

Ideal == INSTANCE IdealKem WITH
  Rejection <- J, issued <- Issued, answered <- Answered

\* encapsulate and decapsulate are the ideal mechanism's two operations, and
\* no other call of the API changes what was issued or answered
\* (src/src/lib.rs:285, 491).
ImplementsIdealKem == Ideal!Spec
=============================================================================
