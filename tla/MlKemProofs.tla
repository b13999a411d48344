---------------------------- MODULE MlKemProofs ----------------------------
(***************************************************************************)
(* Proofs about MlKem, for any seeds, messages, bounds and any behaviour   *)
(* of decryption under a wrong key.                                        *)
(***************************************************************************)
EXTENDS MlKem, TLAPS

-----------------------------------------------------------------------------
(* What the operations return.                                             *)

LEMMA EkBytesType ==
  ASSUME NEW e \in EncryptionKeys
  PROVE  /\ EncryptionKeyToBytes(e) \in EkBytes
         /\ H(EncryptionKeyToBytes(e)) \in Hashes
         /\ EncapsulationKeyFrom(e) \in EncapsulationKeys
<1>1. EncryptionKeyToBytes(e) \in EkBytes
  BY DEF EncryptionKeyToBytes, EncryptionKeys, EkBytes, Encodings, ByteEncode12
<1>2. H(EncryptionKeyToBytes(e)) \in Hashes
  BY <1>1 DEF H, Hashes
<1>3. EncapsulationKeyFrom(e) \in EncapsulationKeys
  BY <1>2 DEF EncapsulationKeyFrom, EncapsulationKeys
<1> QED BY <1>1, <1>2, <1>3

LEMMA ParsedEkType ==
  ASSUME NEW b \in EkBytes
  PROVE  EncryptionKeyFromBytes(b) \in EncryptionKeys
BY DEF EncryptionKeyFromBytes, EkBytes, EncryptionKeys, Encodings, ByteDecode12

LEMMA GenerateType ==
  ASSUME NEW d \in Seeds, NEW z \in RejectionSeeds
  PROVE  GenerateDerand(d, z) \in DecapsulationKeys
<1>1. KeyPairEncryptionKey(d) \in EncryptionKeys
  BY DEF KeyPairEncryptionKey, EncryptionKeys, Vectors
<1>2. EncapsulationKeyFrom(KeyPairEncryptionKey(d)) \in EncapsulationKeys
  BY <1>1, EkBytesType
<1>3. EncapsulationKeyFrom(KeyPairEncryptionKey(d)).h_ek \in Hashes
  BY <1>2 DEF EncapsulationKeys
<1> QED
  BY <1>2, <1>3 DEF GenerateDerand, DecapsulationKeys, KeyPairSecret, Vectors

LEMMA DkBytesType ==
  ASSUME NEW key \in DecapsulationKeys
  PROVE  DecapsulationKeyToBytes(key) \in DkBytes
<1>1. EncryptionKeyToBytes(key.ek.ek_pke) \in EkBytes
  BY EkBytesType DEF DecapsulationKeys, EncapsulationKeys
<1>2. ByteEncode12(key.dk_pke) \in Encodings
  BY DEF ByteEncode12, Encodings, DecapsulationKeys
<1> QED
  BY <1>1, <1>2 DEF DecapsulationKeyToBytes, DecapsulationKeys, DkBytes

LEMMA ParsedDkType ==
  ASSUME NEW b \in DkBytes
  PROVE  DecapsulationKeyParsed(b) \in DecapsulationKeys
<1>1. EncapsulationKeyFrom(EncryptionKeyFromBytes(b.ek)) \in EncapsulationKeys
  BY EkBytesType, ParsedEkType DEF DkBytes
<1> QED
  BY <1>1 DEF DecapsulationKeyParsed, DecapsulationKeys, DkBytes, Encodings,
              ByteDecode12

LEMMA EncapsulateType ==
  ASSUME NEW key \in EncapsulationKeys, NEW m \in Messages
  PROVE  /\ EncapsulateDerand(key, m) \in Ciphertexts
         /\ SharedK(m, key.h_ek) \in SharedSecrets
<1>1. SharedR(m, key.h_ek) \in Coins
  BY DEF SharedR, Coins, EncapsulationKeys
<1>2. EncapsulateDerand(key, m) \in Ciphertexts
  BY <1>1 DEF EncapsulateDerand, Encrypt, Ciphertexts, Noise,
              EncapsulationKeys, EncryptionKeys
<1>3. SharedK(m, key.h_ek) \in SharedSecrets
  BY DEF SharedK, SharedSecrets, EncapsulationKeys
<1> QED BY <1>2, <1>3

LEMMA DecryptType ==
  ASSUME NEW s \in Vectors, NEW c \in Ciphertexts
  PROVE  Decrypt(s, c) \in Messages
BY GarbleAssumption DEF Decrypt, Ciphertexts

LEMMA DecapsulateType ==
  ASSUME NEW key \in DecapsulationKeys, NEW c \in Ciphertexts
  PROVE  Decapsulate(key, c) \in SharedSecrets
<1>1. Decrypt(key.dk_pke, c) \in Messages
  BY DecryptType DEF DecapsulationKeys
<1>2. SharedK(Decrypt(key.dk_pke, c), key.h_ek) \in SharedSecrets
  BY <1>1 DEF SharedK, SharedSecrets, DecapsulationKeys
<1>3. J(key.z, c) \in SharedSecrets
  BY DEF J, SharedSecrets, DecapsulationKeys
<1> QED BY <1>2, <1>3 DEF Decapsulate

LEMMA AlteredType ==
  /\ \A b \in EkBytes : AlteredEk(b) \subseteq EkBytes
  /\ \A b \in DkBytes : AlteredDk(b) \subseteq DkBytes
  /\ \A b \in CtBytes : AlteredCt(b) \subseteq CtBytes
<1>1. ASSUME NEW b \in EkBytes
      PROVE  /\ [b EXCEPT !.sized = FALSE] \in EkBytes
             /\ [b EXCEPT !.t.over = TRUE] \in EkBytes
             /\ [b EXCEPT !.t.val = Damaged] \in EkBytes
             /\ [b EXCEPT !.rho = Damaged] \in EkBytes
  <2>1. [b EXCEPT !.sized = FALSE] \in EkBytes  BY DEF EkBytes
  <2>2. [b.t EXCEPT !.over = TRUE] \in Encodings  BY DEF EkBytes, Encodings
  <2>3. [b EXCEPT !.t.over = TRUE] \in EkBytes  BY <2>2 DEF EkBytes
  <2>4. [b.t EXCEPT !.val = Damaged] \in Encodings
    BY DEF EkBytes, Encodings, Vectors
  <2>5. [b EXCEPT !.t.val = Damaged] \in EkBytes  BY <2>4 DEF EkBytes
  <2>6. [b EXCEPT !.rho = Damaged] \in EkBytes  BY DEF EkBytes, Vectors
  <2> QED BY <2>1, <2>3, <2>5, <2>6
<1>2. ASSUME NEW b \in DkBytes, NEW e \in EkBytes
      PROVE  [b EXCEPT !.ek = e] \in DkBytes
  BY DEF DkBytes
<1>3. ASSUME NEW b \in DkBytes PROVE AlteredDk(b) \subseteq DkBytes
  <2> DEFINE over == [b.ek EXCEPT !.t.over = TRUE]
  <2>1. /\ b.ek \in EkBytes /\ b.s \in Encodings /\ over \in EkBytes
        /\ [b.ek EXCEPT !.t.val = Damaged] \in EkBytes
        /\ [b.ek EXCEPT !.rho = Damaged] \in EkBytes
    BY <1>1 DEF DkBytes
  <2>2. /\ [b.s EXCEPT !.over = TRUE] \in Encodings
        /\ [b.s EXCEPT !.val = Damaged] \in Encodings
    BY <2>1 DEF Encodings, Vectors
  <2>3. /\ [b EXCEPT !.s.over = TRUE] \in DkBytes
        /\ [b EXCEPT !.s.val = Damaged] \in DkBytes
    BY <2>2 DEF DkBytes
  <2>4. /\ [b EXCEPT !.ek.t.over = TRUE] \in DkBytes
        /\ [b EXCEPT !.ek.t.val = Damaged] \in DkBytes
        /\ [b EXCEPT !.ek.rho = Damaged] \in DkBytes
    BY <2>1 DEF DkBytes
  <2>5. /\ [b EXCEPT !.sized = FALSE] \in DkBytes
        /\ [b EXCEPT !.h = Damaged] \in DkBytes
        /\ [b EXCEPT !.z = Damaged] \in DkBytes
    BY DEF DkBytes, Hashes
  <2>6. H(over) \in Hashes  BY <2>1 DEF H, Hashes
  <2>7. [b EXCEPT !.ek.t.over = TRUE, !.h = H(over)] \in DkBytes
    BY <2>1, <2>6 DEF DkBytes
  <2> QED BY <2>3, <2>4, <2>5, <2>7 DEF AlteredDk
<1>4. ASSUME NEW b \in CtBytes PROVE AlteredCt(b) \subseteq CtBytes
  <2>1. ASSUME NEW n \in Noise
        PROVE  [b EXCEPT !.c.noise = n] \in CtBytes
    <3>1. [b.c EXCEPT !.noise = n] \in Ciphertexts
      BY DEF CtBytes, Ciphertexts
    <3> QED BY <3>1 DEF CtBytes
  <2>2. [b EXCEPT !.sized = FALSE] \in CtBytes  BY DEF CtBytes
  <2>3. "near" \in Noise /\ "far" \in Noise  BY DEF Noise
  <2> QED BY <2>1, <2>2, <2>3 DEF AlteredCt
<1>5. ASSUME NEW b \in EkBytes PROVE AlteredEk(b) \subseteq EkBytes
  BY <1>1 DEF AlteredEk
<1> QED BY <1>3, <1>4, <1>5

-----------------------------------------------------------------------------
(* Type correctness.                                                       *)

LEMMA InitType == Init => TypeOK
BY BoundsAssumption DEF Init, TypeOK, Answers, Stored

LEMMA NextType == TypeOK /\ [Next]_vars => TypeOK'
<1> SUFFICES ASSUME TypeOK, [Next]_vars PROVE TypeOK'
  OBVIOUS
<1> USE DEF TypeOK
<1>1. ASSUME NEW d \in Seeds, NEW z \in RejectionSeeds, Generate(d, z)
      PROVE  TypeOK'
  BY <1>1, GenerateType DEF Generate
<1>2. CASE ShareKey
  BY <1>2 DEF ShareKey, DecapsulationKeys
<1>3. CASE ExportEk
  <2>1. EncapsulationKeyToBytes(dk.ek) \in EkBytes
    BY <1>3, EkBytesType
    DEF ExportEk, EncapsulationKeyToBytes, DecapsulationKeys, EncapsulationKeys
  <2> QED BY <1>3, <2>1 DEF ExportEk, Stored
<1>4. CASE ExportDk
  <2>1. DecapsulationKeyToBytes(dk) \in DkBytes
    BY <1>4, DkBytesType DEF ExportDk
  <2> QED BY <1>4, <2>1 DEF ExportDk, Stored
<1>5. CASE ImportEk
  <2>1. bytes.ek \in EkBytes
    BY <1>5 DEF ImportEk, Stored
  <2>2. EncapsulationKeyFrom(EncryptionKeyFromBytes(bytes.ek))
          \in EncapsulationKeys
    BY <2>1, ParsedEkType, EkBytesType
  <2>3. EncapsulationKeyAnswer(bytes.ek) \in Answers
    BY DEF EncapsulationKeyAnswer, Answers
  <2>4. verdict' \in Answers  BY <1>5, <2>3 DEF ImportEk
  <2> QED BY <1>5, <2>1, <2>2, <2>4 DEF ImportEk
<1>6. CASE ImportDk
  <2>1. bytes.dk \in DkBytes
    BY <1>6 DEF ImportDk, Stored
  <2>2. DecapsulationKeyParsed(bytes.dk) \in DecapsulationKeys
    BY <2>1, ParsedDkType
  <2>3. DecapsulationKeyAnswer(bytes.dk) \in Answers
    BY DEF DecapsulationKeyAnswer, Answers
  <2>4. verdict' \in Answers  BY <1>6, <2>3 DEF ImportDk
  <2> QED BY <1>6, <2>1, <2>2, <2>4 DEF ImportDk
<1>7. ASSUME NEW m \in Messages, Encapsulate(m)
      PROVE  TypeOK'
  <2> DEFINE c == EncapsulateDerand(ek, m)
  <2>1. c \in Ciphertexts /\ SharedK(m, ek.h_ek) \in SharedSecrets
        /\ ek \in EncapsulationKeys
    BY <1>7, EncapsulateType DEF Encapsulate
  <2>2. [sized |-> TRUE, c |-> c] \in CtBytes  BY <2>1 DEF CtBytes
  <2>3. [ek |-> ek, m |-> m, c |-> c, secret |-> SharedK(m, ek.h_ek)]
          \in [ek : EncapsulationKeys, m : Messages,
               c : Ciphertexts, secret : SharedSecrets]
    BY <2>1
  <2> HIDE DEF c
  <2> QED BY <1>7, <2>2, <2>3 DEF Encapsulate, Stored, c
<1>8. CASE ReceiveCiphertext
  <2>1. bytes.ct.c \in Ciphertexts /\ dk \in DecapsulationKeys
    BY <1>8 DEF ReceiveCiphertext, Stored, CtBytes
  <2>2. Decapsulate(dk, bytes.ct.c) \in SharedSecrets
    BY <2>1, DecapsulateType
  <2>3. CiphertextAnswer(bytes.ct) \in Answers
    BY DEF CiphertextAnswer, Answers
  <2> QED BY <1>8, <2>1, <2>2, <2>3 DEF ReceiveCiphertext
<1>9. CASE Alter
  <2>1. bytes' \in Stored
    BY <1>9, AlteredType DEF Alter, Stored
  <2>2. alterations' \in 0 .. MaxAlterations
    BY <1>9, BoundsAssumption DEF Alter
  <2> QED BY <1>9, <2>1, <2>2 DEF Alter
<1>10. CASE UNCHANGED vars
  BY <1>10 DEF vars
<1> QED
  BY <1>1, <1>2, <1>3, <1>4, <1>5, <1>6, <1>7, <1>8, <1>9, <1>10 DEF Next

\* Every object the API builds, and every byte string it writes, has the
\* shape its constructor and its parser rely on.
THEOREM TypeCorrect == Spec => []TypeOK
BY InitType, NextType, PTL DEF Spec

-----------------------------------------------------------------------------
(* The caches, the history, and what the two together imply.               *)

LEMMA BuiltFresh ==
  /\ \A b : Fresh(EncapsulationKeyFrom(EncryptionKeyFromBytes(b)))
  /\ \A d : Fresh(EncapsulationKeyFrom(KeyPairEncryptionKey(d)))
BY DEF Fresh, EncapsulationKeyFrom, EncapsulationKeyToBytes,
       EncryptionKeyFromBytes, KeyPairEncryptionKey

\* A well-sized dk is accepted only if both copies of H(ek) agree.
LEMMA ParsedDkFresh ==
  ASSUME NEW b, DecapsulationKeyAnswer(b) = "Ok"
  PROVE  LET key == DecapsulationKeyParsed(b) IN
         Fresh(key.ek) /\ key.h_ek = key.ek.h_ek
<1>1. DecapsulationKeyParsed(b).ek.h_ek = b.h
  BY DEF DecapsulationKeyAnswer
<1> QED BY <1>1, BuiltFresh DEF DecapsulationKeyParsed

LEMMA GeneratedFresh ==
  ASSUME NEW d, NEW z
  PROVE  LET key == GenerateDerand(d, z) IN
         Fresh(key.ek) /\ key.h_ek = key.ek.h_ek
BY BuiltFresh DEF GenerateDerand

LEMMA NextFresh ==
  ASSUME CachesFresh, [Next]_vars
  PROVE  CachesFresh'
<1> USE DEF CachesFresh
<1>1. ASSUME NEW d \in Seeds, NEW z \in RejectionSeeds, Generate(d, z)
      PROVE  CachesFresh'
  <2>1. dk' = GenerateDerand(d, z) /\ ek' = ek
    BY <1>1 DEF Generate
  <2>2. Fresh(dk'.ek) /\ dk'.h_ek = dk'.ek.h_ek
    BY <2>1, GeneratedFresh
  <2> QED BY <2>1, <2>2 DEF Fresh, EncapsulationKeyToBytes
<1>2. CASE ShareKey
  BY <1>2 DEF ShareKey, Fresh
<1>3. CASE ImportEk
  <2>1. CASE verdict' = "Ok"
    BY <1>3, <2>1, BuiltFresh DEF ImportEk, Fresh
  <2>2. CASE verdict' # "Ok"
    BY <1>3, <2>2 DEF ImportEk, Fresh
  <2> QED BY <2>1, <2>2
<1>4. CASE ImportDk
  <2>1. CASE verdict' = "Ok"
    BY <1>4, <2>1, ParsedDkFresh DEF ImportDk, Fresh
  <2>2. CASE verdict' # "Ok"
    BY <1>4, <2>2 DEF ImportDk, Fresh
  <2> QED BY <2>1, <2>2
<1>5. CASE UNCHANGED <<dk, ek>>
  BY <1>5 DEF Fresh
<1> QED
  BY <1>1, <1>2, <1>3, <1>4, <1>5
  DEF Next, vars, ExportEk, ExportDk, Encapsulate, ReceiveCiphertext, Alter

LEMMA NextHistory ==
  ASSUME CachesFresh, HistoryFaithful, [Next]_vars
  PROVE  HistoryFaithful'
<1>1. ASSUME NEW m \in Messages, Encapsulate(m)
      PROVE  HistoryFaithful'
  <2>1. Fresh(ek)  BY <1>1 DEF CachesFresh, Encapsulate
  <2>2. /\ opened' = opened
        /\ sent' = sent \cup {[ek |-> ek, m |-> m,
                               c |-> EncapsulateDerand(ek, m),
                               secret |-> SharedK(m, ek.h_ek)]}
    BY <1>1 DEF Encapsulate
  <2> QED BY <2>1, <2>2 DEF HistoryFaithful
<1>2. CASE ReceiveCiphertext
  <2>1. Fresh(dk.ek) /\ dk.h_ek = dk.ek.h_ek
    BY <1>2 DEF CachesFresh, ReceiveCiphertext
  <2>2. /\ sent' = sent
        /\ \/ opened' = opened
           \/ opened' = opened \cup
                {[dk |-> dk, c |-> bytes.ct.c,
                  secret |-> Decapsulate(dk, bytes.ct.c)]}
    BY <1>2 DEF ReceiveCiphertext
  <2> QED BY <2>1, <2>2 DEF HistoryFaithful
<1>3. CASE UNCHANGED <<sent, opened>>
  BY <1>3 DEF HistoryFaithful
<1> QED
  BY <1>1, <1>2, <1>3
  DEF Next, vars, Generate, ShareKey, ExportEk, ExportDk, ImportEk, ImportDk,
      Alter

LEMMA NextUntouched ==
  ASSUME TypeOK, UntouchedWasSent, [Next]_vars
  PROVE  UntouchedWasSent'
<1> USE DEF UntouchedWasSent
<1>1. ASSUME NEW m \in Messages, Encapsulate(m)
      PROVE  UntouchedWasSent'
  <2> DEFINE c == EncapsulateDerand(ek, m)
             e == [ek |-> ek, m |-> m, c |-> c,
                   secret |-> SharedK(m, ek.h_ek)]
  <2>1. sent' = sent \cup {e} /\ opened' = opened
    BY <1>1 DEF Encapsulate
  <2>2. bytes'.ct.c = c
    BY <1>1 DEF Encapsulate, TypeOK, Stored
  <2>3. e.c = c  OBVIOUS
  <2> QED BY <2>1, <2>2, <2>3
<1>2. CASE ReceiveCiphertext
  BY <1>2 DEF ReceiveCiphertext
<1>3. CASE Alter
  <2>1. sent' = sent /\ opened' = opened
    BY <1>3 DEF Alter
  <2>2. ASSUME bytes'.ct # None, bytes'.ct.c.noise = "none"
        PROVE  bytes'.ct.c = bytes.ct.c /\ bytes.ct # None
    <3>1. CASE bytes'.ct = bytes.ct
      BY <3>1, <2>2
    <3>2. CASE bytes'.ct # bytes.ct
      <4>1. bytes.ct \in CtBytes /\ bytes'.ct \in AlteredCt(bytes.ct)
        BY <1>3, <3>2 DEF Alter, TypeOK, Stored
      <4>2. bytes'.ct = [bytes.ct EXCEPT !.sized = FALSE]
        <5>1. ASSUME NEW n
              PROVE  [bytes.ct EXCEPT !.c.noise = n].c.noise = n
          BY <4>1 DEF CtBytes, Ciphertexts
        <5>2. /\ bytes'.ct # [bytes.ct EXCEPT !.c.noise = "near"]
              /\ bytes'.ct # [bytes.ct EXCEPT !.c.noise = "far"]
          BY <5>1, <2>2
        <5> QED BY <4>1, <5>2 DEF AlteredCt
      <4>3. bytes'.ct.c = bytes.ct.c
        BY <4>1, <4>2 DEF CtBytes
      <4>4. bytes.ct # None
        BY <1>3, <3>2 DEF Alter, TypeOK, Stored
      <4> QED BY <4>3, <4>4
    <3> QED BY <3>1, <3>2
  <2> QED BY <2>1, <2>2
<1>4. CASE UNCHANGED <<sent, opened>> /\ bytes'.ct = bytes.ct
  BY <1>4
<1>5. CASE ExportEk \/ ExportDk
  <2>1. bytes'.ct = bytes.ct
    BY <1>5 DEF ExportEk, ExportDk, TypeOK, Stored
  <2> QED BY <1>5, <2>1, <1>4 DEF ExportEk, ExportDk
<1> QED
  BY <1>1, <1>2, <1>3, <1>4, <1>5
  DEF Next, vars, Generate, ShareKey, ImportEk, ImportDk

THEOREM IndInvCorrect == Spec => []IInv
<1>1. Init => IInv
  BY InitType DEF Init, IInv, CachesFresh, HistoryFaithful, UntouchedWasSent
<1>2. IInv /\ [Next]_vars => IInv'
  BY NextType, NextFresh, NextHistory, NextUntouched DEF IInv
<1> QED BY <1>1, <1>2, PTL DEF Spec

-----------------------------------------------------------------------------
(* Agreement and implicit rejection.                                       *)

\* A matching holder who decapsulates what was encapsulated gets the
\* encapsulator's secret.
LEMMA MatchingSecret ==
  ASSUME NEW key \in EncapsulationKeys, Fresh(key),
         NEW holder \in DecapsulationKeys, Fresh(holder.ek),
         holder.h_ek = holder.ek.h_ek, OwnsItsKey(holder),
         EncapsulationKeyToBytes(key) = EncapsulationKeyToBytes(holder.ek),
         NEW m \in Messages
  PROVE  Decapsulate(holder, EncapsulateDerand(key, m)) = SharedK(m, key.h_ek)
<1> DEFINE c == EncapsulateDerand(key, m)
<1>1. /\ key.ek_pke.t_hat = holder.ek.ek_pke.t_hat
      /\ key.ek_pke.rho = holder.ek.ek_pke.rho
  BY DEF EncapsulationKeyToBytes, EncryptionKeyToBytes, ByteEncode12
<1>2. /\ key.ek_pke.a_hat_transpose = holder.ek.ek_pke.a_hat_transpose
      /\ key.h_ek = holder.h_ek
  BY <1>1 DEF Fresh
<1>3. /\ c.t = holder.ek.ek_pke.t_hat
      /\ c.a = holder.ek.ek_pke.rho
      /\ c.noise = "none" /\ c.m = m
  BY <1>1, <1>2 DEF EncapsulateDerand, Encrypt, Fresh
<1>4. Decrypt(holder.dk_pke, c) = m
  BY <1>3 DEF Decrypt, OwnsItsKey
<1>5. Encrypt(holder.ek.ek_pke, m, SharedR(m, holder.h_ek)) = c
  BY <1>1, <1>2 DEF EncapsulateDerand, Encrypt
<1> HIDE DEF c
<1>6. Decapsulate(holder, c) = SharedK(m, key.h_ek)
  BY <1>2, <1>4, <1>5 DEF Decapsulate
<1> QED BY <1>6 DEF c

\* A secret other than the rejection secret is returned only for a ciphertext
\* that re-encrypts to itself.
LEMMA AcceptedReencrypts ==
  ASSUME NEW holder \in DecapsulationKeys, NEW c \in Ciphertexts,
         Decapsulate(holder, c) # J(holder.z, c)
  PROVE  \E m \in Messages :
           /\ c = Encrypt(holder.ek.ek_pke, m, SharedR(m, holder.h_ek))
           /\ Decapsulate(holder, c) = SharedK(m, holder.h_ek)
<1>1. Decrypt(holder.dk_pke, c) \in Messages
  BY DecryptType DEF DecapsulationKeys
<1> QED BY <1>1 DEF Decapsulate

LEMMA IInvAgreement == IInv => Agreement
<1> SUFFICES ASSUME IInv, NEW e \in sent, NEW o \in opened,
                    e.c = o.c, OwnsItsKey(o.dk),
                    EncapsulationKeyToBytes(e.ek) = EncapsulationKeyToBytes(o.dk.ek)
             PROVE  o.secret = e.secret
  BY DEF Agreement
<1>1. /\ e.ek \in EncapsulationKeys /\ e.m \in Messages
      /\ o.dk \in DecapsulationKeys
  BY DEF IInv, TypeOK
<1>2. /\ Fresh(e.ek) /\ e.c = EncapsulateDerand(e.ek, e.m)
      /\ e.secret = SharedK(e.m, e.ek.h_ek)
      /\ Fresh(o.dk.ek) /\ o.dk.h_ek = o.dk.ek.h_ek
      /\ o.secret = Decapsulate(o.dk, o.c)
  BY DEF IInv, HistoryFaithful
<1> QED BY <1>1, <1>2, MatchingSecret

LEMMA IInvRejects == IInv => RejectsEverythingElse
<1> SUFFICES ASSUME IInv, NEW o \in opened, o.secret # J(o.dk.z, o.c)
             PROVE  \E e \in sent :
                      /\ e.c = o.c /\ e.secret = o.secret
                      /\ EncapsulationKeyToBytes(e.ek)
                           = EncapsulationKeyToBytes(o.dk.ek)
  BY DEF RejectsEverythingElse
<1>1. /\ o.dk \in DecapsulationKeys /\ o.c \in Ciphertexts
      /\ o.secret = Decapsulate(o.dk, o.c)
      /\ Fresh(o.dk.ek) /\ o.dk.h_ek = o.dk.ek.h_ek
  BY DEF IInv, TypeOK, HistoryFaithful
<1>2. PICK m \in Messages :
        /\ o.c = Encrypt(o.dk.ek.ek_pke, m, SharedR(m, o.dk.h_ek))
        /\ o.secret = SharedK(m, o.dk.h_ek)
  BY <1>1, AcceptedReencrypts
<1>3. o.c.noise = "none" /\ o.c.m = m /\ o.c.r = SharedR(m, o.dk.h_ek)
  BY <1>2 DEF Encrypt
<1>4. PICK e \in sent : e.c = o.c
  BY <1>3 DEF IInv, UntouchedWasSent
<1>5. /\ Fresh(e.ek) /\ e.c = EncapsulateDerand(e.ek, e.m)
      /\ e.secret = SharedK(e.m, e.ek.h_ek)
  BY DEF IInv, HistoryFaithful
<1>6. e.m = m /\ SharedR(m, e.ek.h_ek) = SharedR(m, o.dk.h_ek)
  BY <1>3, <1>4, <1>5 DEF EncapsulateDerand, Encrypt
<1>7. e.ek.h_ek = o.dk.h_ek
  BY <1>6 DEF SharedR
<1>8. e.secret = o.secret
  BY <1>2, <1>5, <1>6, <1>7
<1>9. EncapsulationKeyToBytes(e.ek) = EncapsulationKeyToBytes(o.dk.ek)
  BY <1>1, <1>5, <1>7 DEF Fresh, H
<1> QED BY <1>4, <1>8, <1>9

\* The caches of every live key are fresh in every reachable state.
THEOREM CachesAlwaysFresh == Spec => []CachesFresh
BY IndInvCorrect, PTL DEF IInv

\* Encapsulator and matching holder always agree, whatever happened to the
\* serialized keys and ciphertexts in between.
THEOREM AgreementHolds == Spec => []Agreement
BY IndInvCorrect, IInvAgreement, PTL

\* Only a ciphertext that was encapsulated to this very key is ever accepted.
THEOREM RejectionHolds == Spec => []RejectsEverythingElse
BY IndInvCorrect, IInvRejects, PTL

-----------------------------------------------------------------------------
(* What parsing keeps.                                                     *)

LEMMA IInvReloads == IInv => ReloadsItself
<1> SUFFICES ASSUME IInv PROVE ReloadsItself
  OBVIOUS
<1> USE DEF IInv, TypeOK, CachesFresh
<1>1. ASSUME NEW e \in EncryptionKeys, e.a_hat_transpose = e.rho
      PROVE  EncryptionKeyFromBytes(EncryptionKeyToBytes(e)) = e
  BY <1>1 DEF EncryptionKeyFromBytes, EncryptionKeyToBytes, ByteDecode12,
              ByteEncode12, EncryptionKeys
<1>2. ASSUME NEW key \in EncapsulationKeys, Fresh(key)
      PROVE  EncapsulationKeyFrom(EncryptionKeyFromBytes(
               EncapsulationKeyToBytes(key))) = key
  <2>1. /\ key.ek_pke \in EncryptionKeys
        /\ key.ek_pke.a_hat_transpose = key.ek_pke.rho
        /\ key.h_ek = H(EncryptionKeyToBytes(key.ek_pke))
    BY <1>2 DEF EncapsulationKeys, Fresh, EncapsulationKeyToBytes
  <2>2. EncapsulationKeyFrom(key.ek_pke) = key
    BY <2>1 DEF EncapsulationKeyFrom, EncapsulationKeys
  <2> QED BY <1>1, <2>1, <2>2 DEF EncapsulationKeyToBytes
<1>3. ASSUME ek # None
      PROVE  LET b == EncapsulationKeyToBytes(ek) IN
             /\ EncapsulationKeyAnswer(b) = "Ok"
             /\ EncapsulationKeyFrom(EncryptionKeyFromBytes(b)) = ek
  <2>1. /\ ek.ek_pke \in EncryptionKeys
        /\ ek.ek_pke.a_hat_transpose = ek.ek_pke.rho
    BY <1>3 DEF EncapsulationKeys, Fresh
  <2>2. EncapsulationKeyToBytes(ek).sized
    BY DEF EncapsulationKeyToBytes, EncryptionKeyToBytes
  <2>3. EncapsulationKeyAnswer(EncapsulationKeyToBytes(ek)) = "Ok"
    BY <1>1, <2>1, <2>2 DEF EncapsulationKeyAnswer, EncapsulationKeyToBytes
  <2> QED BY <1>2, <1>3, <2>3
<1>4. ASSUME dk # None
      PROVE  LET b == DecapsulationKeyToBytes(dk) IN
             /\ DecapsulationKeyAnswer(b) = "Ok"
             /\ DecapsulationKeyParsed(b) = dk
  <2> DEFINE b == DecapsulationKeyToBytes(dk)
  <2>1. /\ dk \in DecapsulationKeys /\ dk.ek \in EncapsulationKeys
        /\ Fresh(dk.ek) /\ dk.h_ek = dk.ek.h_ek
    BY <1>4 DEF DecapsulationKeys
  <2>2. /\ b.sized /\ b.h = dk.h_ek /\ b.z = dk.z
        /\ b.ek = EncapsulationKeyToBytes(dk.ek)
        /\ ByteDecode12(b.s) = dk.dk_pke
    BY DEF DecapsulationKeyToBytes, EncapsulationKeyToBytes, ByteDecode12,
           ByteEncode12
  <2> HIDE DEF b
  <2>3. DecapsulationKeyParsed(b) =
          [dk_pke |-> dk.dk_pke, ek |-> dk.ek, h_ek |-> dk.h_ek, z |-> dk.z]
    BY <1>2, <2>1, <2>2 DEF DecapsulationKeyParsed
  <2>4. DecapsulationKeyParsed(b) = dk
    BY <2>1, <2>3 DEF DecapsulationKeys
  <2>5. DecapsulationKeyAnswer(b) = "Ok"
    BY <2>1, <2>2, <2>4 DEF DecapsulationKeyAnswer
  <2> QED BY <2>4, <2>5 DEF b
<1> QED BY <1>3, <1>4 DEF ReloadsItself

\* Any live key survives to_bytes and from_bytes unchanged.
THEOREM ReloadHolds == Spec => []ReloadsItself
BY IndInvCorrect, IInvReloads, PTL

LEMMA NextPeerHashes ==
  ASSUME PeerHashesWhatItReceived, TypeOK, [Next]_vars
  PROVE  PeerHashesWhatItReceived'
<1> USE DEF PeerHashesWhatItReceived
<1>1. CASE ImportEk
  <2>1. CASE verdict' = "Ok"
    <3>1. /\ ek' = EncapsulationKeyFrom(EncryptionKeyFromBytes(bytes.ek))
          /\ origin'.ek = bytes.ek
      BY <1>1, <2>1 DEF ImportEk, TypeOK
    <3>2. EncryptionKeyToBytes(EncryptionKeyFromBytes(bytes.ek)) = bytes.ek
      BY <1>1, <2>1 DEF ImportEk, EncapsulationKeyAnswer
    <3> QED
      BY <3>1, <3>2 DEF EncapsulationKeyFrom, EncapsulationKeyToBytes
  <2>2. CASE verdict' # "Ok"
    BY <1>1, <2>2 DEF ImportEk, EncapsulationKeyToBytes
  <2> QED BY <2>1, <2>2
<1>2. CASE ShareKey
  BY <1>2 DEF ShareKey, TypeOK
<1>3. CASE ek' = ek /\ origin'.ek = origin.ek
  BY <1>3 DEF EncapsulationKeyToBytes
<1>4. ASSUME NEW d \in Seeds, NEW z \in RejectionSeeds, Generate(d, z)
      PROVE  PeerHashesWhatItReceived'
  BY <1>3, <1>4 DEF Generate, TypeOK
<1>5. CASE ImportDk
  BY <1>3, <1>5 DEF ImportDk, TypeOK
<1> QED
  BY <1>1, <1>2, <1>3, <1>4, <1>5
  DEF Next, vars, ExportEk, ExportDk, Encapsulate, ReceiveCiphertext, Alter

\* The modulus check makes the parsed key the only reading of its bytes.
THEOREM PeerHashHolds == Spec => []PeerHashesWhatItReceived
<1>1. Init => PeerHashesWhatItReceived
  BY DEF Init, PeerHashesWhatItReceived
<1>2. PeerHashesWhatItReceived /\ TypeOK /\ [Next]_vars
        => PeerHashesWhatItReceived'
  BY NextPeerHashes
<1> QED BY <1>1, <1>2, TypeCorrect, PTL DEF Spec

-----------------------------------------------------------------------------
(* MlKem implements IdealKem.                                              *)

\* Two encapsulations share a secret only if they are the same one.
LEMMA SecretsIdentify ==
  ASSUME NEW e, NEW f, Fresh(e.ek), Fresh(f.ek),
         e.c = EncapsulateDerand(e.ek, e.m), e.secret = SharedK(e.m, e.ek.h_ek),
         f.c = EncapsulateDerand(f.ek, f.m), f.secret = SharedK(f.m, f.ek.h_ek)
  PROVE  (EncapsulationKeyToBytes(e.ek) = EncapsulationKeyToBytes(f.ek)
            /\ e.c = f.c) <=> e.secret = f.secret
<1>1. ASSUME EncapsulationKeyToBytes(e.ek) = EncapsulationKeyToBytes(f.ek),
             e.c = f.c
      PROVE  e.secret = f.secret
  <2>1. e.m = f.m  BY <1>1 DEF EncapsulateDerand, Encrypt
  <2>2. e.ek.h_ek = f.ek.h_ek  BY <1>1 DEF Fresh
  <2> QED BY <2>1, <2>2
<1>2. ASSUME e.secret = f.secret
      PROVE  /\ EncapsulationKeyToBytes(e.ek) = EncapsulationKeyToBytes(f.ek)
             /\ e.c = f.c
  <2>1. e.m = f.m /\ e.ek.h_ek = f.ek.h_ek
    BY <1>2 DEF SharedK
  <2>2. EncapsulationKeyToBytes(e.ek) = EncapsulationKeyToBytes(f.ek)
    BY <2>1 DEF Fresh, H
  <2>3. /\ e.ek.ek_pke.t_hat = f.ek.ek_pke.t_hat
        /\ e.ek.ek_pke.a_hat_transpose = f.ek.ek_pke.a_hat_transpose
    BY <2>2 DEF EncapsulationKeyToBytes, EncryptionKeyToBytes, ByteEncode12,
                Fresh
  <2>4. e.c = f.c
    BY <2>1, <2>3 DEF EncapsulateDerand, Encrypt
  <2> QED BY <2>2, <2>4
<1> QED BY <1>1, <1>2

LEMMA EncapsulateIssues ==
  ASSUME IInv, IInv', NEW m \in Messages, Encapsulate(m)
  PROVE  Ideal!Next
<1> DEFINE e == [ek |-> ek, m |-> m, c |-> EncapsulateDerand(ek, m),
                 secret |-> SharedK(m, ek.h_ek)]
           i == IssuedRecord(e)
<1>1. sent' = sent \cup {e} /\ opened' = opened
  BY DEF Encapsulate
<1>2. Fresh(ek)
  BY DEF IInv, CachesFresh, Encapsulate
<1>3. \A f \in sent :
        /\ Fresh(f.ek) /\ f.c = EncapsulateDerand(f.ek, f.m)
        /\ f.secret = SharedK(f.m, f.ek.h_ek)
  BY DEF IInv, HistoryFaithful
<1>4. \A f \in Issued : (f.key = i.key /\ f.c = i.c) <=> f.secret = i.secret
  <2> SUFFICES ASSUME NEW f \in sent
               PROVE  (EncapsulationKeyToBytes(f.ek) = EncapsulationKeyToBytes(e.ek)
                        /\ f.c = e.c) <=> f.secret = e.secret
    BY DEF Issued, IssuedRecord
  <2> QED BY <1>2, <1>3, SecretsIdentify
<1>5. \A a \in Answered :
        a.own /\ a.key = i.key /\ a.c = i.c => a.secret = i.secret
  <2> SUFFICES ASSUME NEW o \in opened, OwnsItsKey(o.dk), o.c = e.c,
                      EncapsulationKeyToBytes(o.dk.ek) = EncapsulationKeyToBytes(e.ek)
               PROVE  o.secret = e.secret
    BY DEF Answered, AnsweredRecord, IssuedRecord
  <2>1. /\ o.dk \in DecapsulationKeys /\ Fresh(o.dk.ek)
        /\ o.dk.h_ek = o.dk.ek.h_ek /\ o.secret = Decapsulate(o.dk, o.c)
        /\ ek \in EncapsulationKeys
    BY DEF IInv, TypeOK, HistoryFaithful, Encapsulate
  <2> QED BY <1>2, <2>1, MatchingSecret
<1>6. Issued' = Issued \cup {i} /\ Answered' = Answered
  BY <1>1 DEF Issued, IssuedRecord, Answered, AnsweredRecord,
              EncapsulationKeyToBytes, OwnsItsKey
<1>7. i = [key |-> i.key, c |-> i.c, secret |-> i.secret]
  BY DEF IssuedRecord
<1> HIDE DEF e, i
<1>8. Ideal!Issue(i.key, i.c, i.secret)
  BY <1>4, <1>5, <1>6, <1>7
  DEF Ideal!Issue
<1>9. i \in Issued'
  BY <1>6
<1> QED BY <1>8, <1>9 DEF Ideal!Next

LEMMA DecapsulateAnswers ==
  ASSUME IInv, IInv', ReceiveCiphertext, opened' # opened
  PROVE  Ideal!Next
<1> DEFINE o == [dk |-> dk, c |-> bytes.ct.c,
                 secret |-> Decapsulate(dk, bytes.ct.c)]
           a == AnsweredRecord(o)
<1>1. sent' = sent /\ opened' = opened \cup {o}
  BY DEF ReceiveCiphertext
<1>2. o \in opened'
  BY <1>1
<1>3. Agreement' /\ RejectsEverythingElse'
  BY IInvAgreement, IInvRejects, PTL
<1>4. \/ o.secret = J(o.dk.z, o.c)
      \/ \E e \in sent :
           /\ e.c = o.c /\ e.secret = o.secret
           /\ EncapsulationKeyToBytes(e.ek) = EncapsulationKeyToBytes(o.dk.ek)
  BY <1>1, <1>2, <1>3 DEF RejectsEverythingElse, EncapsulationKeyToBytes
<1>5. \A e \in sent :
        /\ e.c = o.c
        /\ EncapsulationKeyToBytes(e.ek) = EncapsulationKeyToBytes(o.dk.ek)
        /\ OwnsItsKey(o.dk)
        => o.secret = e.secret
  BY <1>1, <1>2, <1>3 DEF Agreement, EncapsulationKeyToBytes, OwnsItsKey
<1>6. \/ \E i \in Issued : i.key = a.key /\ i.c = a.c /\ a.secret = i.secret
      \/ /\ ~ (a.own /\ \E i \in Issued : i.key = a.key /\ i.c = a.c)
         /\ a.secret = J(a.z, a.c)
  <2>1. /\ a.own = OwnsItsKey(o.dk) /\ a.z = o.dk.z /\ a.c = o.c
        /\ a.key = EncapsulationKeyToBytes(o.dk.ek) /\ a.secret = o.secret
    BY DEF AnsweredRecord
  <2>2. \A e \in sent : IssuedRecord(e) \in Issued
    BY DEF Issued
  <2>3. ASSUME NEW i \in Issued
        PROVE  \E e \in sent :
                 /\ i.key = EncapsulationKeyToBytes(e.ek)
                 /\ i.c = e.c /\ i.secret = e.secret
    BY DEF Issued, IssuedRecord
  <2> HIDE DEF o, a
  <2>4. CASE \E e \in sent :
               /\ e.c = o.c /\ e.secret = o.secret
               /\ EncapsulationKeyToBytes(e.ek) = EncapsulationKeyToBytes(o.dk.ek)
    BY <2>1, <2>2, <2>4 DEF IssuedRecord
  <2>5. CASE /\ o.secret = J(o.dk.z, o.c)
             /\ ~ \E e \in sent :
                    /\ e.c = o.c /\ e.secret = o.secret
                    /\ EncapsulationKeyToBytes(e.ek)
                         = EncapsulationKeyToBytes(o.dk.ek)
    <3>1. ASSUME a.own, NEW i \in Issued, i.key = a.key, i.c = a.c
          PROVE  FALSE
      <4>1. PICK e \in sent : /\ i.key = EncapsulationKeyToBytes(e.ek)
                              /\ i.c = e.c /\ i.secret = e.secret
        BY <2>3
      <4>2. OwnsItsKey(o.dk)  BY <2>1, <3>1
      <4> QED BY <1>5, <2>1, <2>5, <3>1, <4>1, <4>2
    <3> QED BY <2>1, <2>5, <3>1
  <2> QED BY <1>4, <2>4, <2>5
<1>7. Answered' = Answered \cup {a} /\ Issued' = Issued
  BY <1>1 DEF Issued, IssuedRecord, Answered, AnsweredRecord,
              EncapsulationKeyToBytes, OwnsItsKey
<1>8. a = [own |-> a.own, key |-> a.key, z |-> a.z, c |-> a.c,
           secret |-> a.secret]
  BY DEF AnsweredRecord
<1> HIDE DEF o, a
<1>9. Ideal!Answer(a.own, a.key, a.z, a.c, a.secret)
  BY <1>6, <1>7, <1>8
  DEF Ideal!Answer, Ideal!IssuedFor
<1>10. a \in Answered'
  BY <1>7
<1> QED BY <1>9, <1>10 DEF Ideal!Next

LEMMA OtherStepsStutter ==
  ASSUME sent' = sent, opened' = opened
  PROVE  UNCHANGED Ideal!vars
BY DEF Ideal!vars, Issued, Answered, IssuedRecord, AnsweredRecord,
       EncapsulationKeyToBytes, OwnsItsKey

\* Every behaviour of the API is a behaviour of the ideal mechanism.
THEOREM Refinement == Spec => ImplementsIdealKem
<1>1. Init => Ideal!Init
  BY DEF Init, Ideal!Init, Issued, Answered
<1>2. IInv /\ IInv' /\ [Next]_vars => [Ideal!Next]_(Ideal!vars)
  <2> SUFFICES ASSUME IInv, IInv', [Next]_vars
               PROVE  [Ideal!Next]_(Ideal!vars)
    OBVIOUS
  <2>1. ASSUME NEW m \in Messages, Encapsulate(m)
        PROVE  Ideal!Next
    BY <2>1, EncapsulateIssues
  <2>2. CASE ReceiveCiphertext /\ opened' # opened
    BY <2>2, DecapsulateAnswers
  <2>3. CASE sent' = sent /\ opened' = opened
    BY <2>3, OtherStepsStutter
  <2>4. ReceiveCiphertext => sent' = sent
    BY DEF ReceiveCiphertext
  <2> QED
    BY <2>1, <2>2, <2>3, <2>4
    DEF Next, vars, Generate, ShareKey, ExportEk, ExportDk, ImportEk, ImportDk,
        Alter
<1> QED
  BY <1>1, <1>2, IndInvCorrect, PTL DEF Spec, ImplementsIdealKem, Ideal!Spec
=============================================================================
