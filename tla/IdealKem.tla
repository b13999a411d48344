------------------------------ MODULE IdealKem ------------------------------
(***************************************************************************)
(* What a key-encapsulation mechanism with implicit rejection promises,    *)
(* whatever its arithmetic: a table of the secrets issued, looked up by    *)
(* encapsulation key and ciphertext.  A holder asked about a ciphertext    *)
(* answers with the secret issued for it, or with the rejection secret of  *)
(* its own seed and that ciphertext; a holder of the matching secret key   *)
(* may only do the latter for a ciphertext nobody was issued.              *)
(***************************************************************************)
CONSTANT Rejection(_, _) \* the rejection secret of a seed and a ciphertext

VARIABLES
  issued,   \* [key, c, secret]: encapsulations
  answered  \* [own, key, z, c, secret]: decapsulations; own: the holder's
            \* secret opens key

vars == <<issued, answered>>

IssuedFor(key, c) == {i \in issued : i.key = key /\ i.c = c}

Init == issued = {} /\ answered = {}

\* Encapsulation: the ciphertext and the secret determine each other, and no
\* matching holder has already rejected this ciphertext.
Issue(key, c, secret) ==
  /\ \A i \in issued :
       (i.key = key /\ i.c = c) <=> i.secret = secret
  /\ \A a \in answered :
       a.own /\ a.key = key /\ a.c = c => a.secret = secret
  /\ issued' = issued \cup {[key |-> key, c |-> c, secret |-> secret]}
  /\ UNCHANGED answered

\* Decapsulation of c by a holder of (own, key, z).
Answer(own, key, z, c, secret) ==
  /\ \/ \E i \in IssuedFor(key, c) : secret = i.secret
     \/ /\ ~ (own /\ IssuedFor(key, c) # {})
        /\ secret = Rejection(z, c)
  /\ answered' = answered \cup {[own |-> own, key |-> key, z |-> z, c |-> c,
                                 secret |-> secret]}
  /\ UNCHANGED issued

\* The step is named by the record it adds.
Next ==
  \/ \E i \in issued' : Issue(i.key, i.c, i.secret)
  \/ \E a \in answered' : Answer(a.own, a.key, a.z, a.c, a.secret)

Spec == Init /\ [][Next]_vars
=============================================================================
