------------------------------ MODULE RingPke ------------------------------
(***************************************************************************)
(* K-PKE (src/src/PKE.rs) over symbolic ring elements: what is added to    *)
(* and multiplied with what, under which power of the Montgomery radix R,  *)
(* from which noise stream, and how large the coefficients may become.     *)
(*                                                                         *)
(* A polynomial has integer coefficients over monomials, a monomial is a   *)
(* set of atoms (matrix entries, noise polynomials, the message, rounding  *)
(* errors) with a power r of R.  NTT and inverse change no monomial, apart *)
(* from the power of R: the runs over NttRun show that.                    *)
(***************************************************************************)
EXTENDS Integers, FiniteSets, FiniteSetsExt, Functions, Sequences

CONSTANTS
  ParameterSets, \* a subset of the three that the crate defines
  KeySeeds,      \* the key-generation seeds d
  Coins,         \* the encryption randomness r
  Messages,
  None           \* no key, no ciphertext

Q == 3329

\* src/src/parameters.rs
MLKEM512 == [k |-> 2, eta1 |-> 3, eta2 |-> 2, du |-> 10, dv |-> 4]
MLKEM768 == [k |-> 3, eta1 |-> 2, eta2 |-> 2, du |-> 10, dv |-> 4]
MLKEM1024 == [k |-> 4, eta1 |-> 2, eta2 |-> 2, du |-> 11, dv |-> 5]

ASSUME PkeAssumption ==
  /\ ParameterSets \in SUBSET {MLKEM512, MLKEM768, MLKEM1024}
  /\ KeySeeds \cap Coins = {}

VARIABLES
  p,         \* the parameter set
  published, \* the encryption key last generated
  ek,        \* the one that the sender has
  dk,        \* the decryption key
  owner,     \* the seed that dk was generated from
  ct,        \* the ciphertext, with what went into it
  w,         \* what decrypt computed, and from which ciphertext
  drawn      \* the noise streams drawn: seed, stream, eta and what for

pkeVars == <<p, published, ek, dk, owner, ct, w, drawn>>

Indices == 0 .. p.k - 1

-----------------------------------------------------------------------------
\* Polynomials.
Zero == [m \in {} |-> 0]
Coefficient(f, m) == IF m \in DOMAIN f THEN f[m] ELSE 0

\* The sum of two polynomials, and their product times R^-1.
Plus(f, g) ==
  LET sum == [m \in DOMAIN f \cup DOMAIN g |-> Coefficient(f, m) + Coefficient(g, m)]
  IN Restrict(sum, {m \in DOMAIN sum : sum[m] # 0})

Minus(f) == [m \in DOMAIN f |-> -f[m]]

Joined(m, n) == [atoms |-> m.atoms \cup n.atoms, r |-> m.r + n.r - 1]
ProductsOf(f, g, pairs) == MapThenSumSet(LAMBDA mn : f[mn[1]] * g[mn[2]], pairs)
Times(f, g) ==
  LET pairs == (DOMAIN f) \X (DOMAIN g)
      like(x) == {mn \in pairs : Joined(mn[1], mn[2]) = x}
  IN [x \in {Joined(mn[1], mn[2]) : mn \in pairs} |-> ProductsOf(f, g, like(x))]

Raised(m, e) == [m EXCEPT !.r = m.r + e]
Shifted(f) == [m \in {Raised(n, 1) : n \in DOMAIN f} |-> f[Raised(m, -1)]]

\* An element: its polynomial, the magnitude its coefficients may have, and
\* whether every operation behind it was given operands it can take.
Monomial(atoms) == [atoms |-> atoms, r |-> 0]
Atom(a, bound) == [f |-> [m \in {Monomial({a})} |-> 1], b |-> bound, fits |-> TRUE]

\* The magnitude of the reduction of a product sum.
Reach(sum) == (sum + Q * 32768) \div 65536

Add(x, y) ==
  [f |-> Plus(x.f, y.f), b |-> x.b + y.b, fits |-> x.fits /\ y.fits /\ x.b + y.b <= 32767]
Sub(x, y) ==
  [f |-> Plus(x.f, Minus(y.f)), b |-> x.b + y.b, fits |-> x.fits /\ y.fits /\ x.b + y.b <= 32767]

\* Mutant: ntt without the reductions of its final pass.
NttBoundLazy == 18293
NttBound == 1664

\* RqElement::ntt, whose bounds are of coefficients up to q - 1.
Ntt(x) == [f |-> x.f, b |-> NttBound, fits |-> x.fits /\ x.b < Q]

\* TqElement::ntt_inverse.
NttInverse(x) == [f |-> Shifted(x.f), b |-> Q - 1, fits |-> x.fits /\ x.b <= 16383]

ToMontgomery(x) == [f |-> Shifted(x.f), b |-> Reach(1353 * x.b), fits |-> x.fits]

\* accumulated_dot: the raw products of up to four components are summed.
GAMMA_BOUND == Reach(1353 * (Q - 1))
DotSum(x, y) == 2 * x.b * (IF y.b < Reach(y.b * GAMMA_BOUND) THEN Reach(y.b * GAMMA_BOUND) ELSE y.b)
RawSum(xs, ys) ==
  LET sum[n \in 0 .. p.k] == IF n = 0 THEN 0 ELSE sum[n - 1] + DotSum(xs[n - 1], ys[n - 1])
  IN sum[p.k]
RawDot(xs, ys) ==
  LET dot[n \in 0 .. p.k] ==
        IF n = 0 THEN Zero ELSE Plus(dot[n - 1], Times(xs[n - 1].f, ys[n - 1].f))
  IN dot[p.k]
AccumulatedDot(xs, ys) ==
  [f |-> RawDot(xs, ys),
   b |-> Reach(RawSum(xs, ys)),
   fits |-> /\ RawSum(xs, ys) <= 12 * Q * Q
            /\ \A j \in Indices : /\ xs[j].fits /\ ys[j].fits
                                  /\ 2 * xs[j].b <= 3 * Q /\ 2 * ys[j].b <= 3 * Q]

-----------------------------------------------------------------------------
\* TqMatrix::expand and transpose.
MatrixEntry(rho, i, j) == Atom(<<"A", rho, i, j>>, Q - 1)
Expand(rho) == [i \in Indices |-> [j \in Indices |-> MatrixEntry(rho, i, j)]]
Transpose(a) == [j \in Indices |-> [i \in Indices |-> a[i][j]]]

\* Mutant: the seed is wiped before it is used.
NoiseOfWipedSeed(seed, stream, eta) == Atom(<<"noise", None, stream, eta>>, eta)
\* A polynomial of the centred binomial distribution.
Noise(seed, stream, eta) == Atom(<<"noise", seed, stream, eta>>, eta)
NoiseVector(seed, first, eta) == [j \in Indices |-> Noise(seed, first + j, eta)]
Drawn(seed, first, count, eta, use) ==
  {[seed |-> seed, stream |-> first + j, eta |-> eta, use |-> <<use, j>>] : j \in 0 .. count - 1}

\* Mutant: e1 is drawn from the streams of y.
ErrorStreamReused == 0
\* The first noise stream of e1 in encrypt.
ErrorStream == p.k

\* Mutant: the matrix of key generation is cached as it is.
CachedMatrixPlain(a) == a
CachedMatrix(a) == Transpose(a)

\* new_derand
KeyPair(d) ==
  LET a_hat == Expand(d)
      s_hat == [j \in Indices |-> Ntt(NoiseVector(d, 0, p.eta1)[j])]
      e_hat == [j \in Indices |-> Ntt(NoiseVector(d, p.k, p.eta1)[j])]
  IN [dk_pke |-> s_hat,
      ek_pke |-> [t_hat |-> [i \in Indices |-> Add(ToMontgomery(AccumulatedDot(a_hat[i], s_hat)), e_hat[i])],
                  rho |-> d,
                  a_hat_transpose |-> CachedMatrix(a_hat)]]

-----------------------------------------------------------------------------
\* Bytes, 32 at a time: each unit is a piece of the packing of one value.
Units(value, size) == [o \in 1 .. size |-> <<value, o>>]
Vector(values, size) ==
  [o \in 1 .. p.k * size |-> <<values[(o - 1) \div size], ((o - 1) % size) + 1>>]

\* The value packed at an offset, if the units there are all of its packing.
Unpacked(bytes, at, size) ==
  LET units == SubSeq(bytes, at + 1, at + size)
  IN IF units = Units(units[1][1], size) THEN units[1][1] ELSE Atom(<<"torn">>, Q - 1)

\* Coefficients are canonical when they are encoded, hence when decoded.
Canonical(x) == [x EXCEPT !.b = Q - 1]

VectorToBytes(v) == Vector([j \in Indices |-> Canonical(v[j])], 12)
VectorFromBytes(bytes) == [j \in Indices |-> Unpacked(bytes, 12 * j, 12)]

EncryptionKeyToBytes(key) == VectorToBytes(key.t_hat) \o Units(key.rho, 1)
EncryptionKeyFromBytes(bytes) ==
  LET rho == bytes[12 * p.k + 1][1]
  IN [t_hat |-> VectorFromBytes(bytes), rho |-> rho, a_hat_transpose |-> Transpose(Expand(rho))]

\* Compress_d and Decompress_d of an element: it comes back with an error.
Rounded(x, part, m, r) == [Add(x, Atom(<<"round", part, m, r>>, 0)) EXCEPT !.b = Q - 1]

-----------------------------------------------------------------------------
\* encrypt
Encrypted(key, m, r) ==
  LET y_hat == [j \in Indices |-> Ntt(Noise(r, j, p.eta1))]
      e1 == NoiseVector(r, ErrorStream, p.eta2)
      e2 == Noise(r, 2 * p.k, p.eta2)
      u == [i \in Indices |-> Add(NttInverse(AccumulatedDot(key.a_hat_transpose[i], y_hat)), e1[i])]
      v == Add(Add(NttInverse(AccumulatedDot(key.t_hat, y_hat)), e2), Atom(<<"mu", m>>, (Q + 1) \div 2))
  IN Vector([j \in Indices |-> Rounded(u[j], j, m, r)], p.du) \o Units(Rounded(v, p.k, m, r), p.dv)

\* decrypt, up to compress_message.
Decrypted(s_hat, bytes) ==
  LET u == [j \in Indices |-> Unpacked(bytes, p.du * j, p.du)]
      v == Unpacked(bytes, p.du * p.k, p.dv)
  IN Sub(v, NttInverse(AccumulatedDot([j \in Indices |-> Ntt(u[j])], s_hat)))

-----------------------------------------------------------------------------
PkeInit ==
  /\ p \in ParameterSets
  /\ published = None /\ ek = None /\ dk = None /\ owner = None
  /\ ct = None /\ w = None
  /\ drawn = {}

Generate(d) ==
  /\ published' = KeyPair(d).ek_pke
  /\ dk' = KeyPair(d).dk_pke
  /\ owner' = d
  /\ drawn' = drawn \cup Drawn(d, 0, p.k, p.eta1, "s") \cup Drawn(d, p.k, p.k, p.eta1, "e")
  /\ UNCHANGED <<p, ek, ct, w>>

\* The sender takes the key as it is, or parses its bytes.
Share ==
  /\ published # None
  /\ ek' \in {published, EncryptionKeyFromBytes(EncryptionKeyToBytes(published))}
  /\ UNCHANGED <<p, published, dk, owner, ct, w, drawn>>

ReloadDk ==
  /\ dk # None
  /\ dk' = VectorFromBytes(VectorToBytes(dk))
  /\ UNCHANGED <<p, published, ek, owner, ct, w, drawn>>

Encrypt(m, r) ==
  /\ ek # None
  /\ ct' = [bytes |-> Encrypted(ek, m, r), of |-> ek.rho, m |-> m, r |-> r]
  /\ drawn' = drawn \cup Drawn(r, 0, p.k, p.eta1, "y")
                    \cup Drawn(r, ErrorStream, p.k, p.eta2, "e1")
                    \cup Drawn(r, 2 * p.k, 1, p.eta2, "e2")
  /\ UNCHANGED <<p, published, ek, dk, owner, w>>

Decrypt ==
  /\ ct # None /\ dk # None
  /\ w' = [value |-> Decrypted(dk, ct.bytes), by |-> owner, of |-> ct.of, m |-> ct.m, r |-> ct.r]
  /\ UNCHANGED <<p, published, ek, dk, owner, ct, drawn>>

PkeNext ==
  \/ \E d \in KeySeeds : Generate(d)
  \/ Share \/ ReloadDk
  \/ \E m \in Messages, r \in Coins : Encrypt(m, r)
  \/ Decrypt

PkeSpec == PkeInit /\ [][PkeNext]_pkeVars

-----------------------------------------------------------------------------
\* What FIPS 203 counts on for a ciphertext of one's own key: the message,
\* e^T y + e2 - s^T e1 and the rounding errors, and nothing else.
ExpectedNoise(d, m, r) ==
  LET noise(seed, n, eta) == <<"noise", seed, n, eta>>
      round(part) == <<"round", part, m, r>>
      added == {Monomial({<<"mu", m>>}), Monomial({noise(r, 2 * p.k, p.eta2)}), Monomial({round(p.k)})}
        \cup {Monomial({noise(d, p.k + j, p.eta1), noise(r, j, p.eta1)}) : j \in Indices}
      taken == {Monomial({noise(d, j, p.eta1), noise(r, p.k + j, p.eta2)}) : j \in Indices}
        \cup {Monomial({noise(d, j, p.eta1), round(j)}) : j \in Indices}
  IN [x \in added \cup taken |-> IF x \in added THEN 1 ELSE -1]

\* Every matrix entry cancels when a ciphertext is decrypted with the key it
\* was made for, whichever of the two keys had been through bytes: all that is
\* left beside the message is the product of two small polynomials, or one
\* (src/src/PKE.rs:130-154, 200-210, 310-357).
MatrixCancels ==
  w # None /\ w.by = w.of => w.value.f = ExpectedNoise(w.of, w.m, w.r)

\* With another key some matrix entry stays, so nothing of the message is to
\* be read: a stale key never decrypts by accident of the algebra
\* (src/src/PKE.rs:200-210).
ForeignKeyGarbles ==
  w # None /\ w.by # w.of => \E t \in DOMAIN w.value.f : \E a \in t.atoms : a[1] = "A"

\* No two noise polynomials come from one stream of one seed, in key
\* generation nor in encryption, however often either is called with it
\* (src/src/PKE.rs:131-136, 330-335).
StreamsAreSeparate ==
  \A x \in drawn : \A y \in drawn : x.seed = y.seed /\ x.stream = y.stream => x = y

\* The operands of every transform, product and sum are within what these
\* accept: 3q/2 and 12 q^2 for a dot product, 16383 for ntt_inverse, an i16
\* for a sum (src/src/algebraic/poly.rs:246-249, 284-289).
OperandsFit ==
  /\ dk # None => \A j \in Indices : dk[j].fits
  /\ ek # None => \A j \in Indices : ek.t_hat[j].fits
  /\ ct # None => \A n \in DOMAIN ct.bytes : ct.bytes[n][1].fits
  /\ w # None => w.value.fits
=============================================================================
