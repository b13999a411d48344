------------------------------ MODULE NeonAsm ------------------------------
(***************************************************************************)
(* The software-pipelined assembly of src/src/algebraic/poly/arch/neon.rs, *)
(* which build.rs selects for Apple targets: the strides 128 and 64 of the *)
(* forward transform.                                                      *)
(*                                                                         *)
(* Registers and memory hold terms over the vectors that the memory held   *)
(* at first, so that one run stands for every input.  The memory is the 32 *)
(* vectors of an element; an offset of a load or store is in bytes, and    *)
(* "stp post" stores at ptr and moves it on by two vectors.  The third     *)
(* operand is v28 for "mul", v29 for "sqrdmulh" and v30 for "mls": the     *)
(* zeta, its multiplier and q, which a prologue broadcasts.                *)
(***************************************************************************)
EXTENDS Integers, SequencesExt

Vectors == 0 .. 31
In(n) == <<"in", n>>

\* ntt_stride128_asm
Stride128Preamble == <<
  <<"ldp", 16, 17, 288>>, <<"ldp", 4, 25, 256>>, <<"mul", 21, 4>>, <<"sqrdmulh", 23, 25>>,
  <<"sqrdmulh", 0, 4>>, <<"mul", 26, 25>>, <<"mls", 26, 23>>, <<"mls", 21, 0>>,
  <<"ldp", 0, 25, 0>>>>

\* Mutant: the next load of the upper half comes before the product of the last.
Stride128BodyLoadsEarly == <<
  <<"ldp", 16, 17, 320>>, <<"sqrdmulh", 23, 17>>, <<"sub", 18, 25, 26>>, <<"add", 4, 25, 26>>,
  <<"mul", 26, 17>>, <<"sqrdmulh", 2, 16>>, <<"sub", 5, 0, 21>>, <<"add", 22, 0, 21>>,
  <<"mul", 21, 16>>, <<"ldp", 0, 25, 32>>, <<"mls", 26, 23>>, <<"mls", 21, 2>>,
  <<"stp", 5, 18, 256>>, <<"stp post", 22, 4>>>>

Stride128Body == <<
  <<"sqrdmulh", 23, 17>>, <<"sub", 18, 25, 26>>, <<"add", 4, 25, 26>>, <<"mul", 26, 17>>,
  <<"sqrdmulh", 2, 16>>, <<"sub", 5, 0, 21>>, <<"add", 22, 0, 21>>, <<"mul", 21, 16>>,
  <<"ldp", 16, 17, 320>>, <<"ldp", 0, 25, 32>>, <<"mls", 26, 23>>, <<"mls", 21, 2>>,
  <<"stp", 5, 18, 256>>, <<"stp post", 22, 4>>>>

Stride128Postamble == <<
  <<"sqrdmulh", 18, 17>>, <<"mul", 23, 17>>, <<"sqrdmulh", 19, 16>>, <<"mul", 17, 16>>,
  <<"sub", 7, 0, 21>>, <<"add", 21, 0, 21>>, <<"ldp", 0, 27, 32>>, <<"sub", 24, 25, 26>>,
  <<"mls", 23, 18>>, <<"mls", 17, 19>>, <<"add", 3, 25, 26>>, <<"stp", 7, 24, 256>>,
  <<"stp post", 21, 3>>, <<"sub", 6, 27, 23>>, <<"add", 1, 27, 23>>, <<"add", 20, 0, 17>>,
  <<"sub", 0, 0, 17>>, <<"stp", 0, 6, 256>>, <<"stp post", 20, 1>>>>

\* ntt_stride64_group_asm
Stride64Preamble == <<
  <<"ldp", 6, 27, 0>>, <<"ldp", 19, 3, 128>>, <<"sqrdmulh", 7, 3>>, <<"sqrdmulh", 4, 19>>,
  <<"mul", 18, 3>>, <<"mul", 24, 19>>, <<"mls", 24, 4>>, <<"ldp", 19, 4, 160>>,
  <<"mls", 18, 7>>>>

Stride64Body == <<
  <<"add", 1, 27, 18>>, <<"sub", 22, 27, 18>>, <<"mul", 18, 4>>, <<"sqrdmulh", 7, 4>>,
  <<"add", 21, 6, 24>>, <<"sub", 17, 6, 24>>, <<"ldp", 6, 27, 32>>, <<"mul", 24, 19>>,
  <<"sqrdmulh", 3, 19>>, <<"ldp", 19, 4, 192>>, <<"stp", 17, 22, 128>>, <<"mls", 18, 7>>,
  <<"mls", 24, 3>>, <<"stp post", 21, 1>>>>

Stride64Postamble == <<
  <<"mul", 7, 4>>, <<"sqrdmulh", 26, 4>>, <<"ldp", 17, 23, 32>>, <<"mul", 4, 19>>,
  <<"sqrdmulh", 20, 19>>, <<"add", 22, 27, 18>>, <<"sub", 2, 27, 18>>, <<"add", 3, 6, 24>>,
  <<"mls", 7, 26>>, <<"mls", 4, 20>>, <<"sub", 0, 6, 24>>, <<"stp post", 3, 22>>,
  <<"stp", 0, 2, 96>>, <<"add", 16, 23, 7>>, <<"sub", 5, 23, 7>>, <<"add", 25, 17, 4>>,
  <<"sub", 6, 17, 4>>, <<"stp", 6, 5, 128>>, <<"stp post", 25, 16>>>>

-----------------------------------------------------------------------------
\* The body runs for the count of x9, less the two passes that the preamble starts.
Pipeline(preamble, body, count, postamble) ==
  preamble \o FlattenSeq([n \in 1 .. count - 2 |-> body]) \o postamble

Stride128 == Pipeline(Stride128Preamble, Stride128Body, 8, Stride128Postamble)
Stride64 == Pipeline(Stride64Preamble, Stride64Body, 4, Stride64Postamble)

\* The calls of ntt: the program, the vector at ptr, how many it may touch and
\* the index of its zeta.
Calls == <<[program |-> Stride128, ptr |-> 0, size |-> 32, zeta |-> 1],
           [program |-> Stride64, ptr |-> 0, size |-> 16, zeta |-> 2],
           [program |-> Stride64, ptr |-> 16, size |-> 16, zeta |-> 3]>>

\* Where a call begins; a register holds nothing of its own before a load.
Entered(call, mem) ==
  [call |-> call, pc |-> 1, ptr |-> Calls[call].ptr, mem |-> mem,
   reg |-> [r \in 0 .. 30 |-> <<"unset">>], stores |-> [n \in Vectors |-> 0]]

Stored(m, n, x, y) ==
  [m EXCEPT !.mem[n] = x, !.mem[n + 1] = y, !.stores[n] = @ + 1, !.stores[n + 1] = @ + 1]

\* One instruction i on the machine m.
Execute(m, i) ==
  LET r == m.reg
      k == Calls[m.call].zeta
      at(offset) == m.ptr + offset \div 16
      put(x) == [m EXCEPT !.reg[i[2]] = x]
      effect ==
        CASE i[1] = "ldp" ->
               [m EXCEPT !.reg[i[2]] = m.mem[at(i[4])], !.reg[i[3]] = m.mem[at(i[4]) + 1]]
          [] i[1] = "stp" -> Stored(m, at(i[4]), r[i[2]], r[i[3]])
          [] i[1] = "stp post" -> [Stored(m, m.ptr, r[i[2]], r[i[3]]) EXCEPT !.ptr = @ + 2]
          [] i[1] \in {"mul", "sqrdmulh"} -> put(<<i[1], r[i[3]], k>>)
          [] i[1] = "mls" -> put(<<"mls", r[i[2]], r[i[3]]>>)
          [] i[1] \in {"add", "sub"} -> put(<<i[1], r[i[3]], r[i[4]]>>)
  IN [effect EXCEPT !.pc = @ + 1]

Finished(m) == m.pc > Len(Calls[m.call].program)

-----------------------------------------------------------------------------
\* What the stages are to compute.
ProductTerm(x, k) == <<"mls", <<"mul", x, k>>, <<"sqrdmulh", x, k>>>>

After128 ==
  [n \in Vectors |-> IF n < 16 THEN <<"add", In(n), ProductTerm(In(n + 16), 1)>>
                     ELSE <<"sub", In(n - 16), ProductTerm(In(n), 1)>>]

After64 ==
  [n \in Vectors |->
    LET k == 2 + n \div 16
    IN IF n % 16 < 8 THEN <<"add", After128[n], ProductTerm(After128[n + 8], k)>>
       ELSE <<"sub", After128[n - 8], ProductTerm(After128[n], k)>>]

\* The vectors that a call owns.
Owned(call) == Calls[call].ptr .. Calls[call].ptr + Calls[call].size - 1
=============================================================================
