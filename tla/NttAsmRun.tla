----------------------------- MODULE NttAsmRun -----------------------------
(***************************************************************************)
(* NttRun with the assembly of the "neon_asm" backend, one instruction a   *)
(* step: it runs before the first trip, which takes its result.            *)
(***************************************************************************)
EXTENDS NttRun, NeonAsm

VARIABLE machine

\* The assembly is to run, and has run.
Assembling == backend = "neon_asm" /\ phase = "ntt" /\ layer = 0
Assembled == Finished(machine) /\ machine.call = Len(Calls)

\* The value of a term of the assembly over the vectors v.
RECURSIVE TermValue(_, _)
TermValue(t, v) ==
  LET x == TermValue(t[2], v)
      y == TermValue(t[3], v)
  IN CASE t[1] = "in" -> v[t[2]]
       [] t[1] = "mul" -> N!MulLow(x, N!Broadcast(x, ZETA_RAW[t[3]]))
       [] t[1] = "sqrdmulh" -> N!MulDoubled(x, N!Broadcast(x, BarrettMultiplier(ZETA_RAW[t[3]])))
       [] t[1] = "mls" -> N!MulSubtract(x, y, N!Broadcast(y, Q))
       [] t[1] = "add" -> N!Plus(x, y)
       [] t[1] = "sub" -> N!Minus(x, y)

Init == NttInit /\ machine = Entered(1, [n \in Vectors |-> In(n)])

\* One instruction of ntt_stride128_asm or ntt_stride64_group_asm.
AsmStep ==
  /\ Assembling /\ ~Finished(machine)
  /\ machine' = Execute(machine, Calls[machine.call].program[machine.pc])
  /\ UNCHANGED vars

AsmCall ==
  /\ Assembling /\ Finished(machine) /\ machine.call < Len(Calls)
  /\ machine' = Entered(machine.call + 1, machine.mem)
  /\ UNCHANGED vars

\* The transforms go on once the assembly, where there is one, is done.
Next ==
  \/ AsmStep \/ AsmCall
  \/ (Assembling => Assembled) /\ NttNext /\ UNCHANGED machine

Spec == Init /\ [][Next]_<<vars, machine>>

-----------------------------------------------------------------------------
\* However the instructions of several passes overlap, the assembly leaves the
\* butterflies of its two layers in memory, which are those of the trip that it
\* stands in for, and each of its calls stores every vector of its window once
\* and no other (src/src/algebraic/poly/arch/neon.rs:101-310).
PipelineIsButterflies ==
  Assembling /\ Finished(machine) =>
    /\ machine.call = 1 => machine.mem = After128
    /\ machine.call = Len(Calls) =>
         /\ machine.mem = After64
         /\ N!Flat([n \in Vectors |-> TermValue(machine.mem[n], N!Windows(coeffs, 8))], 8)
              = N!HeadTrip(coeffs)
    /\ \A n \in Vectors : machine.stores[n] = IF n \in Owned(machine.call) THEN 1 ELSE 0
=============================================================================
