------------------------------ MODULE MCCbdRun ------------------------------
(***************************************************************************)
(* Streams with bits of their own, mixed from the stream and the position. *)
(***************************************************************************)
EXTENDS CbdBits

MCPrfBit(lane, n) == ((n * n + 7 * n * (lane.b + lane.eta) + n \div 3 + lane.b) \div 5) % 2
=============================================================================
