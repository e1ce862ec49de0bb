----------------------------- MODULE MCCoreUnits -----------------------------
(***************************************************************************)
(* Two units of the core's EX stage, which share nothing: the multiplier   *)
(* and divider with words of four bits, and loads and stores with bytes of *)
(* one bit and an address space of two words.  An instruction uses one of  *)
(* them; bounds: loads and stores come while the other unit is as after    *)
(* reset, and one at a time, and operations while memory is as after       *)
(* reset.                                                                  *)
(***************************************************************************)
EXTENDS MulDivUnit, LoadStoreUnit

MCPow == [n \in 0 .. 2 * Bits |-> 2 ^ n]

Cleared == [w \in 0 .. NumWords - 1 |-> [i \in Lane |-> 0]]
AtRest  == ~req.start /\ state = "IDLE" /\ reg_AB.a = 0 /\ reg_AB.b = 0 /\ reg_muldiv.hi = 0 /\ reg_muldiv.lo = 0

MCInit == Init /\ mem = Cleared /\ LsuInit
MCNext ==
    \/ access = NoAccess /\ mem = Cleared /\ Clock /\ UNCHANGED lsuVars
    \/ AtRest /\ access = NoAccess /\ LsuNext /\ UNCHANGED vars
    \/ AtRest /\ NoLoadOrStore /\ UNCHANGED vars
MCSpec == MCInit /\ [][MCNext]_<<vars, lsuVars>>
=============================================================================
