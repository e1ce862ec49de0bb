----------------------------- MODULE MulDivUnit -----------------------------
(***************************************************************************)
(* The multiplier and divider of the core (core/muldiv): sign handling,    *)
(* results that need no computation, the multiplier's two stages, the      *)
(* divider's rounds, and the control of both, clock cycle by clock cycle.  *)
(* Pipeline says when it is started; here the core holds an operation and  *)
(* its operands until it is done, and may go on with the next at once.     *)
(***************************************************************************)
EXTENDS Integers

CONSTANTS Limb,   \* bits of a limb of multiplier_32, 8 in the code: a word has four limbs
          Pow,    \* the powers of two up to that of a double word, each twice the one before
          Later   \* the operands of every operation but the first, which has any

Bits == 4 * Limb

ASSUME PowAssumption ==
    /\ Limb \in Nat \ {0}
    /\ Pow \in [0 .. 2 * Bits -> Nat \ {0}] /\ Pow[0] = 1
    /\ \A n \in 0 .. 2 * Bits - 1 : Pow[n + 1] = 2 * Pow[n]
ASSUME LaterAssumption == Later \subseteq 0 .. Pow[Bits] - 1

VARIABLES req,         \* what the core asks for: start, the operation and its operands
          state,       \* current_state of MULDIV_ctrl
          reg_AB,      \* the prepared operands
          reg_muldiv,  \* the high and the low word computed of them
          pp,          \* the multiplier's registers: products of limbs
          div          \* the divider: state, rounds, remainder, quotient, ready

vars == <<req, state, reg_AB, reg_muldiv, pp, div>>

Base  == Pow[Limb]
Mod   == Pow[Bits]
Word  == 0 .. Mod - 1
Ones  == Mod - 1
Neg(x)    == x >= Mod \div 2
TwosC(x)  == (Mod - x) % Mod
Signed(x) == IF Neg(x) THEN x - Mod ELSE x

Muls == {"mul", "mulh", "mulhsu", "mulhu"}
Divs == {"div", "divu", "rem", "remu"}
Ops  == Muls \cup Divs
Rems == {"rem", "remu"}

\* The operations that take A, and those that take B, as a signed number.
SignedA == {"mul", "mulh", "mulhsu", "div", "rem"}
SignedB == {"mul", "mulh", "div", "rem"}

-----------------------------------------------------------------------------
\* MULDIV_in: the operands are computed with by their absolute values, and 0, 1 and -1 are
\* recognised.
Prepare(x, signed) == IF signed /\ Neg(x) THEN TwosC(x) ELSE x
Status(x, signed) ==
    CASE x = 0             -> "zero"
      [] x = 1             -> "one"
      [] x = Ones /\ signed -> "minus_one"
      [] OTHER             -> "other"

StatusA == Status(req.a, req.op \in SignedA)
StatusB == Status(req.b, req.op \in SignedB)

\* MULDIV_ctrl: if an operand is trivial, so is the result.
IsFast == StatusA # "other" \/ StatusB # "other"

\* b or a times the other operand, which is 1 or -1.
Times(x, status) == IF status = "one" THEN x ELSE TwosC(x)
FastMul ==
    CASE "zero" \in {StatusA, StatusB} -> 0
      [] "zero" \notin {StatusA, StatusB} /\ req.op = "mul" ->
            IF StatusA # "other" THEN Times(req.b, StatusA) ELSE Times(req.a, StatusB)
      [] OTHER -> IF (StatusA = "minus_one") # (StatusB = "minus_one") THEN Ones ELSE 0

FastDiv ==
    LET Pick(q, r) == IF req.op \in Rems THEN r ELSE q IN
    CASE StatusA = "zero" -> 0
      [] StatusA # "zero" /\ StatusB = "zero"      -> Pick(Ones, req.a)
      [] StatusA # "zero" /\ StatusB = "one"       -> Pick(req.a, 0)
      [] StatusA # "zero" /\ StatusB = "minus_one" -> Pick(TwosC(req.a), 0)
      [] OTHER                                     -> Pick(0, req.a)

fastres == IF req.op \in Muls THEN FastMul ELSE FastDiv

-----------------------------------------------------------------------------
\* multiplier_32: products of limbs, registered, and added up by halves of a word.
LimbOf(x, i) == (x \div Pow[i * Limb]) % Base
Partial == [i \in 0 .. 3 |-> [j \in 0 .. 3 |-> LimbOf(reg_AB.a, i) * LimbOf(reg_AB.b, j)]]
Halves(i, j) ==
    pp[i + 1][j + 1] * Pow[2 * Limb] + (pp[i + 1][j] + pp[i][j + 1]) * Base + pp[i][j]
P == Halves(2, 2) * Mod + (Halves(2, 0) + Halves(0, 2)) * Pow[2 * Limb] + Halves(0, 0)

-----------------------------------------------------------------------------
\* divider_32: a bit of the dividend in each round, from the top.  Without start the
\* remainder and the quotient are cleared.
\* Wrong variant: also when the result is there.
div_start_Always == state = "DIV"
div_start == state = "DIV" /\ ~div.rdy

DivStep ==
    LET first   == div.st = "R1"
        sel     == IF first THEN 0 ELSE div.round
        shifted == (2 * (IF first THEN 0 ELSE div.R) + ((reg_AB.a \div Pow[Bits - 1 - sel]) % 2)) % Mod
        q       == IF shifted >= reg_AB.b THEN 1 ELSE 0
    IN [R |-> shifted - q * reg_AB.b, Q |-> (2 * div.Q + q) % Mod]

DivNext ==
    LET working == div.st = "Rounds" \/ div_start
        last    == div.st = "Rounds" /\ div.round = Bits - 1
        step    == DivStep
    IN [st    |-> IF working /\ ~last THEN "Rounds" ELSE "R1",
        round |-> IF working /\ ~last THEN div.round + 1 ELSE 0,
        R     |-> IF ~div_start THEN 0 ELSE step.R,
        Q     |-> IF ~div_start THEN 0 ELSE step.Q,
        rdy   |-> last]

-----------------------------------------------------------------------------
\* MULout, DIVout: the signs of the result, of the operands as they stand there now.
MulOut ==
    LET Negated(x) == (Mod * Mod - x) % (Mod * Mod)
        p  == reg_muldiv.hi * Mod + reg_muldiv.lo
        ps == CASE req.op \in {"mul", "mulh"} -> IF Neg(req.a) # Neg(req.b) THEN Negated(p) ELSE p
                [] req.op = "mulhsu"          -> IF Neg(req.a) THEN Negated(p) ELSE p
                [] OTHER                      -> p
    IN IF req.op = "mul" THEN ps % Mod ELSE ps \div Mod

\* Wrong variant: the remainder has the sign of the quotient.
DivOut_RemSign ==
    LET swap == Neg(req.a) # Neg(req.b)
    IN CASE req.op = "div"  -> IF swap THEN TwosC(reg_muldiv.hi) ELSE reg_muldiv.hi
         [] req.op = "divu" -> reg_muldiv.hi
         [] req.op = "rem"  -> IF swap THEN TwosC(reg_muldiv.lo) ELSE reg_muldiv.lo
         [] OTHER           -> reg_muldiv.lo
DivOut ==
    CASE req.op = "div"  -> IF Neg(req.a) # Neg(req.b) THEN TwosC(reg_muldiv.hi) ELSE reg_muldiv.hi
      [] req.op = "divu" -> reg_muldiv.hi
      [] req.op = "rem"  -> IF Neg(req.a) THEN TwosC(reg_muldiv.lo) ELSE reg_muldiv.lo
      [] OTHER           -> reg_muldiv.lo

R == IF IsFast THEN fastres ELSE IF state = "DIV_out" THEN DivOut ELSE MulOut

muldiv_done == state \in {"DIV_out", "MUL_out"} \/ (state = "IDLE" /\ req.start /\ IsFast)

-----------------------------------------------------------------------------
Requests(operands) == [start : {TRUE}, op : Ops, a : operands, b : operands]
NoRequest == [start |-> FALSE, op |-> "mul", a |-> 0, b |-> 0]

Init ==
    /\ req \in Requests(Word)
    /\ state = "IDLE" /\ reg_AB = [a |-> 0, b |-> 0] /\ reg_muldiv = [hi |-> 0, lo |-> 0]
    /\ pp = [i \in 0 .. 3 |-> [j \in 0 .. 3 |-> 0]]
    /\ div = [st |-> "R1", round |-> 0, R |-> 0, Q |-> 0, rdy |-> FALSE]

StateNext ==
    CASE state = "IDLE" -> IF ~req.start \/ IsFast THEN "IDLE"
                           ELSE IF req.op \in Divs THEN "DIV" ELSE "MUL1"
      [] state = "DIV"  -> IF div.rdy THEN "DIV_out" ELSE "DIV"
      [] state = "MUL1" -> "MUL2"
      [] state = "MUL2" -> "MUL_out"
      [] OTHER          -> "IDLE"

Clock ==
    /\ state' = StateNext
    /\ reg_AB' = IF state = "IDLE" /\ req.start /\ ~IsFast
                 THEN [a |-> Prepare(req.a, req.op \in SignedA), b |-> Prepare(req.b, req.op \in SignedB)]
                 ELSE reg_AB
    /\ reg_muldiv' = CASE state = "DIV" /\ div.rdy       -> [hi |-> div.Q, lo |-> div.R]
                       [] state \in {"MUL2", "MUL_out"}  -> [hi |-> P \div Mod, lo |-> P % Mod]
                       [] OTHER                          -> reg_muldiv
    /\ pp' = Partial
    /\ div' = DivNext
    /\ IF muldiv_done \/ ~req.start THEN req' \in Requests(Later) \cup {NoRequest} ELSE UNCHANGED req

Spec == Init /\ [][Clock]_vars

-----------------------------------------------------------------------------
\* The instruction set's definition of the operations.
Quotient(x, y) == IF (x < 0) = (y < 0) THEN (IF x < 0 THEN -x ELSE x) \div (IF y < 0 THEN -y ELSE y)
                  ELSE -((IF x < 0 THEN -x ELSE x) \div (IF y < 0 THEN -y ELSE y))
IsaResult(op, a, b) ==
    LET x == IF op \in SignedA THEN Signed(a) ELSE a
        y == IF op \in SignedB THEN Signed(b) ELSE b
    IN CASE op = "mul"           -> (x * y) % Mod
         [] op \in Muls \ {"mul"} -> ((x * y) \div Mod) % Mod
         [] op \in Divs \ Rems    -> IF y = 0 THEN Ones ELSE Quotient(x, y) % Mod
         [] op \in Rems           -> IF y = 0 THEN a ELSE (x - Quotient(x, y) * y) % Mod

\* Where the table of fast results is wrong: the high word of a product with 1 or -1 is taken
\* for the sign of the trivial operand alone, and 0 / 0 for 0.
Misjudged(op, a, b) ==
    \/ op \in {"div", "divu"} /\ a = 0 /\ b = 0
    \/ op = "mulh" /\ \/ a \in {1, Ones} /\ Signed(b) < -1
                      \/ b \in {1, Ones} /\ Signed(a) < -1
    \/ op = "mulhsu" /\ b = 1 /\ Signed(a) < -1

\* Every operation on every pair of operands gives what the instruction set says, signs,
\* overflow and division by zero included, but for the pairs of Misjudged, which all give
\* something else; and whatever operation the unit did before.
ResultIsIsa ==
    req.start /\ muldiv_done => (R = IsaResult(req.op, req.a, req.b) <=> ~Misjudged(req.op, req.a, req.b))

\* After each round the quotient and the remainder are those of the bits taken so far, and
\* those of the whole dividend are what DIVout gets.
Divides(a, b, q, r) == a = q * b + r /\ r < b
RoundsAreExact ==
    /\ state = "DIV" /\ div.st = "Rounds" =>
           Divides(reg_AB.a \div Pow[Bits - div.round], reg_AB.b, div.Q, div.R)
    /\ state = "DIV_out" => Divides(reg_AB.a, reg_AB.b, reg_muldiv.hi, reg_muldiv.lo)
=============================================================================
