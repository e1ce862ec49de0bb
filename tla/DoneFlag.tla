------------------------------ MODULE DoneFlag ------------------------------
(***************************************************************************)
(* The flag register between two clock domains (async_reg): set in the     *)
(* bus clock's domain, read and cleared in the USB clock's.  The flag and  *)
(* the request to clear it each reach the other side through two           *)
(* flip-flops; the request is withdrawn when the far end of its own        *)
(* synchroniser is seen, without a synchroniser on the way back.           *)
(***************************************************************************)
EXTENDS Naturals

VARIABLES flag_reg,       \* the flag, in the set domain
          clr_req,        \* the request to clear it, in the clear domain
          clr_sync_set,   \* clr_req on its way into the set domain
          flag_sync_clr,  \* flag_reg on its way into the clear domain
          seen            \* has the reader read this flag since it was last set?

setVars == <<flag_reg, clr_sync_set>>
clrVars == <<clr_req, flag_sync_clr>>
vars == <<flag_reg, clr_req, clr_sync_set, flag_sync_clr, seen>>

TwoFlops == [0 .. 1 -> BOOLEAN]
Low      == [i \in 0 .. 1 |-> FALSE]

TypeOK == /\ flag_reg \in BOOLEAN /\ clr_req \in BOOLEAN /\ seen \in BOOLEAN
          /\ clr_sync_set \in TwoFlops /\ flag_sync_clr \in TwoFlops

Init == /\ flag_reg = FALSE /\ clr_req = FALSE /\ seen = FALSE
        /\ clr_sync_set = Low /\ flag_sync_clr = Low

\* {s[0], d}: the next state of a two-flop synchroniser that catches d
Shift(s, d) == [i \in 0 .. 1 |-> IF i = 0 THEN d ELSE s[0]]

\* The flag after an edge of the set clock.
FlagNext(set_cond) == set_cond \/ (flag_reg /\ ~clr_sync_set[1])

\* The request after an edge of the clear clock that finds the far flop at far.
ReqNext(clr_cond, far) == clr_cond \/ (clr_req /\ ~far)

\* An edge of the set clock that catches the request at req.
SetSide(set_cond, req) == /\ flag_reg' = FlagNext(set_cond)
                          /\ clr_sync_set' = Shift(clr_sync_set, req)

\* An edge of the clear clock that catches the flag at flag and the far flop at far.
ClrSide(clr_cond, flag, far) == /\ clr_req' = ReqNext(clr_cond, far)
                                /\ flag_sync_clr' = Shift(flag_sync_clr, flag)

\* The USB side clears by reading a flag it sees high: usb_read_done.
Seen(set_cond, clr_cond) == seen' = (clr_cond \/ (seen /\ ~set_cond))

SetClk(set_cond) == /\ SetSide(set_cond, clr_req) /\ Seen(set_cond, FALSE)
                    /\ UNCHANGED clrVars

ClrClk(read) == LET clr_cond == read /\ flag_sync_clr[1] IN
                /\ ClrSide(clr_cond, flag_reg, clr_sync_set[1]) /\ Seen(FALSE, clr_cond)
                /\ UNCHANGED setVars

Next == \/ \E set_cond \in BOOLEAN : SetClk(set_cond)
        \/ \E read \in BOOLEAN : ClrClk(read)

Spec == Init /\ [][Next]_vars

-----------------------------------------------------------------------------

\* "The flag remains high until cleared": a flag that goes low has been read since it
\* was last set.
RemainsHighUntilCleared == [][flag_reg /\ ~flag_reg' => seen]_vars
=============================================================================
