--------------------------- MODULE Cw305LinkProofs ---------------------------
(***************************************************************************)
(* The link between host and victim, for every length of a command and of  *)
(* a response, every FIFO that a command's line fits into and every pace   *)
(* of both sides: DONE never comes before the response, the response is    *)
(* the one asked for, and the trigger frames the command's work.           *)
(***************************************************************************)
EXTENDS Cw305Link, SequenceTheorems, TLAPS

\* The FIFOs' lemmas.
I == INSTANCE AsyncFifoProofs WITH
        Data <- Bytes, mem <- i_mem, wbin <- i_wbin, wfull <- i_wfull, wq1_rptr <- i_wq1,
        wq2_rptr <- i_wq2, rbin <- i_rbin, rempty <- i_rempty, rq1_wptr <- i_rq1,
        rq2_wptr <- i_rq2, rdata <- i_rdata
O == INSTANCE AsyncFifoProofs WITH
        Data <- Bytes, mem <- o_mem, wbin <- o_wbin, wfull <- o_wfull, wq1_rptr <- o_wq1,
        wq2_rptr <- o_wq2, rbin <- o_rbin, rempty <- o_rempty, rq1_wptr <- o_rq1,
        rq2_wptr <- o_rq2, rdata <- o_rdata

\* What the link is used with: a command's line fits into the FIFO, the host waits for DONE
\* and sends commands the victim has, and a USB transaction takes two rounds of both clocks.
Regular == /\ Depth \in Nat /\ DataLen + 2 <= Depth
           /\ Gap >= 2
           /\ CheckDone /\ ~Unknown

-----------------------------------------------------------------------------
(* The inductive invariant *)

Receiving == fw.pc \in {"poll_rx", "rx"}
Transit   == I!Ahead(i_wbin, i_rbin)     \* bytes of the command on their way
Pending   == O!Ahead(o_wbin, o_rbin)     \* bytes of the response on theirs

\* The command was executed, and the host has not noticed.
Answered == host.pc = "wait" /\ Receiving /\ fw.got = 0 /\ Transit = 0
Sent     == IF fw.pc = "done" \/ Answered THEN RespLen ELSE fw.sent

Hosting ==
    /\ DOMAIN host = {"pc", "cmd", "n"} /\ host.cmd \in Cmds
    /\ host.pc \in {"write", "wait", "read"} /\ host.n \in Nat
    /\ host.pc = "write" => host.n <= DataLen + 1
    /\ host.pc = "wait"  => host.n = 0
    /\ host.pc = "read"  => host.n < RespLen

Serving ==
    /\ DOMAIN fw = {"pc", "got", "id", "sent", "sca"} /\ fw.id \in Ids /\ fw.sca = FALSE
    /\ fw.pc \in {"poll_rx", "rx", "sca_read", "sca_write", "poll_tx", "tx", "done"}
    /\ fw.got \in Nat /\ fw.got <= DataLen + 1 /\ (~Receiving => fw.got = 0)
    /\ fw.sent \in Nat /\ fw.sent < RespLen
    /\ fw.pc \notin {"poll_tx", "tx"} => fw.sent = 0
    /\ fw.pc = "rx" => ~i_rempty
    /\ fw.pc = "tx" => ~o_wfull

Resting == /\ DOMAIN rest = {"rounds", "wb", "usb"}
           /\ rest.rounds \in Nat /\ rest.rounds <= Gap
           /\ rest.wb \in BOOLEAN /\ rest.usb \in BOOLEAN

\* The bytes of the command are received, or on their way, in their order.
Command ==
    /\ host.pc = "write" => Receiving /\ fw.got + Transit = host.n
    /\ host.pc = "wait" => IF Receiving THEN Answered \/ fw.got + Transit = DataLen + 2
                           ELSE Transit = 0
    /\ host.pc = "read" => Receiving /\ fw.got = 0 /\ Transit = 0
    /\ I!Stored(i_mem, i_wbin, i_rbin, Line(host.cmd), fw.got)
    /\ fw.got > 0 \/ ~Receiving => fw.id = host.cmd.id

\* So are those of the response.
Reply ==
    /\ host.pc = "write" => Pending = 0
    /\ host.pc = "wait"  => Pending = Sent
    /\ host.pc = "read"  => Pending = RespLen - host.n
    /\ O!Stored(o_mem, o_wbin, o_rbin, Response(host.cmd.id), IF host.pc = "read" THEN host.n ELSE 0)

\* DONE does not overtake the pointers: whoever sees it sees them as they are.
Visible ==
    /\ Answered /\ (flag_sync_clr[0] \/ flag_sync_clr[1]) => i_wq1 = i_rbin /\ o_rq1 = o_wbin
    /\ Answered /\ flag_sync_clr[1] => i_wq2 = i_rbin /\ o_rq2 = o_wbin
    /\ host.pc = "read" => /\ i_wq1 = i_rbin /\ i_wq2 = i_rbin /\ ~i_wfull
                           /\ o_rq1 = o_wbin /\ o_rq2 = o_wbin /\ ~o_rempty
    /\ host.pc = "write" => I!Ahead(i_wbin, i_wq2) <= host.n /\ ~i_wfull

\* What is left of DONE after e edges of the bus clock since it was read: the request to
\* clear it has got through one flip-flop with each.
Left(e) == /\ e = 0 => ~flag_reg \/ clr_sync_set[1] \/ clr_req
           /\ e = 1 => ~flag_reg \/ clr_sync_set[1] \/ clr_sync_set[0]
           /\ e = 2 => ~flag_reg \/ clr_sync_set[1]
           /\ e > 2 => ~flag_reg

Edges == rest.rounds + (IF rest.wb THEN 1 ELSE 0)   \* at least, since the host's last access

\* DONE is low at both ends before the host asks for it again.
Clearing ==
    /\ flag_reg \in BOOLEAN /\ clr_req \in BOOLEAN
    /\ clr_sync_set[0] \in BOOLEAN /\ clr_sync_set[1] \in BOOLEAN
    /\ flag_sync_clr[0] \in BOOLEAN /\ flag_sync_clr[1] \in BOOLEAN
    /\ host.pc = "wait" /\ ~Answered => ~flag_reg /\ ~flag_sync_clr[0] /\ ~flag_sync_clr[1]
    /\ host.pc = "read"  => Left(IF host.n = 0 THEN Edges ELSE 2)
    /\ host.pc = "write" => Left(IF host.n = 0 THEN Edges + 2 ELSE 3)
    /\ host.pc = "write" /\ (host.n > 0 \/ rest.rounds >= 2 \/ (rest.rounds = 1 /\ rest.usb))
           => ~flag_sync_clr[0]
    /\ host.pc = "write" /\ host.n > 1 => ~flag_sync_clr[1]

Framing == trigger_q => ~Receiving

Fifos   == I!IInv /\ O!IInv
LinkInv == /\ Fifos /\ Hosting /\ Serving /\ Resting
           /\ Command /\ Reply /\ Visible /\ Clearing /\ Framing

-----------------------------------------------------------------------------
(* What a step is, whichever clocks strike: wb and usb say which do, fr and hr whether the *)
(* firmware and the host make their access in it.                                          *)

Accesses(wb, usb, fr, hr) ==
    /\ wb \in BOOLEAN /\ usb \in BOOLEAN /\ fr \in BOOLEAN /\ hr \in BOOLEAN /\ (wb \/ usb)
    /\ fr => wb
    /\ hr => usb /\ HostReady
    /\ fr => fw' = FwNext(i_rdata', flag_reg') /\ trigger_q' = TriggerNext
    /\ ~fr => fw' = fw /\ trigger_q' = trigger_q
    /\ hr => \E cmd \in NextCmds : host' = HostNext(cmd)
    /\ ~hr => host' = host
    /\ Pass(wb, usb, hr)

Moves(fr, hr) ==
    /\ I!Step(hr /\ UsbWrite, IF UsbWrite THEN Line(host.cmd)[host.n + 1] ELSE Blank, fr /\ Rinc)
    /\ O!Step(fr /\ Winc, IF Winc THEN WData ELSE Blank, hr /\ UsbRead)

\* What each side sees of the other's pointers.
Sees(wb, usb) ==
    /\ usb => /\ i_wq1' \in {i_rbin, i_rbin'} /\ i_wq2' = i_wq1
              /\ o_rq1' \in {o_wbin, o_wbin'} /\ o_rq2' = o_rq1
              /\ i_wfull' = I!FullVal(i_wbin', i_wq2) /\ o_rempty' = O!EmptyVal(o_rbin', o_rq2)
    /\ ~usb => UNCHANGED <<i_wq1, i_wq2, o_rq1, o_rq2, i_wfull, o_rempty>>
    /\ wb => /\ i_rq1' \in {i_wbin, i_wbin'} /\ i_rq2' = i_rq1
             /\ o_wq1' \in {o_rbin, o_rbin'} /\ o_wq2' = o_wq1
             /\ i_rempty' = I!EmptyVal(i_rbin', i_rq2) /\ o_wfull' = O!FullVal(o_wbin', o_wq2)
    /\ ~wb => UNCHANGED <<i_rq1, i_rq2, o_wq1, o_wq2, i_rempty, o_wfull>>

Flags(wb, usb, fr, hr) ==
    LET read == hr /\ UsbReadDone IN
    /\ wb => /\ flag_reg' = Done!FlagNext(fr /\ SetDone)
             /\ clr_sync_set'[0] \in {clr_req, Done!ReqNext(read, clr_sync_set[1])}
             /\ clr_sync_set'[1] = clr_sync_set[0]
    /\ ~wb => UNCHANGED <<flag_reg, clr_sync_set>>
    /\ usb => /\ clr_req' \in {Done!ReqNext(read, clr_sync_set[1]), Done!ReqNext(read, clr_sync_set'[1])}
              /\ flag_sync_clr'[0] \in {flag_reg, flag_reg'}
              /\ flag_sync_clr'[1] = flag_sync_clr[0]
    /\ ~usb => UNCHANGED <<clr_req, flag_sync_clr>>

Edge(wb, usb, fr, hr) ==
    Accesses(wb, usb, fr, hr) /\ Moves(fr, hr) /\ Sees(wb, usb) /\ Flags(wb, usb, fr, hr)

\* The instances of the FIFO in the model and here say the same.
LEMMA SameIn ==
  /\ \A c : In!RbinNext(c) = I!RbinNext(c) /\ In!WbinNext(c) = I!WbinNext(c)
  /\ \A a, b : In!EmptyVal(a, b) = I!EmptyVal(a, b) /\ In!FullVal(a, b) = I!FullVal(a, b)
  /\ \A a : In!AddrOf(a) = I!AddrOf(a)
  BY DEF In!RbinNext, I!RbinNext, In!WbinNext, I!WbinNext, In!EmptyVal, I!EmptyVal, In!FullVal,
         I!FullVal, In!AddrOf, I!AddrOf, In!Plus, I!Plus

\* The same for the response's FIFO.
LEMMA SameOut ==
  /\ \A c : Out!RbinNext(c) = O!RbinNext(c) /\ Out!WbinNext(c) = O!WbinNext(c)
  /\ \A a, b : Out!EmptyVal(a, b) = O!EmptyVal(a, b) /\ Out!FullVal(a, b) = O!FullVal(a, b)
  /\ \A a : Out!AddrOf(a) = O!AddrOf(a)
  BY DEF Out!RbinNext, O!RbinNext, Out!WbinNext, O!WbinNext, Out!EmptyVal, O!EmptyVal, Out!FullVal,
         O!FullVal, Out!AddrOf, O!AddrOf, Out!Plus, O!Plus

\* An edge of one clock leaves the registers of the other's side.
LEMMA NoAccess ==
  /\ I!WbinNext(FALSE) = i_wbin /\ I!RbinNext(FALSE) = i_rbin
  /\ O!WbinNext(FALSE) = o_wbin /\ O!RbinNext(FALSE) = o_rbin
  BY DEF I!WbinNext, I!RbinNext, O!WbinNext, O!RbinNext

\* A synchroniser after an edge: the new value, and the one that was the first flop's.
LEMMA Shifted == ASSUME NEW s, NEW d PROVE Done!Shift(s, d)[0] = d /\ Done!Shift(s, d)[1] = s[0]
  BY DEF Done!Shift

\* Each of the clocks' three actions is an edge, with what it leaves alone spelt out.
LEMMA WbIsEdge ==
  ASSUME NEW run \in BOOLEAN, WbClk(run)
  PROVE  Edge(TRUE, FALSE, run, FALSE)
<1>1. /\ WbSide(run, i_wbin, o_rbin, clr_req) /\ Pass(TRUE, FALSE, FALSE)
      /\ i_wbin' = i_wbin /\ i_wfull' = i_wfull /\ i_wq1' = i_wq1 /\ i_wq2' = i_wq2 /\ i_mem' = i_mem
      /\ o_rbin' = o_rbin /\ o_rempty' = o_rempty /\ o_rq1' = o_rq1 /\ o_rq2' = o_rq2
      /\ o_rdata' = o_rdata /\ clr_req' = clr_req /\ flag_sync_clr' = flag_sync_clr /\ host' = host
  BY DEF WbClk
<1>2. Accesses(TRUE, FALSE, run, FALSE)
  BY <1>1 DEF Accesses, WbSide, fwVars
<1>3. Moves(run, FALSE)
  <2>1. /\ i_rbin' = I!RbinNext(run /\ Rinc)
        /\ i_rdata' = IF run /\ Rinc THEN i_mem[I!AddrOf(i_rbin)] ELSE i_rdata
    BY <1>1, SameIn DEF WbSide, In!ReadSide
  <2>2. /\ o_wbin' = O!WbinNext(run /\ Winc)
        /\ o_mem' = IF (run /\ Winc) /\ ~o_wfull
                    THEN [o_mem EXCEPT ![O!AddrOf(o_wbin)] = IF Winc THEN WData ELSE Blank] ELSE o_mem
    BY <1>1, SameOut DEF WbSide, Out!WriteSide
  <2> QED
    BY <1>1, <2>1, <2>2, NoAccess DEF Moves, I!Step, O!Step
<1>4. Sees(TRUE, FALSE)
  <2>1. i_rempty' = I!EmptyVal(i_rbin', i_rq2) /\ i_rq1' = i_wbin /\ i_rq2' = i_rq1
    BY <1>1, SameIn DEF WbSide, In!ReadSide
  <2>2. o_wfull' = O!FullVal(o_wbin', o_wq2) /\ o_wq1' = o_rbin /\ o_wq2' = o_wq1
    BY <1>1, SameOut DEF WbSide, Out!WriteSide
  <2> QED
    BY <1>1, <2>1, <2>2 DEF Sees
<1>5. Flags(TRUE, FALSE, run, FALSE)
  BY <1>1, Shifted DEF Flags, WbSide, Done!SetSide
<1> QED
  BY <1>2, <1>3, <1>4, <1>5 DEF Edge

\* The same for an edge of the USB clock alone.
LEMMA UsbIsEdge ==
  ASSUME NEW run \in BOOLEAN, UsbClk(run)
  PROVE  Edge(FALSE, TRUE, FALSE, run)
<1>1. PICK cmd \in NextCmds : UsbSide(run, cmd, i_rbin, o_wbin, flag_reg, clr_sync_set[1])
  BY DEF UsbClk
<1>2. /\ Pass(FALSE, TRUE, run)
      /\ i_rbin' = i_rbin /\ i_rempty' = i_rempty /\ i_rdata' = i_rdata
      /\ i_rq1' = i_rq1 /\ i_rq2' = i_rq2 /\ o_wq1' = o_wq1 /\ o_wq2' = o_wq2
      /\ o_wbin' = o_wbin /\ o_wfull' = o_wfull /\ o_mem' = o_mem
      /\ flag_reg' = flag_reg /\ clr_sync_set' = clr_sync_set /\ fw' = fw /\ trigger_q' = trigger_q
  BY DEF UsbClk, fwVars
<1>3. Accesses(FALSE, TRUE, FALSE, run)
  BY <1>1, <1>2 DEF Accesses, UsbSide
<1>4. Moves(FALSE, run)
  <2>1. /\ i_wbin' = I!WbinNext(run /\ UsbWrite)
        /\ i_mem' = IF (run /\ UsbWrite) /\ ~i_wfull
                    THEN [i_mem EXCEPT ![I!AddrOf(i_wbin)] =
                             IF UsbWrite THEN Line(host.cmd)[host.n + 1] ELSE Blank] ELSE i_mem
    BY <1>1, SameIn DEF UsbSide, In!WriteSide
  <2>2. /\ o_rbin' = O!RbinNext(run /\ UsbRead)
        /\ o_rdata' = IF run /\ UsbRead THEN o_mem[O!AddrOf(o_rbin)] ELSE o_rdata
    BY <1>1, SameOut DEF UsbSide, Out!ReadSide
  <2> QED
    BY <1>2, <2>1, <2>2, NoAccess DEF Moves, I!Step, O!Step
<1>5. Sees(FALSE, TRUE)
  <2>1. i_wfull' = I!FullVal(i_wbin', i_wq2) /\ i_wq1' = i_rbin /\ i_wq2' = i_wq1
    BY <1>1, SameIn DEF UsbSide, In!WriteSide
  <2>2. o_rempty' = O!EmptyVal(o_rbin', o_rq2) /\ o_rq1' = o_wbin /\ o_rq2' = o_rq1
    BY <1>1, SameOut DEF UsbSide, Out!ReadSide
  <2> QED
    BY <1>2, <2>1, <2>2 DEF Sees
<1>6. Flags(FALSE, TRUE, FALSE, run)
  BY <1>1, <1>2, Shifted DEF Flags, UsbSide, Done!ClrSide
<1> QED
  BY <1>3, <1>4, <1>5, <1>6 DEF Edge

\* The same for edges that coincide.
LEMMA BothIsEdge ==
  ASSUME NEW fr \in BOOLEAN, NEW hr \in BOOLEAN, BothClk(fr, hr)
  PROVE  Edge(TRUE, TRUE, fr, hr)
<1>1. PICK iWptr \in {i_wbin, In!WbinNext(hr /\ UsbWrite)},
           iRptr \in {i_rbin, In!RbinNext(fr /\ Rinc)},
           oWptr \in {o_wbin, Out!WbinNext(fr /\ Winc)},
           oRptr \in {o_rbin, Out!RbinNext(hr /\ UsbRead)},
           req   \in {clr_req, Done!ReqNext(hr /\ UsbReadDone, clr_sync_set[1])},
           flag  \in {flag_reg, Done!FlagNext(fr /\ SetDone)},
           far   \in {clr_sync_set[0], clr_sync_set[1]}, cmd \in NextCmds :
              WbSide(fr, iWptr, oRptr, req) /\ UsbSide(hr, cmd, iRptr, oWptr, flag, far)
  BY DEF BothClk
<1>2. Pass(TRUE, TRUE, hr)
  BY DEF BothClk
<1>3. Accesses(TRUE, TRUE, fr, hr)
  BY <1>1, <1>2 DEF Accesses, UsbSide, WbSide, fwVars
<1>4. /\ i_wbin' = I!WbinNext(hr /\ UsbWrite)
      /\ i_mem' = IF (hr /\ UsbWrite) /\ ~i_wfull
                  THEN [i_mem EXCEPT ![I!AddrOf(i_wbin)] =
                           IF UsbWrite THEN Line(host.cmd)[host.n + 1] ELSE Blank] ELSE i_mem
      /\ i_wfull' = I!FullVal(i_wbin', i_wq2) /\ i_wq1' = iRptr /\ i_wq2' = i_wq1
  BY <1>1, SameIn DEF UsbSide, In!WriteSide
<1>5. /\ o_rbin' = O!RbinNext(hr /\ UsbRead)
      /\ o_rdata' = IF hr /\ UsbRead THEN o_mem[O!AddrOf(o_rbin)] ELSE o_rdata
      /\ o_rempty' = O!EmptyVal(o_rbin', o_rq2) /\ o_rq1' = oWptr /\ o_rq2' = o_rq1
  BY <1>1, SameOut DEF UsbSide, Out!ReadSide
<1>6. /\ i_rbin' = I!RbinNext(fr /\ Rinc)
      /\ i_rdata' = IF fr /\ Rinc THEN i_mem[I!AddrOf(i_rbin)] ELSE i_rdata
      /\ i_rempty' = I!EmptyVal(i_rbin', i_rq2) /\ i_rq1' = iWptr /\ i_rq2' = i_rq1
  BY <1>1, SameIn DEF WbSide, In!ReadSide
<1>7. /\ o_wbin' = O!WbinNext(fr /\ Winc)
      /\ o_mem' = IF (fr /\ Winc) /\ ~o_wfull
                  THEN [o_mem EXCEPT ![O!AddrOf(o_wbin)] = IF Winc THEN WData ELSE Blank] ELSE o_mem
      /\ o_wfull' = O!FullVal(o_wbin', o_wq2) /\ o_wq1' = oRptr /\ o_wq2' = o_wq1
  BY <1>1, SameOut DEF WbSide, Out!WriteSide
<1>8. Moves(fr, hr)
  BY <1>4, <1>5, <1>6, <1>7 DEF Moves, I!Step, O!Step
<1>9. Sees(TRUE, TRUE)
  <2>1. /\ iRptr \in {i_rbin, i_rbin'} /\ oWptr \in {o_wbin, o_wbin'}
        /\ iWptr \in {i_wbin, i_wbin'} /\ oRptr \in {o_rbin, o_rbin'}
    BY <1>1, <1>4, <1>5, <1>6, <1>7, SameIn, SameOut
  <2> QED
    BY <1>4, <1>5, <1>6, <1>7, <2>1 DEF Sees
<1>10. Flags(TRUE, TRUE, fr, hr)
  <2>1. /\ flag_reg' = Done!FlagNext(fr /\ SetDone)
        /\ clr_sync_set'[0] = req /\ clr_sync_set'[1] = clr_sync_set[0]
    BY <1>1, Shifted DEF WbSide, Done!SetSide
  <2>2. /\ clr_req' = Done!ReqNext(hr /\ UsbReadDone, far)
        /\ flag_sync_clr'[0] = flag /\ flag_sync_clr'[1] = flag_sync_clr[0]
    BY <1>1, Shifted DEF UsbSide, Done!ClrSide
  <2> QED
    BY <1>1, <2>1, <2>2 DEF Flags
<1> QED
  BY <1>3, <1>8, <1>9, <1>10 DEF Edge

\* So the proofs below speak of one kind of step.
LEMMA NextIsEdge == Next => \E wb, usb, fr, hr \in BOOLEAN : Edge(wb, usb, fr, hr)
  BY WbIsEdge, UsbIsEdge, BothIsEdge DEF Next
-----------------------------------------------------------------------------
(* The bytes *)

\* The constants, and what the FIFOs assume of theirs.
LEMMA Sizes ==
  ASSUME Regular
  PROVE  /\ I!DepthAssumption /\ O!DepthAssumption /\ I!DataAssumption /\ O!DataAssumption
         /\ Depth \in Nat /\ DataLen \in Nat /\ RespLen \in Nat \ {0} /\ Gap \in Nat
         /\ Cmds = [id : Ids, known : {TRUE}] /\ Blank \in Bytes
<1>1. Blank \in Bytes
  BY DEF Bytes
<1>2. /\ Depth \in Nat \ {0} /\ DataLen \in Nat /\ RespLen \in Nat \ {0} /\ Gap \in Nat
  BY LinkAssumption DEF Regular
<1>3. Cmds = [id : Ids, known : {TRUE}]
  BY DEF Regular, Cmds
<1>4. Bytes # {}
  BY <1>1
<1> QED
  BY <1>1, <1>2, <1>3, <1>4
     DEF I!DepthAssumption, O!DepthAssumption, I!DataAssumption, O!DataAssumption

\* A command's line, and a response, byte by byte.
LEMMA LineBytes ==
  ASSUME Regular, NEW c \in Cmds, NEW k \in 0 .. DataLen + 1
  PROVE  /\ Line(c)[k + 1] = IF k = 0 THEN Letter(c)
                             ELSE IF k <= DataLen THEN Digit(c, k) ELSE Newline(c)
         /\ Line(c)[k + 1] \in Bytes
<1> DEFINE a == <<Letter(c)>>
           d == [n \in 1 .. DataLen |-> Digit(c, n)]
           z == <<Newline(c)>>
<1>1. DataLen \in Nat
  BY Sizes
<1>2. a \in Seq(Bytes) /\ Len(a) = 1 /\ a[1] = Letter(c)
  BY DEF Bytes
<1>3. z \in Seq(Bytes) /\ Len(z) = 1 /\ z[1] = Newline(c)
  BY DEF Bytes
<1>4. \A n \in 1 .. DataLen : Digit(c, n) \in Bytes
  BY DEF Bytes
<1>5. d \in Seq(Bytes) /\ Len(d) = DataLen /\ \A n \in 1 .. DataLen : d[n] = Digit(c, n)
  BY <1>1, <1>4
<1>6. Line(c) = a \o d \o z
  BY DEF Line
<1> HIDE DEF a, d, z
<1>7. /\ a \o d \in Seq(Bytes) /\ Len(a \o d) = DataLen + 1
      /\ \A n \in 1 .. DataLen + 1 : (a \o d)[n] = IF n <= 1 THEN a[n] ELSE d[n - 1]
  <2>1. /\ a \o d \in Seq(Bytes) /\ Len(a \o d) = Len(a) + Len(d)
        /\ \A n \in 1 .. Len(a) + Len(d) : (a \o d)[n] = IF n <= Len(a) THEN a[n] ELSE d[n - Len(a)]
    BY <1>2, <1>5, ConcatProperties
  <2>2. Len(a) = 1 /\ Len(d) = DataLen /\ Len(a) + Len(d) = DataLen + 1
    BY <1>1, <1>2, <1>5
  <2> QED
    BY <2>1, <2>2
<1>8. \A n \in 1 .. DataLen + 2 :
         (a \o d \o z)[n] = IF n <= DataLen + 1 THEN (a \o d)[n] ELSE z[n - (DataLen + 1)]
  <2> DEFINE b == a \o d
  <2>0. b \in Seq(Bytes) /\ Len(b) = DataLen + 1
    BY <1>7
  <2> HIDE DEF b
  <2>1. \A n \in 1 .. Len(b) + Len(z) : (b \o z)[n] = IF n <= Len(b) THEN b[n] ELSE z[n - Len(b)]
    BY <1>3, <2>0, ConcatProperties
  <2>2. Len(b) = DataLen + 1 /\ Len(b) + Len(z) = DataLen + 2
    BY <1>1, <1>3, <2>0
  <2>3. \A n \in 1 .. DataLen + 2 : (b \o z)[n] = IF n <= DataLen + 1 THEN b[n] ELSE z[n - (DataLen + 1)]
    BY <2>1, <2>2
  <2> QED
    BY <2>3 DEF b
<1>9. /\ k + 1 \in 1 .. DataLen + 2
      /\ k = 0 => k + 1 = 1 /\ k + 1 \in 1 .. DataLen + 1
      /\ k # 0 /\ k <= DataLen => k + 1 \in 1 .. DataLen + 1 /\ ~(k + 1 <= 1) /\ (k + 1) - 1 = k /\ k \in 1 .. DataLen
      /\ k > DataLen => ~(k + 1 <= DataLen + 1) /\ (k + 1) - (DataLen + 1) = 1 /\ k # 0
  BY <1>1
<1>a. k + 1 \in Int /\ 1 \in 1 .. DataLen + 2 /\ k \in Nat
  BY <1>1
<1>10. Line(c)[k + 1] = IF k = 0 THEN Letter(c)
                        ELSE IF k <= DataLen THEN Digit(c, k) ELSE Newline(c)
  <2>1. CASE k = 0
    <3>1. (a \o d \o z)[1] = (a \o d)[1] /\ (a \o d)[1] = a[1]
      BY <1>1, <1>7, <1>8
    <3>2. k + 1 = 1
      BY <1>9, <2>1
    <3> QED
      BY <1>2, <1>6, <2>1, <3>1, <3>2
  <2>2. CASE k # 0 /\ k <= DataLen
    <3>1. (a \o d \o z)[k + 1] = (a \o d)[k + 1]
      <4>1. k + 1 <= DataLen + 1
        BY <1>1, <1>a, <2>2
      <4> QED
        BY <1>8, <1>9, <4>1
    <3>2. (a \o d)[k + 1] = d[k]
      BY <1>7, <1>9, <2>2
    <3> QED
      BY <1>5, <1>6, <1>9, <2>2, <3>1, <3>2
  <2>3. CASE k > DataLen
    <3>1. (a \o d \o z)[k + 1] = z[1]
      BY <1>8, <1>9, <2>3
    <3>2. k # 0 /\ ~(k <= DataLen)
      BY <1>1, <1>a, <2>3
    <3> QED
      BY <1>3, <1>6, <3>1, <3>2
  <2> QED
    BY <1>1, <2>1, <2>2, <2>3
<1>11. Letter(c) \in Bytes /\ Newline(c) \in Bytes
  BY DEF Bytes
<1> QED
  BY <1>1, <1>4, <1>9, <1>10, <1>11

\* A response, byte by byte.
LEMMA ResponseBytes ==
  ASSUME Regular, NEW id \in Ids, NEW k \in 0 .. RespLen - 1
  PROVE  Response(id)[k + 1] = Answer(id, k + 1) /\ Response(id)[k + 1] \in Bytes
  BY Sizes DEF Response, Bytes

-----------------------------------------------------------------------------
(* What an edge does to the FIFOs *)

\* What is at the FIFOs' data inputs.
InByte  == IF UsbWrite THEN Line(host.cmd)[host.n + 1] ELSE Blank
OutByte == IF Winc THEN WData ELSE Blank

\* What both sides hand to the FIFOs are bytes.
LEMMA BytesMoved ==
  ASSUME Regular, Hosting, Serving
  PROVE  InByte \in Bytes /\ OutByte \in Bytes
<1>1. UsbWrite => Line(host.cmd)[host.n + 1] \in Bytes
  BY Sizes, LineBytes DEF Hosting, UsbWrite
<1>2. Winc => WData \in Bytes
  BY Sizes, ResponseBytes DEF Serving, Winc, WData
<1> QED
  BY <1>1, <1>2, Sizes DEF InByte, OutByte

\* The command's FIFO keeps its invariant.
LEMMA InInvNext ==
  ASSUME Regular, LinkInv, NEW wb, NEW usb, NEW fr, NEW hr, Edge(wb, usb, fr, hr)
  PROVE  I!IInv'
<1>1. I!IInv /\ InByte \in Bytes /\ I!DepthAssumption /\ I!DataAssumption
  BY BytesMoved, Sizes DEF LinkInv, Fifos
<1> DEFINE winc == hr /\ UsbWrite
           rinc == fr /\ Rinc
<1>2. /\ winc \in BOOLEAN /\ rinc \in BOOLEAN /\ (~wb => ~rinc) /\ (~usb => ~winc)
      /\ wb \in BOOLEAN /\ usb \in BOOLEAN /\ (wb \/ usb)
  BY DEF Edge, Accesses, UsbWrite, Rinc
<1>3. I!Step(winc, InByte, rinc)
  BY DEF Edge, Moves, InByte
<1>4. Sees(wb, usb)
  BY DEF Edge
<1> HIDE DEF winc, rinc
<1>5. CASE wb /\ ~usb
  <2>1. i_wbin' = i_wbin /\ i_mem' = i_mem
    BY <1>2, <1>3, <1>5 DEF I!Step, I!WbinNext
  <2>2. I!RClk(rinc)
    BY <1>2, <1>3, <1>4, <1>5, <2>1 DEF I!Step, Sees, I!RClk, I!ReadSide, I!wvars
  <2> QED
    BY <1>1, <1>2, <2>2, I!RClkInv
<1>6. CASE ~wb /\ usb
  <2>1. i_rbin' = i_rbin /\ i_rdata' = i_rdata
    BY <1>2, <1>3, <1>6 DEF I!Step, I!RbinNext
  <2>2. I!WClk(winc, InByte)
    BY <1>2, <1>3, <1>4, <1>6, <2>1 DEF I!Step, Sees, I!WClk, I!WriteSide, I!rvars
  <2> QED
    BY <1>1, <1>2, <2>2, I!WClkInv
<1>7. CASE wb /\ usb
  <2>1. I!WriteSide(winc, InByte, i_wq1') /\ I!ReadSide(rinc, i_rq1')
    BY <1>2, <1>3, <1>4, <1>7 DEF I!Step, Sees, I!WriteSide, I!ReadSide
  <2>2. i_wq1' \in {i_rbin, I!RbinNext(rinc)} /\ i_rq1' \in {i_wbin, I!WbinNext(winc)}
    BY <1>3, <1>4, <1>7 DEF I!Step, Sees
  <2>3. I!BothClk(winc, InByte, rinc)
    BY <2>1, <2>2 DEF I!BothClk
  <2> QED
    BY <1>1, <1>2, <2>3, I!BothClkInv
<1> QED
  BY <1>2, <1>5, <1>6, <1>7

\* So does the response's.
LEMMA OutInvNext ==
  ASSUME Regular, LinkInv, NEW wb, NEW usb, NEW fr, NEW hr, Edge(wb, usb, fr, hr)
  PROVE  O!IInv'
<1>1. O!IInv /\ OutByte \in Bytes /\ O!DepthAssumption /\ O!DataAssumption
  BY BytesMoved, Sizes DEF LinkInv, Fifos
<1> DEFINE winc == fr /\ Winc
           rinc == hr /\ UsbRead
<1>2. /\ winc \in BOOLEAN /\ rinc \in BOOLEAN /\ (~wb => ~winc) /\ (~usb => ~rinc)
      /\ wb \in BOOLEAN /\ usb \in BOOLEAN /\ (wb \/ usb)
  BY DEF Edge, Accesses, UsbRead, Winc
<1>3. O!Step(winc, OutByte, rinc)
  BY DEF Edge, Moves, OutByte
<1>4. Sees(wb, usb)
  BY DEF Edge
<1> HIDE DEF winc, rinc
<1>5. CASE ~wb /\ usb
  <2>1. o_wbin' = o_wbin /\ o_mem' = o_mem
    BY <1>2, <1>3, <1>5 DEF O!Step, O!WbinNext
  <2>2. O!RClk(rinc)
    BY <1>2, <1>3, <1>4, <1>5, <2>1 DEF O!Step, Sees, O!RClk, O!ReadSide, O!wvars
  <2> QED
    BY <1>1, <1>2, <2>2, O!RClkInv
<1>6. CASE wb /\ ~usb
  <2>1. o_rbin' = o_rbin /\ o_rdata' = o_rdata
    BY <1>2, <1>3, <1>6 DEF O!Step, O!RbinNext
  <2>2. O!WClk(winc, OutByte)
    BY <1>2, <1>3, <1>4, <1>6, <2>1 DEF O!Step, Sees, O!WClk, O!WriteSide, O!rvars
  <2> QED
    BY <1>1, <1>2, <2>2, O!WClkInv
<1>7. CASE wb /\ usb
  <2>1. O!WriteSide(winc, OutByte, o_wq1') /\ O!ReadSide(rinc, o_rq1')
    BY <1>2, <1>3, <1>4, <1>7 DEF O!Step, Sees, O!WriteSide, O!ReadSide
  <2>2. o_wq1' \in {o_rbin, O!RbinNext(rinc)} /\ o_rq1' \in {o_wbin, O!WbinNext(winc)}
    BY <1>3, <1>4, <1>7 DEF O!Step, Sees
  <2>3. O!BothClk(winc, OutByte, rinc)
    BY <2>1, <2>2 DEF O!BothClk
  <2> QED
    BY <1>1, <1>2, <2>3, O!BothClkInv
<1> QED
  BY <1>2, <1>5, <1>6, <1>7

\* The accesses of one side in one edge, as a number.
One(b) == IF b THEN 1 ELSE 0

\* The host writes the next byte of its line, and the firmware reads the next one.
LEMMA InMoves ==
  ASSUME Regular, LinkInv, NEW wb, NEW usb, NEW fr, NEW hr, Edge(wb, usb, fr, hr)
  PROVE  /\ Transit \in Nat
         /\ Transit' = Transit + One(hr /\ UsbWrite) - One(fr /\ Rinc)
         /\ fr /\ Rinc => Transit > 0 /\ i_rdata' = Line(host.cmd)[fw.got + 1]
         /\ I!Stored(i_mem', i_wbin', i_rbin', Line(host.cmd), fw.got + One(fr /\ Rinc))
<1>1. I!IInv /\ InByte \in Bytes /\ I!DepthAssumption /\ I!DataAssumption
  BY BytesMoved, Sizes DEF LinkInv, Fifos
<1>2. Hosting /\ Serving /\ Command /\ Visible
  BY DEF LinkInv
<1> DEFINE winc == hr /\ UsbWrite
           rinc == fr /\ Rinc
<1>3. winc \in BOOLEAN /\ rinc \in BOOLEAN
  BY DEF Edge, Accesses, UsbWrite, Rinc
<1>4. I!Step(winc, InByte, rinc)
  BY DEF Edge, Moves, InByte
<1>5. PICK s : s = Line(host.cmd)
  OBVIOUS
<1>6. PICK k \in Nat : k = fw.got
  BY <1>2 DEF Serving
<1>7. I!Stored(i_mem, i_wbin, i_rbin, s, k)
  BY <1>2, <1>5, <1>6 DEF Command
<1>8. i_wbin \in I!Position /\ i_rbin \in I!Position
  BY <1>1 DEF I!IInv, I!TypeOK
<1>9. Transit \in Nat /\ Transit = I!Ahead(i_wbin, i_rbin)
  BY <1>1, <1>8, I!FlagTests DEF Transit
<1>10. (winc => ~i_wfull) /\ (rinc => ~i_rempty)
  BY <1>2 DEF Visible, Serving, UsbWrite, Rinc
<1>11. winc => InByte = s[k + I!Ahead(i_wbin, i_rbin) + 1]
  BY <1>2, <1>5, <1>6, <1>9 DEF Command, UsbWrite, InByte
<1> HIDE DEF winc, rinc
<1>12. LET pushed == IF winc /\ ~i_wfull  THEN 1 ELSE 0
           popped == IF rinc /\ ~i_rempty THEN 1 ELSE 0
       IN  /\ I!Ahead(i_wbin', i_rbin') = I!Ahead(i_wbin, i_rbin) + pushed - popped
           /\ popped = 1 => I!Ahead(i_wbin, i_rbin) > 0 /\ i_rdata' = s[k + 1]
           /\ I!Stored(i_mem', i_wbin', i_rbin', s, k + popped)
  BY <1>1, <1>3, <1>4, <1>7, <1>11, I!StepStored
<1>13. Transit' = I!Ahead(i_wbin', i_rbin')
  BY DEF Transit
<1>14. /\ Transit' = Transit + One(winc) - One(rinc)
       /\ rinc => Transit > 0 /\ i_rdata' = s[k + 1]
       /\ I!Stored(i_mem', i_wbin', i_rbin', s, k + One(rinc))
  BY <1>9, <1>10, <1>12, <1>13 DEF One
<1> QED
  BY <1>5, <1>6, <1>9, <1>14 DEF winc, rinc

\* The firmware writes the next byte of its response, and the host reads the next one.
LEMMA OutMoves ==
  ASSUME Regular, LinkInv, NEW wb, NEW usb, NEW fr, NEW hr, Edge(wb, usb, fr, hr)
  PROVE  LET k == IF host.pc = "read" THEN host.n ELSE 0 IN
         /\ Pending \in Nat
         /\ Pending' = Pending + One(fr /\ Winc) - One(hr /\ UsbRead)
         /\ hr /\ UsbRead => Pending > 0 /\ o_rdata' = Response(host.cmd.id)[host.n + 1]
         /\ O!Stored(o_mem', o_wbin', o_rbin', Response(host.cmd.id), k + One(hr /\ UsbRead))
<1>1. O!IInv /\ OutByte \in Bytes /\ O!DepthAssumption /\ O!DataAssumption
  BY BytesMoved, Sizes DEF LinkInv, Fifos
<1>2. Hosting /\ Serving /\ Command /\ Reply /\ Visible
  BY DEF LinkInv
<1> DEFINE winc == fr /\ Winc
           rinc == hr /\ UsbRead
<1>3. winc \in BOOLEAN /\ rinc \in BOOLEAN
  BY DEF Edge, Accesses, UsbRead, Winc
<1>4. O!Step(winc, OutByte, rinc)
  BY DEF Edge, Moves, OutByte
<1>5. PICK s : s = Response(host.cmd.id)
  OBVIOUS
<1>6. PICK k \in Nat : k = IF host.pc = "read" THEN host.n ELSE 0
  BY <1>2 DEF Hosting
<1>7. O!Stored(o_mem, o_wbin, o_rbin, s, k)
  BY <1>2, <1>5, <1>6 DEF Reply
<1>8. o_wbin \in O!Position /\ o_rbin \in O!Position
  BY <1>1 DEF O!IInv, O!TypeOK
<1>9. Pending \in Nat /\ Pending = O!Ahead(o_wbin, o_rbin)
  BY <1>1, <1>8, O!FlagTests DEF Pending
<1>10. (winc => ~o_wfull) /\ (rinc => ~o_rempty)
  BY <1>2 DEF Visible, Serving, UsbRead, Winc
<1>11. winc => OutByte = s[k + O!Ahead(o_wbin, o_rbin) + 1]
  <2>1. SUFFICES ASSUME winc PROVE OutByte = s[k + Pending + 1]
    BY <1>9
  <2>2. fw.pc = "tx" /\ ~Receiving
    BY <2>1 DEF Winc, Receiving
  <2>3. host.pc = "wait"
    BY <1>2, <2>2 DEF Command, Hosting
  <2>4. Pending = fw.sent /\ k = 0 /\ fw.id = host.cmd.id /\ fw.sent \in Nat
    BY <1>2, <1>6, <2>2, <2>3 DEF Reply, Sent, Answered, Command, Serving
  <2> QED
    BY <1>5, <2>1, <2>4 DEF OutByte, Winc, WData
<1> HIDE DEF winc, rinc
<1>12. LET pushed == IF winc /\ ~o_wfull  THEN 1 ELSE 0
           popped == IF rinc /\ ~o_rempty THEN 1 ELSE 0
       IN  /\ O!Ahead(o_wbin', o_rbin') = O!Ahead(o_wbin, o_rbin) + pushed - popped
           /\ popped = 1 => O!Ahead(o_wbin, o_rbin) > 0 /\ o_rdata' = s[k + 1]
           /\ O!Stored(o_mem', o_wbin', o_rbin', s, k + popped)
  BY <1>1, <1>3, <1>4, <1>7, <1>11, O!StepStored
<1>13. Pending' = O!Ahead(o_wbin', o_rbin')
  BY DEF Pending
<1>14. /\ Pending' = Pending + One(winc) - One(rinc)
       /\ rinc => Pending > 0 /\ o_rdata' = s[k + 1]
       /\ O!Stored(o_mem', o_wbin', o_rbin', s, k + One(rinc))
  BY <1>9, <1>10, <1>12, <1>13 DEF One
<1>15. rinc => k = host.n
  BY <1>6 DEF rinc, UsbRead
<1> QED
  BY <1>5, <1>6, <1>9, <1>14, <1>15 DEF winc, rinc

-----------------------------------------------------------------------------
(* What an edge does to the host and to the firmware *)

\* The host's program, step by step.
LEMMA HostMoves ==
  ASSUME Regular, Hosting, NEW wb, NEW usb, NEW fr, NEW hr, Accesses(wb, usb, fr, hr)
  PROVE  /\ Hosting'
         /\ ~hr => host' = host
         /\ hr /\ host.pc = "write" /\ host.n <= DataLen =>
                host'.pc = "write" /\ host'.n = host.n + 1 /\ host'.cmd = host.cmd
         /\ hr /\ host.pc = "write" /\ host.n = DataLen + 1 =>
                host'.pc = "wait" /\ host'.n = 0 /\ host'.cmd = host.cmd
         /\ hr /\ host.pc = "wait" /\ ~flag_sync_clr[1] => host' = host
         /\ hr /\ host.pc = "wait" /\ flag_sync_clr[1] =>
                host'.pc = "read" /\ host'.n = 0 /\ host'.cmd = host.cmd
         /\ hr /\ host.pc = "read" /\ host.n + 1 < RespLen =>
                host'.pc = "read" /\ host'.n = host.n + 1 /\ host'.cmd = host.cmd
         /\ hr /\ host.pc = "read" /\ host.n + 1 = RespLen =>
                host'.pc = "write" /\ host'.n = 0
<1>0. DataLen \in Nat /\ RespLen \in Nat \ {0} /\ CheckDone
  BY Sizes DEF Regular
<1>1. CASE ~hr
  <2>1. host' = host
    BY <1>1 DEF Accesses
  <2> QED
    BY <1>1, <2>1 DEF Hosting
<1>2. CASE hr
  <2>1. PICK cmd \in NextCmds : host' = HostNext(cmd)
    BY <1>2 DEF Accesses
  <2>2. cmd \in Cmds
    BY DEF NextCmds
  <2>3. CASE host.pc = "write"
    <3>1. HostNext(cmd) = IF host.n < DataLen + 1 THEN [host EXCEPT !.n = @ + 1]
                          ELSE [host EXCEPT !.pc = "wait", !.n = 0]
      BY <1>0, <2>3 DEF HostNext, AfterLine
    <3> QED
      BY <1>0, <1>2, <2>1, <2>3, <3>1 DEF Hosting
  <2>4. CASE host.pc = "wait"
    <3>1. HostNext(cmd) = IF flag_sync_clr[1] THEN [host EXCEPT !.pc = "read"] ELSE host
      BY <2>4 DEF HostNext
    <3> QED
      BY <1>0, <1>2, <2>1, <2>4, <3>1 DEF Hosting
  <2>5. CASE host.pc = "read"
    <3>1. HostNext(cmd) = IF host.n + 1 < RespLen THEN [host EXCEPT !.n = @ + 1]
                          ELSE [pc |-> "write", cmd |-> cmd, n |-> 0]
      BY <2>5 DEF HostNext, AfterRead, Send
    <3> QED
      BY <1>0, <1>2, <2>1, <2>2, <2>5, <3>1 DEF Hosting
  <2> QED
    BY <2>3, <2>4, <2>5 DEF Hosting
<1> QED
  BY <1>1, <1>2 DEF Accesses

\* The byte that the firmware gets is the one its line has there: it never gives up.
LEMMA LineGoesOn ==
  ASSUME Regular, Hosting, Serving, fw.pc = "rx", fw.got > 0 => fw.id = host.cmd.id
  PROVE  AfterByte(Line(host.cmd)[fw.got + 1]) =
            IF fw.got <= DataLen
            THEN [fw EXCEPT !.pc = "poll_rx", !.got = fw.got + 1, !.id = host.cmd.id]
            ELSE [fw EXCEPT !.pc = "sca_read", !.got = 0]
<1> DEFINE b == Line(host.cmd)[fw.got + 1]
           c == host.cmd
<1>1. /\ DataLen \in Nat /\ c \in [id : Ids, known : {TRUE}] /\ c \in Cmds
      /\ fw.got \in 0 .. DataLen + 1
  <2>1. c \in Cmds /\ fw.got \in Nat /\ fw.got <= DataLen + 1
    BY DEF Hosting, Serving
  <2>2. DataLen \in Nat /\ Cmds = [id : Ids, known : {TRUE}]
    BY Sizes
  <2>3. fw.got \in 0 .. DataLen + 1
    BY <2>1, <2>2
  <2> QED
    BY <2>1, <2>2, <2>3
<1>2. b = IF fw.got = 0 THEN Letter(c) ELSE IF fw.got <= DataLen THEN Digit(c, fw.got) ELSE Newline(c)
  BY <1>1, LineBytes
<1> HIDE DEF b
<1>3. CASE fw.got = 0
  <2>0. c.known = TRUE
    BY <1>1
  <2>1. b = <<"letter", c.id, 1>>
    BY <2>0, <1>1, <1>2, <1>3 DEF Letter
  <2>2. b[1] = "letter" /\ b[2] = c.id /\ b[3] = 1
    BY <2>1
  <2>3. AfterByte(b) = [[fw EXCEPT !.pc = "poll_rx", !.got = @ + 1] EXCEPT !.id = c.id]
    BY <1>3, <2>2 DEF AfterByte
  <2> QED
    BY <1>1, <1>3, <2>3 DEF b
<1>4. CASE fw.got # 0 /\ fw.got <= DataLen
  <2>1. b[1] = "digit"
    BY <1>1, <1>2, <1>4 DEF Digit
  <2>2. AfterByte(b) = [fw EXCEPT !.pc = "poll_rx", !.got = @ + 1]
    BY <1>4, <2>1 DEF AfterByte
  <2>3. fw.id = c.id
    BY <1>1, <1>4
  <2>4. [fw EXCEPT !.pc = "poll_rx", !.got = @ + 1]
           = [fw EXCEPT !.pc = "poll_rx", !.got = fw.got + 1, !.id = c.id]
    BY <2>3 DEF Serving
  <2> QED
    BY <1>4, <2>2, <2>4 DEF b
<1>5. CASE ~(fw.got <= DataLen)
  <2>1. fw.got # 0
    BY <1>1, <1>5
  <2>2. b[1] = "newline"
    BY <1>1, <1>2, <1>5, <2>1 DEF Newline
  <2>3. AfterByte(b) = [fw EXCEPT !.pc = "sca_read", !.got = 0]
    BY <1>5, <2>1, <2>2 DEF AfterByte
  <2> QED
    BY <1>5, <2>3 DEF b
<1> QED
  BY <1>3, <1>4, <1>5

\* The firmware's program, step by step, on a line that the host has sent.
LEMMA FwMoves ==
  ASSUME Regular, LinkInv, NEW wb, NEW usb, NEW fr, NEW hr, Edge(wb, usb, fr, hr)
  PROVE  /\ ~fr => fw' = fw
         /\ fr /\ fw.pc = "poll_rx" => fw' = IF i_rempty THEN fw ELSE [fw EXCEPT !.pc = "rx"]
         /\ fr /\ fw.pc = "rx" =>
                fw' = IF fw.got <= DataLen
                      THEN [fw EXCEPT !.pc = "poll_rx", !.got = fw.got + 1, !.id = host.cmd.id]
                      ELSE [fw EXCEPT !.pc = "sca_read", !.got = 0]
         /\ fr /\ fw.pc = "sca_read"  => fw' = [fw EXCEPT !.pc = "sca_write", !.sca = flag_reg']
         /\ fr /\ fw.pc = "sca_write" => fw' = [fw EXCEPT !.pc = "poll_tx", !.sca = FALSE]
         /\ fr /\ fw.pc = "poll_tx"   => fw' = IF o_wfull THEN fw ELSE [fw EXCEPT !.pc = "tx"]
         /\ fr /\ fw.pc = "tx" =>
                fw' = IF fw.sent + 1 < RespLen THEN [fw EXCEPT !.pc = "poll_tx", !.sent = @ + 1]
                      ELSE [fw EXCEPT !.pc = "done", !.sent = 0]
         /\ fr /\ fw.pc = "done" => fw' = FwStart
<1>1. /\ fr => fw' = FwNext(i_rdata', flag_reg')
      /\ ~fr => fw' = fw
  BY DEF Edge, Accesses
<1>2. Hosting /\ Serving /\ (fw.got > 0 => fw.id = host.cmd.id)
  BY DEF LinkInv, Command
<1>3. ASSUME fr, fw.pc = "rx"
      PROVE  fw' = IF fw.got <= DataLen
                   THEN [fw EXCEPT !.pc = "poll_rx", !.got = fw.got + 1, !.id = host.cmd.id]
                   ELSE [fw EXCEPT !.pc = "sca_read", !.got = 0]
  <2>1. i_rdata' = Line(host.cmd)[fw.got + 1]
    BY <1>3, InMoves DEF Rinc
  <2>2. fw' = AfterByte(Line(host.cmd)[fw.got + 1])
    BY <1>1, <1>3, <2>1 DEF FwNext
  <2> QED
    BY <1>2, <1>3, <2>2, LineGoesOn
<1>4. /\ fr /\ fw.pc = "poll_rx" => fw' = IF i_rempty THEN fw ELSE [fw EXCEPT !.pc = "rx"]
      /\ fr /\ fw.pc = "sca_read"  => fw' = [fw EXCEPT !.pc = "sca_write", !.sca = flag_reg']
      /\ fr /\ fw.pc = "sca_write" => fw' = [fw EXCEPT !.pc = "poll_tx", !.sca = FALSE]
      /\ fr /\ fw.pc = "poll_tx"   => fw' = IF o_wfull THEN fw ELSE [fw EXCEPT !.pc = "tx"]
      /\ fr /\ fw.pc = "tx"   => fw' = AfterTx
      /\ fr /\ fw.pc = "done" => fw' = FwStart
  BY <1>1 DEF FwNext
<1> QED
  BY <1>1, <1>3, <1>4 DEF AfterTx

\* What the firmware makes of it, by the part of its work.
LEMMA FwParts ==
  ASSUME Regular, LinkInv, NEW wb, NEW usb, NEW fr, NEW hr, Edge(wb, usb, fr, hr)
  PROVE  /\ fr \in BOOLEAN
         /\ fr /\ Rinc => Receiving
         /\ fr /\ Rinc /\ fw.got <= DataLen =>
                Receiving' /\ fw'.pc = "poll_rx" /\ fw'.got = fw.got + 1 /\ fw'.id = host.cmd.id
         /\ fr /\ Rinc /\ fw.got = DataLen + 1 =>
                fw'.pc = "sca_read" /\ fw'.got = 0 /\ fw'.id = fw.id
         /\ ~(fr /\ Rinc) => fw'.got = fw.got
         /\ ~(fr /\ Rinc) /\ Receiving => Receiving' /\ fw'.id = fw.id
         /\ ~Receiving /\ fw'.pc # "poll_rx" => ~Receiving' /\ fw'.id = fw.id
         /\ ~Receiving /\ Receiving' => fr /\ fw.pc = "done" /\ fw' = FwStart
<1>1. Serving /\ DataLen \in Nat
  BY Sizes DEF LinkInv
<1>2. fr \in BOOLEAN
  BY DEF Edge, Accesses
<1>3. CASE fw.pc = "rx"
  <2>1. CASE ~fr
    BY <1>1, <1>2, <1>3, <2>1, FwMoves DEF Receiving, Rinc
  <2>a. fr => fw' = IF fw.got <= DataLen
                    THEN [fw EXCEPT !.pc = "poll_rx", !.got = fw.got + 1, !.id = host.cmd.id]
                    ELSE [fw EXCEPT !.pc = "sca_read", !.got = 0]
    BY <1>3, FwMoves
  <2>2. CASE fr /\ fw.got <= DataLen
    <3>1. fw' = [fw EXCEPT !.pc = "poll_rx", !.got = fw.got + 1, !.id = host.cmd.id]
      BY <2>2, <2>a
    <3>2. fw'.pc = "poll_rx" /\ fw'.got = fw.got + 1 /\ fw'.id = host.cmd.id
      BY <1>1, <3>1 DEF Serving
    <3>3. fw.got # DataLen + 1
      BY <1>1, <2>2 DEF Serving
    <3> QED
      BY <1>2, <1>3, <2>2, <3>2, <3>3 DEF Receiving, Rinc
  <2>3. CASE fr /\ ~(fw.got <= DataLen)
    <3>1. fw' = [fw EXCEPT !.pc = "sca_read", !.got = 0]
      BY <2>3, <2>a
    <3>2. fw'.pc = "sca_read" /\ fw'.got = 0 /\ fw'.id = fw.id
      BY <1>1, <3>1 DEF Serving
    <3> QED
      BY <1>2, <1>3, <2>3, <3>2 DEF Receiving, Rinc
  <2> QED
    BY <1>2, <2>1, <2>2, <2>3
<1>4. CASE fw.pc = "poll_rx"
  <2>1. fw' = fw \/ fw' = [fw EXCEPT !.pc = "rx"]
    BY <1>2, <1>4, FwMoves
  <2>2. fw'.pc \in {"poll_rx", "rx"} /\ fw'.got = fw.got /\ fw'.id = fw.id
    BY <1>1, <1>4, <2>1 DEF Serving
  <2> QED
    BY <1>2, <1>4, <2>2 DEF Receiving, Rinc
<1>5. CASE ~Receiving
  <2>1. fw.got = 0 /\ ~Rinc
    BY <1>1, <1>5 DEF Serving, Receiving, Rinc
  <2>2. CASE ~fr
    <3>1. fw' = fw
      BY <2>2, FwMoves
    <3>2. Receiving' <=> Receiving
      BY <3>1 DEF Receiving
    <3> QED
      BY <1>2, <1>5, <2>1, <2>2, <3>1, <3>2
  <2>3. CASE fw.pc = "done" /\ fr
    <3>1. fw' = FwStart
      BY <2>3, FwMoves
    <3>2. fw'.pc = "poll_rx" /\ fw'.got = 0 /\ Receiving'
      BY <3>1 DEF FwStart, Receiving
    <3> QED
      BY <1>2, <1>5, <2>1, <2>3, <3>1, <3>2
  <2>4. CASE fr /\ fw.pc \in {"sca_read", "sca_write", "poll_tx", "tx"}
    <3>1. /\ fw'.pc \in {"sca_write", "poll_tx", "tx", "done"}
          /\ fw'.got = fw.got /\ fw'.id = fw.id
      BY <1>1, <2>4, FwMoves DEF Serving
    <3> QED
      BY <1>2, <1>5, <2>1, <3>1 DEF Receiving
  <2> QED
    BY <1>1, <1>2, <1>5, <2>2, <2>3, <2>4 DEF Serving, Receiving
<1> QED
  BY <1>3, <1>4, <1>5 DEF Receiving

\* A byte that one side sees to be there, or a free cell, stays until that side takes it.
LEMMA InStays ==
  ASSUME Regular, LinkInv, NEW wb, NEW usb, NEW fr, NEW hr, Edge(wb, usb, fr, hr),
         ~i_rempty, ~(fr /\ Rinc)
  PROVE  ~i_rempty'
<1>1. Sees(wb, usb) /\ wb \in BOOLEAN /\ i_rbin' = I!RbinNext(fr /\ Rinc)
  BY DEF Edge, Accesses, Moves, I!Step
<1>2. i_rbin' = i_rbin
  BY <1>1 DEF I!RbinNext
<1>3. i_rbin # i_rq2
  <2>1. I!Ahead(i_wbin, i_rq2) < I!Ahead(i_wbin, i_rbin) /\ I!DepthAssumption /\ I!DataAssumption
    BY Sizes DEF LinkInv, Fifos, I!IInv
  <2>2. i_wbin \in I!Position /\ i_rbin \in I!Position
    BY DEF LinkInv, Fifos, I!IInv, I!TypeOK
  <2>3. I!Ahead(i_wbin, i_rbin) \in Nat
    BY <2>1, <2>2, I!FlagTests
  <2> QED
    BY <2>1, <2>3
<1> QED
  BY <1>1, <1>2, <1>3 DEF Sees, I!EmptyVal

\* The same for the response's FIFO and its free cells.
LEMMA OutStays ==
  ASSUME Regular, LinkInv, NEW wb, NEW usb, NEW fr, NEW hr, Edge(wb, usb, fr, hr),
         ~o_wfull, ~(fr /\ Winc)
  PROVE  ~o_wfull'
<1>1. Sees(wb, usb) /\ wb \in BOOLEAN /\ o_wbin' = O!WbinNext(fr /\ Winc)
  BY DEF Edge, Accesses, Moves, O!Step
<1>2. o_wbin' = o_wbin
  BY <1>1 DEF O!WbinNext
<1>3. ~O!FullVal(o_wbin, o_wq2)
  <2>1. /\ O!Ahead(o_wbin, o_wq2) < Depth
        /\ O!DepthAssumption /\ O!DataAssumption /\ Depth \in Nat
    BY Sizes DEF LinkInv, Fifos, O!IInv
  <2>2. o_wbin \in O!Position /\ o_wq2 \in O!Position
    BY DEF LinkInv, Fifos, O!IInv, O!TypeOK
  <2>3. O!FullVal(o_wbin, o_wq2) <=> O!Ahead(o_wbin, o_wq2) = Depth
    BY <2>1, <2>2, O!FlagTests
  <2>4. O!Ahead(o_wbin, o_wq2) \in Nat
    BY <2>1, <2>2, O!FlagTests
  <2> QED
    BY <2>1, <2>3, <2>4
<1> QED
  BY <1>1, <1>2, <1>3 DEF Sees

\* What InStays and OutStays say, for the firmware's two polls.
Stays(fr) == /\ ~i_rempty /\ ~(fr /\ Rinc) => ~i_rempty'
             /\ ~o_wfull /\ ~(fr /\ Winc) => ~o_wfull'

\* While the firmware works, the host waits, and DONE is low.
LEMMA Working ==
  ASSUME LinkInv, ~Receiving
  PROVE  host.pc = "wait" /\ ~Answered /\ ~flag_reg /\ Transit = 0 /\ fw.got = 0
  BY DEF LinkInv, Hosting, Serving, Command, Clearing, Answered

\* The firmware keeps to its program, and finds what its last poll promised it.
LEMMA ServingNext ==
  ASSUME Regular, LinkInv, NEW wb, NEW usb, NEW fr, NEW hr, Edge(wb, usb, fr, hr)
  PROVE  Serving'
<1>1. Serving /\ Hosting /\ DataLen \in Nat /\ RespLen \in Nat \ {0} /\ fr \in BOOLEAN
  BY Sizes DEF LinkInv, Edge, Accesses
<1>2. fr /\ fw.pc = "sca_read" => flag_reg' = FALSE
  <2>1. SUFFICES ASSUME fr, fw.pc = "sca_read" PROVE flag_reg' = FALSE
    OBVIOUS
  <2>2. ~Receiving /\ ~SetDone
    BY <2>1 DEF Receiving, SetDone
  <2>3. ~flag_reg
    BY <2>2, Working
  <2>4. flag_reg' = Done!FlagNext(fr /\ SetDone)
    BY <2>1 DEF Edge, Accesses, Flags
  <2> QED
    BY <2>2, <2>3, <2>4 DEF Done!FlagNext
<1>3. host.cmd.id \in Ids
  <2>1. host.cmd \in Cmds /\ Cmds = [id : Ids, known : {TRUE}]
    BY <1>1, Sizes DEF Hosting
  <2> QED
    BY <2>1
<1>4. Stays(fr)
  BY InStays, OutStays DEF Stays
<1>5. CASE ~fr
  <2>1. fw' = fw
    BY <1>5, FwMoves
  <2> QED
    BY <1>1, <1>4, <1>5, <2>1 DEF Serving, Receiving, Stays
<1>6. CASE fr /\ fw.pc = "poll_rx"
  <2>1. fw' = IF i_rempty THEN fw ELSE [fw EXCEPT !.pc = "rx"]
    BY <1>6, FwMoves
  <2>2. CASE i_rempty
    BY <1>1, <1>6, <2>1, <2>2 DEF Serving, Receiving
  <2>3. CASE ~i_rempty
    <3>1. ~i_rempty'
      BY <1>4, <1>6, <2>3 DEF Stays, Rinc
    <3>2. /\ DOMAIN fw' = DOMAIN fw /\ fw'.pc = "rx" /\ fw'.got = fw.got /\ fw'.id = fw.id
          /\ fw'.sent = fw.sent /\ fw'.sca = fw.sca
      BY <1>1, <2>1, <2>3 DEF Serving
    <3> QED
      BY <1>1, <1>6, <3>1, <3>2 DEF Serving, Receiving
  <2> QED
    BY <2>2, <2>3
<1>7. CASE fr /\ fw.pc = "rx"
  <2>1. fw' = IF fw.got <= DataLen
              THEN [fw EXCEPT !.pc = "poll_rx", !.got = fw.got + 1, !.id = host.cmd.id]
              ELSE [fw EXCEPT !.pc = "sca_read", !.got = 0]
    BY <1>7, FwMoves
  <2>2. CASE fw.got <= DataLen
    <3>1. /\ DOMAIN fw' = DOMAIN fw /\ fw'.pc = "poll_rx" /\ fw'.got = fw.got + 1
          /\ fw'.id = host.cmd.id /\ fw'.sent = fw.sent /\ fw'.sca = fw.sca
      BY <1>1, <2>1, <2>2 DEF Serving
    <3> QED
      BY <1>1, <1>3, <1>7, <2>2, <3>1 DEF Serving, Receiving
  <2>3. CASE ~(fw.got <= DataLen)
    <3>1. /\ DOMAIN fw' = DOMAIN fw /\ fw'.pc = "sca_read" /\ fw'.got = 0
          /\ fw'.id = fw.id /\ fw'.sent = fw.sent /\ fw'.sca = fw.sca
      BY <1>1, <2>1, <2>3 DEF Serving
    <3> QED
      BY <1>1, <1>7, <3>1 DEF Serving, Receiving
  <2> QED
    BY <2>2, <2>3
<1>8. CASE fr /\ fw.pc = "sca_read"
  <2>1. fw' = [fw EXCEPT !.pc = "sca_write", !.sca = FALSE]
    BY <1>2, <1>8, FwMoves
  <2>2. /\ DOMAIN fw' = DOMAIN fw /\ fw'.pc = "sca_write" /\ fw'.got = fw.got
        /\ fw'.id = fw.id /\ fw'.sent = fw.sent /\ fw'.sca = FALSE
    BY <1>1, <2>1 DEF Serving
  <2> QED
    BY <1>1, <1>8, <2>2 DEF Serving, Receiving
<1>9. CASE fr /\ fw.pc = "sca_write"
  <2>1. fw' = [fw EXCEPT !.pc = "poll_tx", !.sca = FALSE]
    BY <1>9, FwMoves
  <2>2. /\ DOMAIN fw' = DOMAIN fw /\ fw'.pc = "poll_tx" /\ fw'.got = fw.got
        /\ fw'.id = fw.id /\ fw'.sent = fw.sent /\ fw'.sca = FALSE
    BY <1>1, <2>1 DEF Serving
  <2> QED
    BY <1>1, <1>9, <2>2 DEF Serving, Receiving
<1>10. CASE fr /\ fw.pc = "poll_tx"
  <2>1. fw' = IF o_wfull THEN fw ELSE [fw EXCEPT !.pc = "tx"]
    BY <1>10, FwMoves
  <2>2. CASE o_wfull
    BY <1>1, <1>10, <2>1, <2>2 DEF Serving, Receiving
  <2>3. CASE ~o_wfull
    <3>1. ~o_wfull'
      BY <1>4, <1>10, <2>3 DEF Stays, Winc
    <3>2. /\ DOMAIN fw' = DOMAIN fw /\ fw'.pc = "tx" /\ fw'.got = fw.got /\ fw'.id = fw.id
          /\ fw'.sent = fw.sent /\ fw'.sca = fw.sca
      BY <1>1, <2>1, <2>3 DEF Serving
    <3> QED
      BY <1>1, <1>10, <3>1, <3>2 DEF Serving, Receiving
  <2> QED
    BY <2>2, <2>3
<1>11. CASE fr /\ fw.pc = "tx"
  <2>1. fw' = IF fw.sent + 1 < RespLen THEN [fw EXCEPT !.pc = "poll_tx", !.sent = fw.sent + 1]
              ELSE [fw EXCEPT !.pc = "done", !.sent = 0]
    BY <1>11, FwMoves
  <2>2. CASE fw.sent + 1 < RespLen
    <3>1. /\ DOMAIN fw' = DOMAIN fw /\ fw'.pc = "poll_tx" /\ fw'.got = fw.got
          /\ fw'.id = fw.id /\ fw'.sent = fw.sent + 1 /\ fw'.sca = fw.sca
      BY <1>1, <2>1, <2>2 DEF Serving
    <3> QED
      BY <1>1, <1>11, <2>2, <3>1 DEF Serving, Receiving
  <2>3. CASE ~(fw.sent + 1 < RespLen)
    <3>1. /\ DOMAIN fw' = DOMAIN fw /\ fw'.pc = "done" /\ fw'.got = fw.got
          /\ fw'.id = fw.id /\ fw'.sent = 0 /\ fw'.sca = fw.sca
      BY <1>1, <2>1, <2>3 DEF Serving
    <3> QED
      BY <1>1, <1>11, <3>1 DEF Serving, Receiving
  <2> QED
    BY <2>2, <2>3
<1>12. CASE fr /\ fw.pc = "done"
  <2>1. fw' = FwStart
    BY <1>12, FwMoves
  <2> QED
    BY <1>1, <2>1 DEF FwStart, Serving, Receiving, Ids
<1> QED
  BY <1>1, <1>5, <1>6, <1>7, <1>8, <1>9, <1>10, <1>11, <1>12 DEF Serving

\* The rounds of the two clocks are counted up to Gap.
LEMMA RestingNext ==
  ASSUME Regular, Resting, NEW wb, NEW usb, NEW fr, NEW hr, Accesses(wb, usb, fr, hr)
  PROVE  Resting'
<1>1. Gap \in Nat /\ Gap >= 2
  BY Sizes DEF Regular
<1>2. Pass(wb, usb, hr) /\ wb \in BOOLEAN /\ usb \in BOOLEAN
  BY DEF Accesses
<1>3. CASE hr
  BY <1>1, <1>2, <1>3 DEF Pass, Resting
<1>4. CASE ~hr /\ rest.rounds = Gap
  BY <1>1, <1>2, <1>4 DEF Pass, Resting
<1>5. CASE ~hr /\ rest.rounds # Gap
  <2> DEFINE r == [rest EXCEPT !.wb = @ \/ wb, !.usb = @ \/ usb]
  <2>1. rest' = IF r.wb /\ r.usb THEN [rounds |-> rest.rounds + 1, wb |-> FALSE, usb |-> FALSE]
                ELSE r
    BY <1>2, <1>5 DEF Pass
  <2>2. DOMAIN r = DOMAIN rest /\ r.rounds = rest.rounds
    BY DEF Resting
  <2>3. r.wb \in BOOLEAN /\ r.usb \in BOOLEAN
    BY <1>2 DEF Resting
  <2> HIDE DEF r
  <2>4. CASE r.wb /\ r.usb
    <3>1. rest' = [rounds |-> rest.rounds + 1, wb |-> FALSE, usb |-> FALSE]
      BY <2>1, <2>4
    <3>2. rest.rounds + 1 \in Nat /\ rest.rounds + 1 <= Gap
      BY <1>1, <1>5 DEF Resting
    <3> QED
      BY <3>1, <3>2 DEF Resting
  <2>5. CASE ~(r.wb /\ r.usb)
    <3>1. rest' = r
      BY <2>1, <2>5
    <3> QED
      BY <2>2, <2>3, <3>1 DEF Resting
  <2> QED
    BY <2>4, <2>5
<1>6. hr \in BOOLEAN
  BY DEF Accesses
<1> QED
  BY <1>3, <1>4, <1>5, <1>6
\* An empty FIFO holds whatever one likes to say it holds.
LEMMA NoneLeft ==
  ASSUME NEW s, NEW k
  PROVE  /\ Transit' = 0 => I!Stored(i_mem', i_wbin', i_rbin', s, k)
         /\ Pending' = 0 => O!Stored(o_mem', o_wbin', o_rbin', s, k)
<1>1. ASSUME NEW j \in 0 .. 0 - 1 PROVE FALSE
  OBVIOUS
<1> QED
  BY <1>1 DEF Transit, Pending, I!Stored, O!Stored

\* How the host and the firmware come to agree that a command is answered.
LEMMA Answering ==
  ASSUME Regular, LinkInv, NEW wb, NEW usb, NEW fr, NEW hr, Edge(wb, usb, fr, hr)
  PROVE  /\ Answered => \/ Answered' /\ host' = host
                        \/ hr /\ flag_sync_clr[1] /\ host'.pc = "read" /\ host'.n = 0
                           /\ host'.cmd = host.cmd
         /\ host.pc = "wait" /\ ~Answered => host' = host
         /\ Answered' => Answered \/ (fr /\ fw.pc = "done" /\ host.pc = "wait")
         /\ fr /\ fw.pc = "done" => Answered'
         /\ Answered \/ host.pc \in {"write", "read"} => Receiving /\ Receiving'
         /\ Answered \/ host.pc = "read" => ~(fr /\ Rinc) /\ Transit = 0 /\ Transit' = 0 /\ fw'.got = 0
         /\ host.pc = "write" /\ host'.pc = "wait" => ~Answered'
<1>1. /\ Hosting /\ Serving /\ Command /\ Clearing /\ DataLen \in Nat /\ RespLen \in Nat \ {0}
      /\ fr \in BOOLEAN /\ hr \in BOOLEAN /\ Accesses(wb, usb, fr, hr)
  BY Sizes DEF LinkInv, Edge, Accesses
<1> DEFINE rx == fr /\ Rinc
           w  == hr /\ UsbWrite
<1>2. /\ Transit \in Nat /\ Transit' = Transit + One(w) - One(rx) /\ (rx => Transit > 0)
  BY InMoves
<1>3. /\ rx => Receiving
      /\ rx /\ fw.got <= DataLen => Receiving' /\ fw'.got = fw.got + 1
      /\ rx /\ fw.got = DataLen + 1 => fw'.pc = "sca_read" /\ fw'.got = 0
      /\ ~rx => fw'.got = fw.got
      /\ ~rx /\ Receiving => Receiving'
      /\ ~Receiving /\ Receiving' => fr /\ fw.pc = "done" /\ fw' = FwStart
  BY FwParts
<1>4. rx \in BOOLEAN /\ w \in BOOLEAN /\ (w => host.pc = "write")
  BY <1>1 DEF UsbWrite, Rinc
<1>5. fw.got \in Nat /\ fw.got <= DataLen + 1
  BY <1>1 DEF Serving
<1> HIDE DEF rx, w
<1>6. ASSUME Answered \/ host.pc = "read"
      PROVE  Receiving /\ Receiving' /\ ~rx /\ Transit = 0 /\ Transit' = 0 /\ fw'.got = 0
  <2>1. Receiving /\ fw.got = 0 /\ Transit = 0 /\ ~w
    BY <1>1, <1>4, <1>6 DEF Answered, Command
  <2> QED
    BY <1>2, <1>3, <1>4, <2>1 DEF One
<1>7. ASSUME host.pc = "write"
      PROVE  Receiving /\ Receiving' /\ fw'.got + Transit' = host.n + One(w)
  <2>1. Receiving /\ fw.got + Transit = host.n /\ host.n <= DataLen + 1 /\ host.n \in Nat
    BY <1>1, <1>7 DEF Command, Hosting
  <2>2. One(w) \in {0, 1}
    BY DEF One
  <2>3. CASE rx
    BY <1>1, <1>2, <1>3, <1>5, <2>1, <2>2, <2>3 DEF One
  <2>4. CASE ~rx
    BY <1>1, <1>2, <1>3, <1>5, <2>1, <2>2, <2>4 DEF One
  <2> QED
    BY <1>4, <2>3, <2>4
<1>8. ASSUME host.pc = "wait", ~Answered PROVE host' = host
  <2>1. ~flag_sync_clr[1]
    BY <1>1, <1>8 DEF Clearing
  <2> QED
    BY <1>1, <1>8, <2>1, HostMoves
<1>9. ASSUME Answered
      PROVE  \/ Answered' /\ host' = host
             \/ hr /\ flag_sync_clr[1] /\ host'.pc = "read" /\ host'.n = 0 /\ host'.cmd = host.cmd
  <2>1. host.pc = "wait"
    BY <1>9 DEF Answered
  <2>2. \/ host' = host
        \/ hr /\ flag_sync_clr[1] /\ host'.pc = "read" /\ host'.n = 0 /\ host'.cmd = host.cmd
    BY <1>1, <2>1, HostMoves
  <2>3. host' = host => Answered'
    BY <1>6, <1>9, <2>1 DEF Answered
  <2> QED
    BY <2>2, <2>3
<1>10. ASSUME fr, fw.pc = "done" PROVE Answered'
  <2>1. ~Receiving
    BY <1>10 DEF Receiving
  <2>2. host.pc = "wait" /\ ~Answered /\ Transit = 0 /\ fw.got = 0
    BY <2>1, Working
  <2>3. host' = host /\ ~rx /\ ~w
    BY <1>3, <1>4, <1>8, <2>1, <2>2
  <2>4. Transit' = 0
    BY <1>2, <2>2, <2>3 DEF One
  <2>5. fw' = FwStart
    BY <1>10, FwMoves
  <2> QED
    BY <2>2, <2>3, <2>4, <2>5 DEF Answered, FwStart, Receiving
<1>11. ASSUME host.pc = "write", host'.pc = "wait" PROVE ~Answered'
  <2>1. host' # host
    BY <1>11
  <2>2. w /\ host.n \in Nat
    BY <1>1, <1>11, <2>1, HostMoves DEF Hosting, w, UsbWrite
  <2>3. fw'.got + Transit' = host.n + 1
    BY <1>7, <1>11, <2>2 DEF One
  <2> QED
    BY <2>2, <2>3 DEF Answered
<1>12. ASSUME Answered', ~Answered PROVE fr /\ fw.pc = "done" /\ host.pc = "wait"
  <2>1. host'.pc = "wait" /\ Receiving' /\ fw'.got = 0 /\ Transit' = 0
    BY <1>12 DEF Answered
  <2>2. host.pc = "wait"
    <3>1. host.pc # "write"
      BY <1>11, <1>12, <2>1
    <3>2. host.pc # "read"
      BY <1>1, <2>1, HostMoves DEF Hosting
    <3> QED
      BY <1>1, <3>1, <3>2 DEF Hosting
  <2>3. ~Receiving
    <3>1. SUFFICES ASSUME Receiving PROVE FALSE
      OBVIOUS
    <3>2. fw.got + Transit = DataLen + 2
      BY <1>1, <1>12, <2>2, <3>1 DEF Command
    <3>3. One(w) = 0
      BY <1>4, <2>2 DEF One
    <3>4. CASE rx
      <4>1. fw.got <= DataLen
        <5>1. fw.got # DataLen + 1
          BY <1>3, <2>1, <3>4 DEF Receiving
        <5> QED
          BY <1>1, <1>5, <5>1
      <4> QED
        BY <1>3, <1>5, <2>1, <3>4, <4>1
    <3>5. CASE ~rx
      BY <1>1, <1>2, <1>3, <2>1, <3>2, <3>3, <3>5 DEF One
    <3> QED
      BY <1>4, <3>4, <3>5
  <2> QED
    BY <1>3, <2>1, <2>2, <2>3
<1> QED
  BY <1>6, <1>7, <1>8, <1>9, <1>10, <1>11, <1>12 DEF rx
\* The command's bytes stay in step with both programs.
LEMMA CommandNext ==
  ASSUME Regular, LinkInv, NEW wb, NEW usb, NEW fr, NEW hr, Edge(wb, usb, fr, hr)
  PROVE  Command'
<1>1. /\ Hosting /\ Serving /\ Command /\ DataLen \in Nat
      /\ fr \in BOOLEAN /\ hr \in BOOLEAN /\ Accesses(wb, usb, fr, hr)
  BY Sizes DEF LinkInv, Edge, Accesses
<1> DEFINE rx == fr /\ Rinc
           w  == hr /\ UsbWrite
<1>2. /\ Transit \in Nat /\ Transit' = Transit + One(w) - One(rx) /\ (rx => Transit > 0)
      /\ I!Stored(i_mem', i_wbin', i_rbin', Line(host.cmd), fw.got + One(rx))
  BY InMoves
<1>3. /\ rx => Receiving
      /\ rx /\ fw.got <= DataLen => Receiving' /\ fw'.got = fw.got + 1 /\ fw'.id = host.cmd.id
      /\ rx /\ fw.got = DataLen + 1 => fw'.pc = "sca_read" /\ fw'.got = 0 /\ fw'.id = fw.id
      /\ ~rx => fw'.got = fw.got
      /\ ~rx /\ Receiving => Receiving' /\ fw'.id = fw.id
      /\ ~Receiving /\ fw'.pc # "poll_rx" => ~Receiving' /\ fw'.id = fw.id
      /\ ~Receiving /\ Receiving' => fr /\ fw.pc = "done" /\ fw' = FwStart
  BY FwParts
<1>4. rx \in BOOLEAN /\ w \in BOOLEAN /\ (w <=> hr /\ host.pc = "write")
  BY <1>1 DEF UsbWrite, Rinc
<1>5. fw.got \in Nat /\ fw.got <= DataLen + 1
  BY <1>1 DEF Serving
<1> HIDE DEF rx, w
\* What the parts say when the firmware has an empty FIFO and nothing received.
<1>6. ASSUME Receiving', fw'.got = 0, Transit' = 0, host'.pc = "write" => host'.n = 0
      PROVE  Command'
  BY <1>6, NoneLeft DEF Command, Answered
<1>7. CASE host.pc = "read" \/ Answered
  <2>1. Receiving' /\ fw'.got = 0 /\ Transit' = 0
    BY <1>7, Answering
  <2>2. host'.pc = "write" => host'.n = 0
    <3>1. CASE Answered
      BY <3>1, Answering DEF Answered
    <3>2. CASE host.pc = "read"
      BY <1>1, <3>2, HostMoves, Sizes DEF Hosting
    <3> QED
      BY <1>7, <3>1, <3>2
  <2> QED
    BY <1>6, <2>1, <2>2
<1>8. CASE ~Receiving
  <2>1. host' = host /\ host.pc = "wait" /\ Transit = 0 /\ fw.got = 0
    BY <1>8, Working, Answering
  <2>2. ~rx /\ ~w
    BY <1>3, <1>4, <1>8, <2>1
  <2>3. Transit' = 0 /\ fw'.got = 0
    BY <1>2, <1>3, <2>1, <2>2 DEF One
  <2>4. CASE Receiving'
    BY <1>6, <2>1, <2>3, <2>4
  <2>5. CASE ~Receiving'
    <3>1. fw'.id = fw.id /\ fw.id = host.cmd.id
      BY <1>1, <1>3, <1>8, <2>5 DEF Receiving, Command
    <3> QED
      BY <2>1, <2>3, <2>5, <3>1, NoneLeft DEF Command
  <2> QED
    BY <2>4, <2>5
\* While bytes are under way, each that is written or read counts.
<1>9. CASE Receiving /\ host.pc \in {"write", "wait"} /\ ~Answered
  <2> DEFINE goal == IF host.pc = "write" THEN host.n ELSE DataLen + 2
  <2>1. fw.got + Transit = goal /\ goal \in Nat /\ (host.pc = "write" => goal <= DataLen + 1)
    BY <1>1, <1>9 DEF Command, Hosting
  <2>2. host'.pc \in {"write", "wait"} /\ host'.cmd = host.cmd
    <3>1. host.pc = "wait" => host' = host
      BY <1>9, Answering
    <3> QED
      BY <1>1, <1>9, <3>1, HostMoves DEF Hosting
  <2>3. /\ host'.pc = "write" => goal + One(w) = host'.n
        /\ host'.pc = "wait" => goal + One(w) = DataLen + 2
    <3>1. CASE ~hr
      <4>1. host' = host /\ ~w
        BY <1>1, <1>4, <3>1, HostMoves
      <4> QED
        BY <1>9, <2>1, <4>1 DEF One
    <3>2. CASE hr /\ host.pc = "write"
      <4>1. w /\ host.n \in Nat /\ host.n <= DataLen + 1 /\ goal = host.n
        BY <1>1, <1>4, <3>2 DEF Hosting
      <4>2. CASE host.n <= DataLen
        <5>1. host'.pc = "write" /\ host'.n = host.n + 1
          BY <1>1, <3>2, <4>2, HostMoves
        <5> QED
          BY <4>1, <5>1 DEF One
      <4>3. CASE host.n = DataLen + 1
        <5>1. host'.pc = "wait"
          BY <1>1, <3>2, <4>3, HostMoves
        <5> QED
          BY <1>1, <4>1, <4>3, <5>1 DEF One
      <4>4. host.n <= DataLen \/ host.n = DataLen + 1
        BY <1>1, <4>1
      <4> QED
        BY <4>2, <4>3, <4>4
    <3>3. CASE host.pc = "wait"
      <4>1. host' = host /\ ~w
        BY <1>4, <1>9, <3>3, Answering
      <4> QED
        BY <1>9, <2>1, <3>3, <4>1 DEF One
    <3> QED
      BY <1>1, <1>9, <3>1, <3>2, <3>3
  <2> HIDE DEF goal
  <2>4. One(w) \in {0, 1}
    BY DEF One
  <2>5. CASE rx /\ fw.got <= DataLen
    <3>1. Receiving' /\ fw'.got = fw.got + 1 /\ fw'.id = host'.cmd.id
      BY <1>3, <2>2, <2>5
    <3>2. fw'.got + Transit' = goal + One(w)
      BY <1>2, <1>5, <2>1, <2>4, <2>5, <3>1 DEF One
    <3>3. fw.got + One(rx) = fw'.got
      BY <1>5, <2>5, <3>1 DEF One
    <3> QED
      BY <1>2, <2>2, <2>3, <3>1, <3>2, <3>3 DEF Command
  <2>6. CASE rx /\ fw.got = DataLen + 1
    <3>1. Transit = 1 /\ host.pc = "wait"
      BY <1>1, <1>2, <1>9, <2>1, <2>6 DEF goal
    <3>2. Transit' = 0 /\ host' = host /\ ~w
      <4>1. host' = host /\ ~w
        BY <1>4, <1>9, <3>1, Answering
      <4> QED
        BY <1>2, <2>6, <3>1, <4>1 DEF One
    <3>3. ~Receiving' /\ fw'.got = 0 /\ fw'.id = fw.id
      BY <1>3, <2>6 DEF Receiving
    <3>4. fw.id = host.cmd.id
      BY <1>1, <2>6 DEF Command
    <3> QED
      BY <3>1, <3>2, <3>3, <3>4, NoneLeft DEF Command
  <2>7. CASE ~rx
    <3>1. Receiving' /\ fw'.got = fw.got /\ fw'.id = fw.id
      BY <1>3, <1>9, <2>7
    <3>2. fw'.got + Transit' = goal + One(w)
      BY <1>2, <1>5, <2>1, <2>4, <2>7, <3>1 DEF One
    <3>3. fw.got + One(rx) = fw'.got
      BY <1>5, <2>7, <3>1 DEF One
    <3>4. fw'.got > 0 => fw'.id = host'.cmd.id
      BY <1>1, <2>2, <3>1 DEF Command
    <3> QED
      BY <1>2, <2>2, <2>3, <3>1, <3>2, <3>3, <3>4 DEF Command
  <2>8. fw.got <= DataLen \/ fw.got = DataLen + 1
    BY <1>1, <1>5
  <2> QED
    BY <1>4, <2>5, <2>6, <2>7, <2>8
<1> QED
  BY <1>1, <1>7, <1>8, <1>9 DEF Hosting

\* What the firmware has sent of its response, with a byte more when it sends one.
LEMMA SentNext ==
  ASSUME Regular, LinkInv, NEW wb, NEW usb, NEW fr, NEW hr, Edge(wb, usb, fr, hr),
         host'.pc = "wait", Serving'
  PROVE  /\ host.pc = "wait"  => Sent' = Sent + One(fr /\ Winc) /\ Sent \in Nat
         /\ host.pc = "write" => Sent' = 0
<1>1. /\ Hosting /\ Serving /\ DataLen \in Nat /\ RespLen \in Nat \ {0}
      /\ fr \in BOOLEAN /\ hr \in BOOLEAN /\ Accesses(wb, usb, fr, hr)
  BY Sizes DEF LinkInv, Edge, Accesses
<1>2. ASSUME Receiving, ~Answered', Receiving' \/ fw'.pc = "sca_read"
      PROVE  Sent' = 0
  <2>1. fw'.pc \in {"poll_rx", "rx", "sca_read"}
    BY <1>2 DEF Receiving
  <2>2. fw'.sent = 0 /\ fw'.pc # "done"
    BY <2>1 DEF Serving
  <2> QED
    BY <1>2, <2>2 DEF Sent
<1>3. CASE host.pc = "write"
  BY <1>2, <1>3, Answering
<1>4. CASE host.pc = "wait" /\ Receiving /\ Answered
  <2>1. ~Winc /\ Sent = RespLen
    BY <1>4 DEF Receiving, Winc, Sent
  <2>2. Answered'
    BY <1>4, Answering
  <2> QED
    BY <1>1, <1>4, <2>1, <2>2 DEF Sent, One
<1>5. CASE host.pc = "wait" /\ Receiving /\ ~Answered
  <2>1. ~Winc /\ Sent = 0
    BY <1>1, <1>5 DEF Receiving, Winc, Sent, Serving
  <2>2. ~Answered'
    BY <1>5, Answering DEF Receiving
  <2>3. Receiving' \/ fw'.pc = "sca_read"
    <3>1. fw.got <= DataLen \/ fw.got = DataLen + 1
      BY <1>1 DEF Serving
    <3> QED
      BY <1>1, <1>5, <3>1, FwParts DEF Rinc
  <2> QED
    BY <1>2, <1>5, <2>1, <2>2, <2>3 DEF One
<1>6. CASE host.pc = "wait" /\ ~Receiving
  <2>1. ~Answered
    BY <1>6 DEF Answered
  <2>2. CASE fr /\ fw.pc = "done"
    <3>1. Answered' /\ ~Winc
      BY <2>2, Answering DEF Winc
    <3> QED
      BY <1>1, <1>6, <2>2, <3>1 DEF Sent, One
  <2>3. CASE ~(fr /\ fw.pc = "done")
    <3>1. ~Answered'
      BY <2>1, <2>3, Answering
    <3>2. CASE ~fr
      <4>1. fw' = fw
        BY <3>2, FwMoves
      <4> QED
        BY <1>1, <1>6, <2>1, <3>1, <3>2, <4>1 DEF Sent, One, Serving
    <3>3. CASE fr /\ fw.pc = "tx"
      <4>1. fw' = IF fw.sent + 1 < RespLen THEN [fw EXCEPT !.pc = "poll_tx", !.sent = fw.sent + 1]
                  ELSE [fw EXCEPT !.pc = "done", !.sent = 0]
        BY <3>3, FwMoves
      <4>2. Sent = fw.sent /\ One(fr /\ Winc) = 1
        BY <2>1, <3>3 DEF Sent, One, Winc
      <4>3. CASE fw.sent + 1 < RespLen
        <5>0. fw.sent \in Nat
          BY <1>1 DEF Serving
        <5>1. fw'.pc = "poll_tx" /\ fw'.sent = fw.sent + 1
          BY <1>1, <4>1, <4>3 DEF Serving
        <5>2. Sent' = fw.sent + 1
          BY <3>1, <5>1 DEF Sent
        <5> QED
          BY <1>6, <4>2, <5>0, <5>2
      <4>4. CASE ~(fw.sent + 1 < RespLen)
        <5>1. fw'.pc = "done" /\ RespLen = fw.sent + 1
          BY <1>1, <4>1, <4>4 DEF Serving
        <5>2. Sent' = fw.sent + 1
          BY <5>1 DEF Sent
        <5> QED
          BY <1>1, <1>6, <4>2, <5>2 DEF Serving
      <4> QED
        BY <4>3, <4>4
    <3>4. CASE fr /\ fw.pc \in {"sca_read", "sca_write", "poll_tx"}
      <4>0. \/ fw' = [fw EXCEPT !.pc = "sca_write", !.sca = flag_reg']
            \/ fw' = [fw EXCEPT !.pc = "poll_tx", !.sca = FALSE]
            \/ fw.pc = "poll_tx" /\ fw' = fw
            \/ fw' = [fw EXCEPT !.pc = "tx"]
        BY <3>4, FwMoves
      <4>1. fw'.pc \in {"sca_write", "poll_tx", "tx"} /\ fw'.sent = fw.sent
        BY <1>1, <4>0 DEF Serving
      <4> QED
        BY <1>1, <1>6, <2>1, <3>1, <3>4, <4>1 DEF Sent, One, Winc, Serving
    <3> QED
      BY <1>1, <1>6, <2>3, <3>2, <3>3, <3>4 DEF Serving, Receiving
  <2> QED
    BY <2>2, <2>3
<1> QED
  BY <1>3, <1>4, <1>5, <1>6

\* The response's bytes stay in step with both programs.
LEMMA ReplyNext ==
  ASSUME Regular, LinkInv, NEW wb, NEW usb, NEW fr, NEW hr, Edge(wb, usb, fr, hr), Serving'
  PROVE  Reply'
<1>1. /\ Hosting /\ Serving /\ Reply /\ RespLen \in Nat \ {0} /\ DataLen \in Nat
      /\ fr \in BOOLEAN /\ hr \in BOOLEAN /\ Accesses(wb, usb, fr, hr)
  BY Sizes DEF LinkInv, Edge, Accesses
<1> DEFINE k == IF host.pc = "read" THEN host.n ELSE 0
           t == fr /\ Winc
           r == hr /\ UsbRead
<1>2. /\ Pending \in Nat /\ Pending' = Pending + One(t) - One(r)
      /\ O!Stored(o_mem', o_wbin', o_rbin', Response(host.cmd.id), k + One(r))
  BY OutMoves
<1>3. t \in BOOLEAN /\ r \in BOOLEAN /\ (r <=> hr /\ host.pc = "read") /\ (Receiving => ~t)
  BY <1>1 DEF UsbRead, Winc, Receiving
<1>4. k \in Nat
  BY <1>1 DEF Hosting
<1> HIDE DEF t, r
<1>5. CASE host.pc = "write"
  <2>1. Pending' = 0
    <3>1. ~t /\ ~r /\ Pending = 0
      BY <1>1, <1>3, <1>5, Answering DEF Reply
    <3> QED
      BY <1>2, <3>1 DEF One
  <2>2. host'.pc \in {"write", "wait"}
    BY <1>1, <1>5, HostMoves DEF Hosting
  <2>3. host'.pc = "wait" => Sent' = 0
    BY <1>5, SentNext
  <2> QED
    BY <2>1, <2>2, <2>3, NoneLeft DEF Reply
<1>6. CASE host.pc = "wait" /\ host'.pc = "wait"
  <2>1. ~r /\ host' = host
    <3>1. host' = host
      BY <1>6, Answering
    <3> QED
      BY <1>3, <1>6, <3>1
  <2>2. Pending = Sent /\ Sent' = Sent + One(t) /\ Sent \in Nat
    BY <1>1, <1>6, SentNext DEF Reply, t
  <2>3. Pending' = Sent'
    BY <1>2, <2>1, <2>2 DEF One
  <2>4. k + One(r) = 0
    BY <1>6, <2>1 DEF One
  <2> QED
    BY <1>2, <1>6, <2>1, <2>3, <2>4 DEF Reply
<1>7. CASE host.pc = "wait" /\ host'.pc # "wait"
  <2>1. Answered /\ host'.pc = "read" /\ host'.n = 0 /\ host'.cmd = host.cmd
    BY <1>7, Answering
  <2>2. ~r /\ ~t /\ Pending = RespLen
    BY <1>1, <1>3, <1>7, <2>1 DEF Answered, Reply, Sent
  <2>3. Pending' = RespLen - host'.n
    BY <1>1, <1>2, <2>1, <2>2 DEF One
  <2>4. k + One(r) = 0
    BY <1>7, <2>2 DEF One
  <2> QED
    BY <1>2, <2>1, <2>3, <2>4 DEF Reply
<1>8. CASE host.pc = "read"
  <2>1. ~t /\ Pending = RespLen - host.n /\ host.n \in Nat /\ host.n < RespLen /\ k = host.n
    BY <1>1, <1>3, <1>8, Answering DEF Reply, Hosting
  <2>2. CASE ~hr
    <3>1. host' = host /\ ~r
      BY <1>1, <1>3, <2>2, HostMoves
    <3>2. Pending' = RespLen - host'.n /\ k + One(r) = host'.n
      BY <1>1, <1>2, <2>1, <3>1 DEF One
    <3> QED
      BY <1>2, <1>8, <3>1, <3>2 DEF Reply
  <2>3. CASE hr /\ host.n + 1 < RespLen
    <3>1. r /\ host'.pc = "read" /\ host'.n = host.n + 1 /\ host'.cmd = host.cmd
      BY <1>1, <1>3, <1>8, <2>3, HostMoves
    <3>2. Pending' = RespLen - host'.n /\ k + One(r) = host'.n
      BY <1>1, <1>2, <2>1, <3>1 DEF One
    <3> QED
      BY <1>2, <3>1, <3>2 DEF Reply
  <2>4. CASE hr /\ host.n + 1 = RespLen
    <3>1. r /\ host'.pc = "write"
      BY <1>1, <1>3, <1>8, <2>4, HostMoves
    <3>2. Pending' = 0
      BY <1>1, <1>2, <2>1, <2>4, <3>1 DEF One
    <3> QED
      BY <3>1, <3>2, NoneLeft DEF Reply
  <2>5. host.n + 1 < RespLen \/ host.n + 1 = RespLen
    BY <1>1, <2>1
  <2> QED
    BY <1>1, <2>2, <2>3, <2>4, <2>5
<1> QED
  BY <1>1, <1>5, <1>6, <1>7, <1>8 DEF Hosting
\* What the host writes takes it one further from all it sees of the firmware's reads.
LEMMA WriterAhead ==
  ASSUME Regular, LinkInv, NEW wb, NEW usb, NEW fr, NEW hr, Edge(wb, usb, fr, hr),
         host.pc = "write"
  PROVE  /\ I!Ahead(i_wbin', i_wq2) = I!Ahead(i_wbin, i_wq2) + One(hr)
         /\ I!Ahead(i_wbin', i_wq1) = I!Ahead(i_wbin, i_wq1) + One(hr)
         /\ I!Ahead(i_wbin, i_wq1) <= I!Ahead(i_wbin, i_wq2)
         /\ I!Ahead(i_wbin, i_wq1) \in Nat /\ I!Ahead(i_wbin, i_wq2) \in Nat
         /\ i_wbin' \in I!Position /\ i_wq2 \in I!Position
         /\ ~i_wfull /\ I!Ahead(i_wbin, i_wq2) <= host.n
<1>1. /\ I!DepthAssumption /\ I!DataAssumption /\ I!IInv /\ Depth \in Nat
      /\ ~i_wfull /\ I!Ahead(i_wbin, i_wq2) <= host.n
  BY Sizes DEF LinkInv, Fifos, Visible
<1>2. /\ i_wbin \in I!Position /\ i_wq1 \in I!Position /\ i_wq2 \in I!Position
      /\ I!Ahead(i_wbin, i_wq1) <= I!Ahead(i_wbin, i_wq2)
      /\ I!Ahead(i_wbin, i_wq2) < Depth
  BY <1>1 DEF I!IInv, I!TypeOK, I!PointersOrdered
<1>3. I!Ahead(i_wbin, i_wq1) \in Nat /\ I!Ahead(i_wbin, i_wq2) \in Nat
  BY <1>1, <1>2, I!FlagTests
<1>4. i_wbin' = I!WbinNext(hr /\ UsbWrite) /\ hr \in BOOLEAN
  BY DEF Edge, Accesses, Moves, I!Step
<1>5. CASE hr
  <2>1. i_wbin' = I!Plus(i_wbin, 1)
    BY <1>1, <1>4, <1>5 DEF I!WbinNext, UsbWrite
  <2>2. I!Ahead(i_wbin, i_wq1) <= Depth - 1 /\ I!Ahead(i_wbin, i_wq2) <= Depth - 1
    BY <1>1, <1>2, <1>3
  <2>3. /\ I!Ahead(i_wbin', i_wq1) = I!Ahead(i_wbin, i_wq1) + 1
        /\ I!Ahead(i_wbin', i_wq2) = I!Ahead(i_wbin, i_wq2) + 1
        /\ i_wbin' \in I!Position
    BY <1>1, <1>2, <2>1, <2>2, I!WriterMoves, I!RingTypes
  <2> QED
    BY <1>1, <1>2, <1>3, <1>5, <2>3 DEF One
<1>6. CASE ~hr
  <2>1. i_wbin' = i_wbin
    BY <1>4, <1>6 DEF I!WbinNext
  <2> QED
    BY <1>1, <1>2, <1>3, <1>6, <2>1 DEF One
<1> QED
  BY <1>4, <1>5, <1>6

\* A command's line fits, and the response lies ready: neither flag is in the way.
LEMMA FlagsAllow ==
  ASSUME Regular, LinkInv, NEW wb, NEW usb, NEW fr, NEW hr, Edge(wb, usb, fr, hr), usb,
         I!IInv', O!IInv', Hosting', Command', Reply'
  PROVE  /\ Transit' = 0 /\ i_wq2 = i_rbin' => ~i_wfull'
         /\ host'.pc = "read" /\ o_rq2 = o_wbin' => ~o_rempty'
<1>1. /\ I!DepthAssumption /\ I!DataAssumption /\ O!DepthAssumption /\ O!DataAssumption
      /\ Depth \in Nat \ {0} /\ RespLen \in Nat
  BY Sizes DEF I!DepthAssumption
<1>2. /\ i_wbin' \in I!Position /\ i_rbin' \in I!Position
      /\ o_wbin' \in O!Position /\ o_rbin' \in O!Position
  BY DEF I!IInv, O!IInv, I!TypeOK, O!TypeOK
<1>3. i_wfull' = I!FullVal(i_wbin', i_wq2) /\ o_rempty' = O!EmptyVal(o_rbin', o_rq2)
  BY DEF Edge, Sees
<1>4. ASSUME Transit' = 0, i_wq2 = i_rbin' PROVE ~i_wfull'
  <2>1. I!Ahead(i_wbin', i_rbin') = 0
    BY <1>4 DEF Transit
  <2>2. I!FullVal(i_wbin', i_rbin') <=> I!Ahead(i_wbin', i_rbin') = Depth
    BY <1>1, <1>2, I!FlagTests
  <2> QED
    BY <1>1, <1>3, <1>4, <2>1, <2>2
<1>5. ASSUME host'.pc = "read", o_rq2 = o_wbin' PROVE ~o_rempty'
  <2>1. Pending' = RespLen - host'.n /\ host'.n \in Nat /\ host'.n < RespLen
    BY <1>5 DEF Reply, Hosting
  <2>2. O!Ahead(o_wbin', o_rbin') # 0
    BY <1>1, <2>1 DEF Pending
  <2>3. O!Ahead(o_rbin', o_rbin') = 0
    BY <1>1, <1>2, O!FlagTests
  <2> QED
    BY <1>3, <1>5, <2>2, <2>3 DEF O!EmptyVal
<1> QED
  BY <1>4, <1>5

\* DONE brings the pointers with it.
LEMMA VisibleNext ==
  ASSUME Regular, LinkInv, NEW wb, NEW usb, NEW fr, NEW hr, Edge(wb, usb, fr, hr),
         I!IInv', O!IInv', Hosting', Command', Reply'
  PROVE  Visible'
<1>1. /\ Hosting /\ Serving /\ Command /\ Visible /\ Clearing
      /\ DataLen \in Nat /\ Depth \in Nat /\ DataLen + 2 <= Depth
      /\ wb \in BOOLEAN /\ usb \in BOOLEAN /\ fr \in BOOLEAN /\ hr \in BOOLEAN
      /\ (hr => usb) /\ (fr => wb) /\ Accesses(wb, usb, fr, hr)
      /\ Sees(wb, usb) /\ Flags(wb, usb, fr, hr) /\ Moves(fr, hr)
  BY Sizes DEF LinkInv, Edge, Accesses, Regular
\* Nobody moves a pointer but those who access its FIFO.
<1>2. /\ ~(fr /\ Rinc) => i_rbin' = i_rbin
      /\ ~(hr /\ UsbWrite) => i_wbin' = i_wbin
      /\ ~(fr /\ Winc) => o_wbin' = o_wbin
  BY <1>1 DEF Moves, I!Step, O!Step, I!RbinNext, I!WbinNext, O!WbinNext
<1>3. ASSUME Answered \/ host.pc = "read" \/ (fr /\ fw.pc = "done")
      PROVE  i_rbin' = i_rbin /\ i_wbin' = i_wbin /\ o_wbin' = o_wbin
  <2>1. ~(fr /\ Rinc) /\ ~Winc
    <3>1. CASE Answered \/ host.pc = "read"
      BY <3>1, Answering DEF Receiving, Winc
    <3>2. CASE fr /\ fw.pc = "done"
      BY <3>2 DEF Rinc, Winc
    <3> QED
      BY <1>3, <3>1, <3>2
  <2>2. ~UsbWrite
    <3>1. CASE Answered \/ host.pc = "read"
      BY <3>1 DEF Answered, UsbWrite
    <3>2. CASE fr /\ fw.pc = "done"
      BY <3>2, Working DEF Receiving, UsbWrite
    <3> QED
      BY <1>3, <3>1, <3>2
  <2> QED
    BY <1>2, <2>1, <2>2
<1>4. usb => /\ i_wq1' \in {i_rbin, i_rbin'} /\ i_wq2' = i_wq1
             /\ o_rq1' \in {o_wbin, o_wbin'} /\ o_rq2' = o_rq1
             /\ flag_sync_clr'[1] = flag_sync_clr[0]
  BY <1>1 DEF Sees, Flags
<1>5. ~usb => /\ i_wq1' = i_wq1 /\ i_wq2' = i_wq2 /\ o_rq1' = o_rq1 /\ o_rq2' = o_rq2
              /\ i_wfull' = i_wfull /\ o_rempty' = o_rempty /\ flag_sync_clr' = flag_sync_clr
  BY <1>1 DEF Sees, Flags
<1>6. CASE Answered'
  <2>1. Answered \/ (fr /\ fw.pc = "done" /\ host.pc = "wait")
    BY <1>6, Answering
  <2>2. i_rbin' = i_rbin /\ i_wbin' = i_wbin /\ o_wbin' = o_wbin
    BY <1>3, <2>1
  <2>3. Answered \/ (~flag_sync_clr[0] /\ ~flag_sync_clr[1])
    BY <1>1, <2>1 DEF Clearing
  <2>4. ASSUME flag_sync_clr'[0] \/ flag_sync_clr'[1]
        PROVE  i_wq1' = i_rbin' /\ o_rq1' = o_wbin'
    BY <1>1, <1>4, <1>5, <2>2, <2>3, <2>4 DEF Visible
  <2>5. ASSUME flag_sync_clr'[1]
        PROVE  i_wq2' = i_rbin' /\ o_rq2' = o_wbin'
    BY <1>1, <1>4, <1>5, <2>2, <2>3, <2>5 DEF Visible
  <2>6. host'.pc = "wait"
    BY <1>6 DEF Answered
  <2> QED
    BY <2>4, <2>5, <2>6 DEF Visible
<1>7. CASE host'.pc = "read"
  <2>1. host.pc = "read" \/ (Answered /\ hr /\ flag_sync_clr[1])
    <3>1. CASE host.pc = "wait"
      BY <1>7, <3>1, Answering
    <3>2. CASE host.pc = "write"
      BY <1>1, <1>7, <3>2, HostMoves DEF Hosting
    <3> QED
      BY <1>1, <3>1, <3>2 DEF Hosting
  <2>2. i_rbin' = i_rbin /\ i_wbin' = i_wbin /\ o_wbin' = o_wbin
    BY <1>3, <2>1
  <2>3. i_wq1 = i_rbin /\ i_wq2 = i_rbin /\ o_rq1 = o_wbin /\ o_rq2 = o_wbin
    BY <1>1, <2>1 DEF Visible
  <2>4. i_wq1' = i_rbin' /\ i_wq2' = i_rbin' /\ o_rq1' = o_wbin' /\ o_rq2' = o_wbin'
    BY <1>1, <1>4, <1>5, <2>2, <2>3
  <2>5. ~i_wfull' /\ ~o_rempty'
    <3>1. CASE usb
      <4>1. Transit' = 0
        BY <1>7 DEF Command
      <4> QED
        BY <1>7, <2>2, <2>3, <3>1, <4>1, FlagsAllow
    <3>2. CASE ~usb
      BY <1>1, <1>5, <2>1, <3>2 DEF Visible
    <3> QED
      BY <1>1, <3>1, <3>2
  <2>6. ~Answered'
    BY <1>7 DEF Answered
  <2> QED
    BY <1>7, <2>4, <2>5, <2>6 DEF Visible
<1>8. CASE host'.pc = "write" /\ host.pc = "write"
  <2>1. /\ I!Ahead(i_wbin', i_wq2) = I!Ahead(i_wbin, i_wq2) + One(hr)
        /\ I!Ahead(i_wbin', i_wq1) = I!Ahead(i_wbin, i_wq1) + One(hr)
        /\ I!Ahead(i_wbin, i_wq1) <= I!Ahead(i_wbin, i_wq2)
        /\ I!Ahead(i_wbin, i_wq1) \in Nat /\ I!Ahead(i_wbin, i_wq2) \in Nat
        /\ i_wbin' \in I!Position /\ i_wq2 \in I!Position
        /\ ~i_wfull /\ I!Ahead(i_wbin, i_wq2) <= host.n
    BY <1>8, WriterAhead
  <2>2. host'.n = host.n + One(hr) /\ host.n \in Nat /\ host'.n <= DataLen + 1
    <3>1. host.n \in Nat /\ host.n <= DataLen + 1 /\ host'.n <= DataLen + 1
      BY <1>1, <1>8 DEF Hosting
    <3>2. CASE ~hr
      <4>1. host' = host
        BY <1>1, <3>2, HostMoves
      <4> QED
        BY <3>1, <3>2, <4>1 DEF One
    <3>3. CASE hr
      <4>1. host.n # DataLen + 1
        BY <1>1, <1>8, <3>3, HostMoves
      <4>2. host.n <= DataLen
        BY <1>1, <3>1, <4>1
      <4>3. host'.n = host.n + 1
        BY <1>1, <1>8, <3>3, <4>2, HostMoves
      <4> QED
        BY <3>1, <3>3, <4>3 DEF One
    <3> QED
      BY <1>1, <3>2, <3>3
  <2>3. One(hr) \in {0, 1}
    BY DEF One
  <2>4. CASE usb
    <3>1. i_wq2' = i_wq1 /\ i_wfull' = I!FullVal(i_wbin', i_wq2)
      BY <1>1, <2>4 DEF Sees
    <3>2. I!Ahead(i_wbin', i_wq2') <= host'.n
      BY <2>1, <2>2, <2>3, <3>1
    <3>3. I!FullVal(i_wbin', i_wq2) <=> I!Ahead(i_wbin', i_wq2) = Depth
      BY <2>1, Sizes, I!FlagTests
    <3>4. I!Ahead(i_wbin', i_wq2) # Depth
      BY <1>1, <2>1, <2>2, <2>3
    <3> QED
      BY <1>8, <3>1, <3>2, <3>3, <3>4 DEF Visible, Answered
  <2>5. CASE ~usb
    <3>1. ~hr /\ i_wbin' = i_wbin /\ i_wq2' = i_wq2 /\ i_wfull' = i_wfull
      BY <1>1, <1>2, <1>5, <2>5
    <3>2. host' = host
      BY <1>1, <3>1, HostMoves
    <3> QED
      BY <1>8, <2>1, <3>1, <3>2 DEF Visible, Answered
  <2> QED
    BY <1>1, <2>4, <2>5
<1>9. CASE host'.pc = "write" /\ host.pc # "write"
  <2>1. host.pc = "read" /\ hr
    <3>1. host.pc # "wait"
      BY <1>9, Answering
    <3>2. host' # host
      BY <1>9
    <3> QED
      BY <1>1, <1>9, <3>1, <3>2, HostMoves DEF Hosting
  <2>2. usb /\ i_rbin' = i_rbin /\ i_wq1 = i_rbin /\ i_wq2 = i_rbin /\ Transit' = 0
    BY <1>1, <1>3, <2>1, Answering DEF Visible
  <2>3. i_wq2' = i_rbin'
    BY <1>4, <2>2
  <2>4. ~i_wfull'
    BY <2>2, FlagsAllow
  <2>5. I!Ahead(i_wbin', i_wq2') = 0
    BY <2>2, <2>3 DEF Transit
  <2>6. host'.n \in Nat
    BY DEF Hosting
  <2> QED
    BY <1>9, <2>4, <2>5, <2>6 DEF Visible, Answered
<1>10. CASE host'.pc = "wait" /\ ~Answered'
  BY <1>10 DEF Visible
<1> QED
  BY <1>6, <1>7, <1>8, <1>9, <1>10 DEF Hosting
\* The time since the host's last access: an edge of the bus clock at least for each that
\* is counted, and two rounds need an edge of the USB clock in the second one.
LEMMA TimePasses ==
  ASSUME Regular, Resting, NEW wb, NEW usb, NEW fr, NEW hr, Accesses(wb, usb, fr, hr)
  PROVE  /\ Edges \in Nat
         /\ hr  => rest'.rounds = 0 /\ ~rest'.usb /\ Edges' = 0
         /\ ~hr => Edges' = Edges \/ (wb /\ Edges' = Edges + 1)
         /\ ~hr /\ (rest'.rounds >= 2 \/ (rest'.rounds = 1 /\ rest'.usb)) =>
               /\ Edges > 0
               /\ usb \/ rest.rounds >= 2 \/ (rest.rounds = 1 /\ rest.usb)
<1>1. /\ Gap \in Nat /\ Gap >= 2 /\ Pass(wb, usb, hr)
      /\ wb \in BOOLEAN /\ usb \in BOOLEAN /\ hr \in BOOLEAN
  BY Sizes DEF Regular, Accesses
<1>2. /\ rest.rounds \in Nat /\ rest.wb \in BOOLEAN /\ rest.usb \in BOOLEAN
      /\ DOMAIN rest = {"rounds", "wb", "usb"}
  BY DEF Resting
<1>3. Edges = rest.rounds + (IF rest.wb THEN 1 ELSE 0)
  BY DEF Edges
<1>4. Edges' = rest'.rounds + (IF rest'.wb THEN 1 ELSE 0)
  BY DEF Edges
<1>5. CASE hr
  <2>1. rest' = [rounds |-> 0, wb |-> FALSE, usb |-> FALSE]
    BY <1>1, <1>5 DEF Pass
  <2> QED
    BY <1>2, <1>3, <1>4, <1>5, <2>1
<1>6. CASE ~hr /\ rest.rounds = Gap
  <2>1. rest' = rest
    BY <1>1, <1>6 DEF Pass
  <2> QED
    BY <1>1, <1>2, <1>3, <1>4, <1>6, <2>1
<1>7. CASE ~hr /\ rest.rounds # Gap
  <2> DEFINE r == [rest EXCEPT !.wb = @ \/ wb, !.usb = @ \/ usb]
  <2>1. rest' = IF r.wb /\ r.usb THEN [rounds |-> rest.rounds + 1, wb |-> FALSE, usb |-> FALSE]
                ELSE r
    BY <1>1, <1>7 DEF Pass
  <2>2. /\ r.rounds = rest.rounds /\ (r.wb <=> rest.wb \/ wb) /\ (r.usb <=> rest.usb \/ usb)
        /\ r.wb \in BOOLEAN /\ r.usb \in BOOLEAN
    BY <1>1, <1>2
  <2> HIDE DEF r
  <2>3. CASE r.wb /\ r.usb
    <3>1. rest'.rounds = rest.rounds + 1 /\ rest'.wb = FALSE /\ rest'.usb = FALSE
      BY <2>1, <2>3
    <3> QED
      BY <1>1, <1>2, <1>3, <1>4, <1>7, <2>2, <2>3, <3>1
  <2>4. CASE ~(r.wb /\ r.usb)
    <3>1. rest' = r
      BY <2>1, <2>4
    <3> QED
      BY <1>1, <1>2, <1>3, <1>4, <1>7, <2>2, <2>4, <3>1
  <2> QED
    BY <2>3, <2>4
<1> QED
  BY <1>1, <1>5, <1>6, <1>7

\* Until the firmware sets DONE again, the request to clear it goes on with each edge of the
\* bus clock, and what is reached is kept.
LEMMA LeftGoesOn ==
  ASSUME LinkInv, NEW wb, NEW usb, NEW fr, NEW hr, Edge(wb, usb, fr, hr), ~(fr /\ SetDone),
         NEW e \in Nat, Left(e)
  PROVE  Left(e)' /\ (wb => Left(e + 1)')
<1>1. /\ flag_reg \in BOOLEAN /\ clr_req \in BOOLEAN
      /\ clr_sync_set[0] \in BOOLEAN /\ clr_sync_set[1] \in BOOLEAN
      /\ wb \in BOOLEAN /\ usb \in BOOLEAN /\ Flags(wb, usb, fr, hr)
  BY DEF LinkInv, Clearing, Edge, Accesses
<1>2. wb => /\ flag_reg' = (flag_reg /\ ~clr_sync_set[1])
            /\ clr_sync_set'[1] = clr_sync_set[0]
            /\ clr_req /\ ~clr_sync_set[1] => clr_sync_set'[0]
  <2> DEFINE read == hr /\ UsbReadDone
  <2>1. SUFFICES ASSUME wb
                 PROVE  /\ flag_reg' = (flag_reg /\ ~clr_sync_set[1])
                        /\ clr_sync_set'[1] = clr_sync_set[0]
                        /\ clr_req /\ ~clr_sync_set[1] => clr_sync_set'[0]
    OBVIOUS
  <2>2. /\ flag_reg' = Done!FlagNext(fr /\ SetDone)
        /\ clr_sync_set'[0] \in {clr_req, Done!ReqNext(read, clr_sync_set[1])}
        /\ clr_sync_set'[1] = clr_sync_set[0]
    BY <1>1, <2>1 DEF Flags
  <2>3. flag_reg' = (flag_reg /\ ~clr_sync_set[1])
    BY <1>1, <2>2 DEF Done!FlagNext
  <2>4. clr_req /\ ~clr_sync_set[1] => Done!ReqNext(read, clr_sync_set[1]) = TRUE
    BY DEF Done!ReqNext
  <2> QED
    BY <1>1, <2>2, <2>3, <2>4
<1>3. ~wb => flag_reg' = flag_reg /\ clr_sync_set' = clr_sync_set
  BY <1>1 DEF Flags
<1>4. clr_req => clr_req' \/ clr_sync_set[1] \/ clr_sync_set'[1]
  BY <1>1 DEF Flags, Done!ReqNext
<1>5. e = 0 \/ e = 1 \/ e = 2 \/ e > 2
  OBVIOUS
<1>6. CASE e = 0
  <2>1. ~flag_reg \/ clr_sync_set[1] \/ clr_req
    BY <1>6 DEF Left
  <2>2. ~flag_reg' \/ clr_sync_set'[1] \/ clr_req'
    BY <1>1, <1>2, <1>3, <1>4, <2>1
  <2>3. wb => ~flag_reg' \/ clr_sync_set'[1] \/ clr_sync_set'[0]
    BY <1>1, <1>2, <2>1
  <2> QED
    BY <1>6, <2>2, <2>3 DEF Left
<1>7. CASE e = 1
  <2>1. ~flag_reg \/ clr_sync_set[1] \/ clr_sync_set[0]
    BY <1>7 DEF Left
  <2>2. ~flag_reg' \/ clr_sync_set'[1] \/ clr_sync_set'[0]
    BY <1>1, <1>2, <1>3, <2>1
  <2>3. wb => ~flag_reg' \/ clr_sync_set'[1]
    BY <1>1, <1>2, <2>1
  <2> QED
    BY <1>7, <2>2, <2>3 DEF Left
<1>8. CASE e = 2
  <2>1. ~flag_reg \/ clr_sync_set[1]
    BY <1>8 DEF Left
  <2>2. ~flag_reg' \/ clr_sync_set'[1]
    BY <1>1, <1>2, <1>3, <2>1
  <2>3. wb => ~flag_reg'
    BY <1>1, <1>2, <2>1
  <2> QED
    BY <1>8, <2>2, <2>3 DEF Left
<1>9. CASE e > 2
  <2>1. ~flag_reg
    BY <1>9 DEF Left
  <2>2. ~flag_reg'
    BY <1>1, <1>2, <1>3, <2>1
  <2> QED
    BY <1>9, <2>2 DEF Left
<1> QED
  BY <1>5, <1>6, <1>7, <1>8, <1>9

\* The levels of the flag's registers.
LEMMA Levels ==
  ASSUME LinkInv, NEW wb, NEW usb, NEW fr, NEW hr, Edge(wb, usb, fr, hr)
  PROVE  /\ flag_reg' \in BOOLEAN /\ clr_req' \in BOOLEAN
         /\ clr_sync_set'[0] \in BOOLEAN /\ clr_sync_set'[1] \in BOOLEAN
         /\ flag_sync_clr'[0] \in BOOLEAN /\ flag_sync_clr'[1] \in BOOLEAN
<1>1. /\ flag_reg \in BOOLEAN /\ clr_req \in BOOLEAN
      /\ clr_sync_set[0] \in BOOLEAN /\ clr_sync_set[1] \in BOOLEAN
      /\ flag_sync_clr[0] \in BOOLEAN /\ flag_sync_clr[1] \in BOOLEAN
      /\ wb \in BOOLEAN /\ usb \in BOOLEAN /\ Flags(wb, usb, fr, hr)
  BY DEF LinkInv, Clearing, Edge, Accesses
<1>2. flag_reg' \in BOOLEAN
  BY <1>1 DEF Flags, Done!FlagNext
<1>3. clr_sync_set'[0] \in BOOLEAN /\ clr_sync_set'[1] \in BOOLEAN
  BY <1>1 DEF Flags, Done!ReqNext
<1>4. clr_req' \in BOOLEAN
  BY <1>1 DEF Flags, Done!ReqNext
<1>5. flag_sync_clr'[0] \in BOOLEAN /\ flag_sync_clr'[1] \in BOOLEAN
  BY <1>1, <1>2 DEF Flags
<1> QED
  BY <1>2, <1>3, <1>4, <1>5
\* After a host's first access to a transaction, and after two rounds, it may rely on more.
LEMMA LeftMeans ==
  /\ \A e \in Nat : e >= 2 /\ Left(e) => Left(2)
  /\ \A e \in Nat : e > 2 /\ Left(e) => ~flag_reg
  /\ ~flag_reg => Left(2) /\ Left(3)
  BY DEF Left

\* DONE is low again, on both sides, when the host asks for it.
LEMMA ClearingNext ==
  ASSUME Regular, LinkInv, NEW wb, NEW usb, NEW fr, NEW hr, Edge(wb, usb, fr, hr), Hosting'
  PROVE  Clearing'
<1>1. /\ Hosting /\ Serving /\ Command /\ Clearing /\ Resting
      /\ DataLen \in Nat /\ RespLen \in Nat \ {0} /\ Gap \in Nat /\ Gap >= 2
      /\ wb \in BOOLEAN /\ usb \in BOOLEAN /\ fr \in BOOLEAN /\ hr \in BOOLEAN
      /\ (hr => usb) /\ (fr => wb) /\ (hr => HostReady)
      /\ Accesses(wb, usb, fr, hr) /\ Flags(wb, usb, fr, hr)
  BY Sizes DEF LinkInv, Edge, Accesses, Regular
<1>2. /\ Edges \in Nat
      /\ hr  => rest'.rounds = 0 /\ ~rest'.usb /\ Edges' = 0
      /\ ~hr => Edges' = Edges \/ (wb /\ Edges' = Edges + 1)
      /\ ~hr /\ (rest'.rounds >= 2 \/ (rest'.rounds = 1 /\ rest'.usb)) =>
            Edges > 0 /\ (usb \/ rest.rounds >= 2 \/ (rest.rounds = 1 /\ rest.usb))
  BY <1>1, TimePasses
<1>3. /\ usb  => flag_sync_clr'[0] \in {flag_reg, flag_reg'} /\ flag_sync_clr'[1] = flag_sync_clr[0]
      /\ ~usb => flag_sync_clr' = flag_sync_clr
  BY <1>1 DEF Flags
\* Low stays low while the firmware does not set the flag.
<1>4. ASSUME ~(fr /\ SetDone), ~flag_reg PROVE ~flag_reg'
  BY <1>1, <1>4 DEF Flags, Done!FlagNext
<1>5. Receiving => ~(fr /\ SetDone)
  BY DEF Receiving, SetDone
<1>6. ASSUME hr, host.n = 0, host.pc # "wait" PROVE Edges >= 2
  <2>1. rest.rounds = Gap
    BY <1>1, <1>6 DEF HostReady
  <2> QED
    BY <1>1, <2>1 DEF Edges, Resting
<1>7. host'.pc = "wait" /\ ~Answered' => ~flag_reg' /\ ~flag_sync_clr'[0] /\ ~flag_sync_clr'[1]
  <2>1. SUFFICES ASSUME host'.pc = "wait", ~Answered'
                 PROVE  ~flag_reg' /\ ~flag_sync_clr'[0] /\ ~flag_sync_clr'[1]
    OBVIOUS
  <2>2. CASE host.pc = "wait"
    <3>1. ~Answered /\ ~(fr /\ fw.pc = "done")
      BY <2>1, Answering
    <3>2. ~(fr /\ SetDone)
      BY <1>1, <3>1 DEF Serving, SetDone
    <3>3. ~flag_reg /\ ~flag_sync_clr[0] /\ ~flag_sync_clr[1]
      BY <1>1, <2>2, <3>1 DEF Clearing
    <3> QED
      BY <1>1, <1>3, <1>4, <3>2, <3>3
  <2>3. CASE host.pc = "write"
    <3>1. hr /\ host.n = DataLen + 1
      BY <1>1, <2>1, <2>3, HostMoves DEF Hosting
    <3>2. host.n > 0
      BY <1>1, <3>1
    <3>3. Left(3) /\ ~flag_sync_clr[0]
      BY <1>1, <2>3, <3>2 DEF Clearing
    <3>4. ~flag_reg /\ ~(fr /\ SetDone)
      BY <1>5, <2>3, <3>3, LeftMeans, Answering
    <3> QED
      BY <1>1, <1>3, <1>4, <3>1, <3>3, <3>4
  <2>4. host.pc # "read"
    BY <1>1, <2>1, HostMoves DEF Hosting
  <2> QED
    BY <1>1, <2>2, <2>3, <2>4 DEF Hosting
<1>8. host'.pc = "read" => Left(IF host.n = 0 THEN Edges ELSE 2)'
  <2>1. SUFFICES ASSUME host'.pc = "read" PROVE Left(IF host.n = 0 THEN Edges ELSE 2)'
    OBVIOUS
  <2>2. CASE host.pc = "wait"
    <3>1. hr /\ flag_sync_clr[1] /\ host'.n = 0
      BY <2>1, <2>2, Answering
    <3>2. hr /\ UsbReadDone
      BY <2>2, <3>1 DEF UsbReadDone
    <3>3. clr_req' = TRUE
      BY <1>1, <3>2 DEF Flags, Done!ReqNext
    <3> QED
      BY <1>2, <3>1, <3>3 DEF Left
  <2>3. CASE host.pc = "read"
    <3>1. ~(fr /\ SetDone) /\ host.n \in Nat
      BY <1>1, <1>5, <2>3, Answering DEF Hosting
    <3>2. Left(IF host.n = 0 THEN Edges ELSE 2)
      BY <1>1, <2>3 DEF Clearing
    <3>3. CASE ~hr
      <4>1. host' = host
        BY <1>1, <3>3, HostMoves
      <4>2. PICK e \in Nat : e = IF host.n = 0 THEN Edges ELSE 2
        BY <1>2
      <4>3. Left(e)' /\ (wb => Left(e + 1)')
        BY <3>1, <3>2, <4>2, LeftGoesOn
      <4>4. host.n = 0 => Edges' = e \/ (wb /\ Edges' = e + 1)
        BY <1>2, <3>3, <4>2
      <4> QED
        BY <4>1, <4>2, <4>3, <4>4 DEF Left
    <3>4. CASE hr
      <4>1. host'.n # 0
        <5>1. host.n + 1 # RespLen
          BY <1>1, <2>1, <2>3, <3>4, HostMoves
        <5>2. host.n + 1 < RespLen
          BY <1>1, <2>3, <3>1, <5>1 DEF Hosting
        <5>3. host'.n = host.n + 1
          BY <1>1, <2>3, <3>4, <5>2, HostMoves
        <5> QED
          BY <3>1, <5>3
      <4>2. Left(2)
        BY <1>2, <1>6, <2>3, <3>2, <3>4, LeftMeans
      <4>3. Left(2)'
        BY <3>1, <4>2, LeftGoesOn
      <4> QED
        BY <4>1, <4>3 DEF Left
    <3> QED
      BY <1>1, <3>3, <3>4
  <2>4. host.pc # "write"
    BY <1>1, <2>1, HostMoves DEF Hosting
  <2> QED
    BY <1>1, <2>2, <2>3, <2>4 DEF Hosting
<1>9. CASE host'.pc = "write" /\ host.pc = "read"
  <2>1. hr /\ host'.n = 0
    BY <1>1, <1>9, HostMoves DEF Hosting
  <2>2. ~(fr /\ SetDone) /\ Left(IF host.n = 0 THEN Edges ELSE 2)
    BY <1>1, <1>5, <1>9, Answering DEF Clearing
  <2>3. Left(2)
    BY <1>2, <1>6, <1>9, <2>1, <2>2, LeftMeans
  <2>4. Left(2)'
    BY <2>2, <2>3, LeftGoesOn
  <2>5. Left(IF host.n = 0 THEN Edges + 2 ELSE 3)'
    BY <1>2, <2>1, <2>4 DEF Left
  <2>6. rest'.rounds = 0 /\ ~rest'.usb /\ host'.n = 0
    BY <1>2, <2>1
  <2>7. ~(host'.n > 0 \/ rest'.rounds >= 2 \/ (rest'.rounds = 1 /\ rest'.usb)) /\ ~(host'.n > 1)
    BY <2>6
  <2> QED
    BY <1>9, <2>5, <2>7, Levels DEF Clearing
<1>10. CASE host'.pc = "write" /\ host.pc = "write"
  <2>1. ~(fr /\ SetDone) /\ host.n \in Nat
    BY <1>1, <1>5, <1>10, Answering DEF Hosting
  <2>2. /\ Left(IF host.n = 0 THEN Edges + 2 ELSE 3)
        /\ host.n > 0 \/ rest.rounds >= 2 \/ (rest.rounds = 1 /\ rest.usb) => ~flag_sync_clr[0]
        /\ host.n > 1 => ~flag_sync_clr[1]
    BY <1>1, <1>10 DEF Clearing
  <2>3. host.n > 0 \/ Edges > 0 => ~flag_reg /\ ~flag_reg'
    <3>1. SUFFICES ASSUME host.n > 0 \/ Edges > 0 PROVE ~flag_reg
      BY <1>4, <2>1
    <3>2. PICK e \in Nat : e = IF host.n = 0 THEN Edges + 2 ELSE 3
      BY <1>2
    <3>3. Left(e)
      BY <2>2, <3>2
    <3>4. e > 2
      BY <1>2, <2>1, <3>1, <3>2
    <3> QED
      BY <3>3, <3>4, LeftMeans
  <2>4. CASE ~hr
    <3>1. host' = host
      BY <1>1, <2>4, HostMoves
    <3>2. Left(IF host.n = 0 THEN Edges + 2 ELSE 3)'
      <4>1. PICK e \in Nat : e = IF host.n = 0 THEN Edges + 2 ELSE 3
        BY <1>2
      <4>2. Left(e)' /\ (wb => Left(e + 1)')
        BY <2>1, <2>2, <4>1, LeftGoesOn
      <4>3. host.n = 0 => Edges' + 2 = e \/ (wb /\ Edges' + 2 = e + 1)
        BY <1>2, <2>4, <4>1
      <4> QED
        BY <3>1, <4>1, <4>2, <4>3 DEF Left
    <3>3. ASSUME host.n > 0 \/ rest'.rounds >= 2 \/ (rest'.rounds = 1 /\ rest'.usb)
          PROVE  ~flag_sync_clr'[0]
      <4>1. host.n > 0 \/ Edges > 0
        BY <1>2, <2>4, <3>3
      <4>2. host.n > 0 \/ usb \/ rest.rounds >= 2 \/ (rest.rounds = 1 /\ rest.usb)
        BY <1>2, <2>4, <3>3
      <4>3. CASE usb
        BY <1>3, <2>3, <4>1, <4>3
      <4>4. CASE ~usb
        BY <1>3, <2>2, <4>2, <4>4
      <4> QED
        BY <1>1, <4>3, <4>4
    <3>4. host.n > 1 => ~flag_sync_clr'[1]
      BY <1>1, <1>3, <2>1, <2>2
    <3> QED
      BY <1>10, <3>1, <3>2, <3>3, <3>4, Levels DEF Clearing
  <2>5. CASE hr
    <3>1. host'.n = host.n + 1
      <4>1. host.n # DataLen + 1
        BY <1>1, <1>10, <2>5, HostMoves
      <4>2. host.n <= DataLen
        BY <1>1, <1>10, <2>1, <4>1 DEF Hosting
      <4> QED
        BY <1>1, <1>10, <2>5, <4>2, HostMoves
    <3>2. ~flag_reg /\ ~flag_reg'
      <4>1. host.n > 0 \/ Edges > 0
        BY <1>2, <1>6, <1>10, <2>1, <2>5
      <4> QED
        BY <2>3, <4>1
    <3>3. Left(3)'
      BY <3>2 DEF Left
    <3>4. host'.n # 0 /\ (host'.n > 1 => host.n > 0)
      BY <2>1, <3>1
    <3>5. Left(IF host.n = 0 THEN Edges + 2 ELSE 3)'
      BY <3>3, <3>4 DEF Left
    <3>6. ~flag_sync_clr'[0] /\ (host'.n > 1 => ~flag_sync_clr'[1])
      BY <1>1, <1>3, <2>2, <2>5, <3>2, <3>4
    <3> QED
      BY <1>10, <3>5, <3>6, Levels DEF Clearing
  <2> QED
    BY <1>1, <2>4, <2>5
<1>11. host'.pc = "write" => host.pc # "wait"
  BY Answering
<1>12. CASE host'.pc = "wait"
  BY <1>7, <1>12, Levels DEF Clearing
<1>13. CASE host'.pc = "read"
  BY <1>8, <1>13, Levels DEF Clearing
<1> QED
  BY <1>1, <1>9, <1>10, <1>11, <1>12, <1>13 DEF Hosting

\* The trigger goes up with the command's work and down with DONE.
LEMMA FramingNext ==
  ASSUME Regular, LinkInv, NEW wb, NEW usb, NEW fr, NEW hr, Edge(wb, usb, fr, hr)
  PROVE  Framing'
<1>1. /\ Framing /\ Serving /\ fr \in BOOLEAN
      /\ fr => trigger_q' = TriggerNext
      /\ ~fr => trigger_q' = trigger_q /\ fw' = fw
  BY DEF LinkInv, Edge, Accesses
<1>2. SUFFICES ASSUME trigger_q' PROVE ~Receiving'
  BY DEF Framing
<1>3. CASE ~fr
  BY <1>1, <1>2, <1>3 DEF Framing, Receiving
<1>4. CASE fr
  <2>1. fw.pc # "done" /\ (fw.pc = "sca_write" \/ trigger_q)
    BY <1>1, <1>2, <1>4 DEF TriggerNext
  <2>2. ~Receiving
    BY <1>1, <2>1 DEF Framing, Receiving
  <2> QED
    BY <2>1, <2>2, FwParts
<1> QED
  BY <1>1, <1>3, <1>4

-----------------------------------------------------------------------------

\* Every edge keeps the invariant.
LEMMA EdgeInv ==
  ASSUME Regular, LinkInv, NEW wb, NEW usb, NEW fr, NEW hr, Edge(wb, usb, fr, hr)
  PROVE  LinkInv'
<1>1. Hosting /\ Resting /\ Accesses(wb, usb, fr, hr)
  BY DEF LinkInv, Edge
<1>2. Hosting' /\ Serving' /\ Resting' /\ I!IInv' /\ O!IInv' /\ Command'
  BY <1>1, HostMoves, ServingNext, RestingNext, InInvNext, OutInvNext, CommandNext
<1>3. Reply' /\ Clearing' /\ Framing'
  BY <1>2, ReplyNext, ClearingNext, FramingNext
<1>4. Visible'
  BY <1>2, <1>3, VisibleNext
<1> QED
  BY <1>2, <1>3, <1>4 DEF LinkInv, Fifos

\* So does a step in which nothing happens.
LEMMA StutterInv ==
  ASSUME LinkInv, UNCHANGED vars
  PROVE  LinkInv'
<1>1. /\ UNCHANGED <<i_mem, i_wbin, i_wfull, i_wq1, i_wq2, i_rbin, i_rempty, i_rq1, i_rq2, i_rdata>>
      /\ UNCHANGED <<o_mem, o_wbin, o_wfull, o_wq1, o_wq2, o_rbin, o_rempty, o_rq1, o_rq2, o_rdata>>
      /\ UNCHANGED <<flag_reg, clr_req, clr_sync_set, flag_sync_clr, trigger_q, fw, host, rest>>
  BY DEF vars, iVars, oVars, flagVars, fwVars
<1>2. Fifos'
  BY <1>1 DEF LinkInv, Fifos, I!IInv, O!IInv, I!TypeOK, O!TypeOK, I!PointersOrdered, O!PointersOrdered
<1>3. /\ Transit' = Transit /\ Pending' = Pending /\ Edges' = Edges
      /\ Receiving' = Receiving /\ Answered' = Answered /\ Sent' = Sent
  BY <1>1 DEF Transit, Pending, Edges, Receiving, Answered, Sent
<1>4. Hosting' /\ Serving' /\ Resting' /\ Framing'
  BY <1>1, <1>3 DEF LinkInv, Hosting, Serving, Resting, Framing
<1>5. Command' /\ Reply' /\ Visible'
  BY <1>1, <1>3 DEF LinkInv, Command, Reply, Visible, I!Stored, O!Stored
<1>6. Clearing'
  BY <1>1, <1>3 DEF LinkInv, Clearing, Left
<1> QED
  BY <1>2, <1>4, <1>5, <1>6 DEF LinkInv

\* It holds when nothing has been sent.
LEMMA InitInv == Regular /\ Init => LinkInv
<1>1. SUFFICES ASSUME Regular, Init PROVE LinkInv
  OBVIOUS
<1>2. /\ Depth \in Nat \ {0} /\ DataLen \in Nat /\ RespLen \in Nat \ {0} /\ Gap \in Nat /\ Gap >= 2
      /\ Cmds = [id : Ids, known : {TRUE}] /\ Blank \in Bytes
      /\ I!DepthAssumption /\ I!DataAssumption /\ O!DepthAssumption /\ O!DataAssumption
  BY <1>1, Sizes DEF I!DepthAssumption, Regular
<1>3. /\ 0 \in I!Position /\ I!Ahead(0, 0) = 0 /\ 0 \in O!Position /\ O!Ahead(0, 0) = 0
  BY <1>2 DEF I!Position, O!Position, I!Ahead, O!Ahead
<1>4. Fifos
  <2>1. I!TypeOK /\ O!TypeOK
    BY <1>1, <1>2, <1>3 DEF Init, I!TypeOK, O!TypeOK, I!Addr, O!Addr
  <2>2. I!PointersOrdered /\ O!PointersOrdered
    BY <1>1, <1>2, <1>3 DEF Init, I!PointersOrdered, O!PointersOrdered
  <2> QED
    BY <1>1, <1>2, <1>3, <2>1, <2>2 DEF Init, Fifos, I!IInv, O!IInv
<1>5. /\ host = [pc |-> "write", cmd |-> [id |-> 0, known |-> TRUE], n |-> 0]
      /\ fw = FwStart /\ trigger_q = FALSE
      /\ rest = [rounds |-> Gap, wb |-> FALSE, usb |-> FALSE]
      /\ i_wfull = FALSE /\ i_wbin = 0 /\ i_rbin = 0 /\ i_wq2 = 0 /\ o_wbin = 0 /\ o_rbin = 0
  BY <1>1 DEF Init
<1>6. Transit = 0 /\ Pending = 0 /\ Receiving /\ ~Answered
  BY <1>3, <1>5 DEF Transit, Pending, Receiving, Answered, FwStart
<1>7. host.cmd \in Cmds
  BY <1>2, <1>5 DEF Ids
<1>8. Hosting /\ Serving /\ Resting /\ Framing
  BY <1>2, <1>5, <1>6, <1>7 DEF Hosting, Serving, Resting, Framing, FwStart, Receiving, Ids
<1>9. I!Stored(i_mem, i_wbin, i_rbin, Line(host.cmd), fw.got)
  <2>1. ASSUME NEW j \in 0 .. 0 - 1 PROVE FALSE
    OBVIOUS
  <2> QED
    BY <1>3, <1>5, <2>1 DEF I!Stored
<1>10. O!Stored(o_mem, o_wbin, o_rbin, Response(host.cmd.id), IF host.pc = "read" THEN host.n ELSE 0)
  <2>1. ASSUME NEW j \in 0 .. 0 - 1 PROVE FALSE
    OBVIOUS
  <2> QED
    BY <1>3, <1>5, <2>1 DEF O!Stored
<1>11. Command /\ Reply
  BY <1>5, <1>6, <1>9, <1>10 DEF Command, Reply, FwStart
<1>12. Visible
  BY <1>3, <1>5, <1>6 DEF Visible
<1>13. Clearing
  <2>1. /\ flag_reg = FALSE /\ clr_req = FALSE
        /\ clr_sync_set[0] = FALSE /\ clr_sync_set[1] = FALSE
        /\ flag_sync_clr[0] = FALSE /\ flag_sync_clr[1] = FALSE
    BY <1>1 DEF Init, Done!Init, Done!Low
  <2>2. \A e : Left(e)
    BY <2>1 DEF Left
  <2> QED
    BY <1>5, <2>1, <2>2 DEF Clearing
<1> QED
  BY <1>4, <1>8, <1>11, <1>12, <1>13 DEF LinkInv
-----------------------------------------------------------------------------
(* The theorems *)

\* The two ends agree, in every reachable state, on what of a command and of its response was
\* sent and received, what the FIFOs hold, and what is left of DONE.
THEOREM LinkInvHolds ==
  ASSUME Regular
  PROVE  Spec => []LinkInv
<1>1. Init => LinkInv
  BY InitInv
<1>2. LinkInv /\ [Next]_vars => LinkInv'
  <2>1. ASSUME LinkInv, Next PROVE LinkInv'
    <3>1. PICK wb, usb, fr, hr \in BOOLEAN : Edge(wb, usb, fr, hr)
      BY <2>1, NextIsEdge
    <3> QED
      BY <2>1, <3>1, EdgeInv
  <2> QED
    BY <2>1, StutterInv
<1> QED
  BY <1>1, <1>2, PTL DEF Spec

\* When the host sees DONE and takes the target for done (is_done and simpleserial_read), the
\* firmware has left simpleserial_get for this command: no old DONE is taken for a new one.
THEOREM IsDoneHolds ==
  ASSUME Regular
  PROVE  Spec => []IsDoneMeansDone
<1>1. LinkInv => IsDoneMeansDone
  BY DEF LinkInv, Command, IsDoneMeansDone, Finished, Receiving
<1> QED
  BY <1>1, LinkInvHolds, PTL

\* While the trigger is up, the host neither writes a command's bytes nor reads a response's:
\* a capture shows the command's work.
THEOREM TriggerHolds ==
  ASSUME Regular
  PROVE  Spec => []TriggerFramesTheWork
<1>1. LinkInv => TriggerFramesTheWork
  BY Working DEF LinkInv, Framing, TriggerFramesTheWork
<1> QED
  BY <1>1, LinkInvHolds, PTL

\* Each byte that simpleserial_read gets is the byte at that place of the response to the
\* command the host sent last, whatever both clocks do.
THEOREM ResponseHolds ==
  ASSUME Regular
  PROVE  Spec => ResponseIsMine
<1>1. ASSUME LinkInv, Next, host.pc = "read", host' # host
      PROVE  o_rdata' = Answer(host.cmd.id, host.n + 1)
  <2>1. PICK wb, usb, fr, hr \in BOOLEAN : Edge(wb, usb, fr, hr)
    BY <1>1, NextIsEdge
  <2>2. hr /\ UsbRead
    BY <1>1, <2>1 DEF Edge, Accesses, UsbRead
  <2>3. o_rdata' = Response(host.cmd.id)[host.n + 1]
    BY <1>1, <2>1, <2>2, OutMoves
  <2>4. host.n \in Nat /\ host.n < RespLen /\ host.cmd \in Cmds
    BY <1>1 DEF LinkInv, Hosting
  <2>5. host.n \in 0 .. RespLen - 1 /\ host.cmd.id \in Ids
    <3>1. RespLen \in Nat
      BY Sizes
    <3>2. host.cmd \in [id : Ids, known : {TRUE}]
      BY <2>4, Sizes
    <3>3. host.cmd.id \in Ids
      BY <3>2
    <3> QED
      BY <2>4, <3>1, <3>3
  <2> QED
    BY <2>3, <2>5, ResponseBytes
<1>2. LinkInv /\ [Next]_vars =>
         [host.pc = "read" /\ host' # host => o_rdata' = Answer(host.cmd.id, host.n + 1)]_vars
  BY <1>1
<1> QED
  BY <1>2, LinkInvHolds, PTL DEF Spec, ResponseIsMine

\* Nobody writes into a full FIFO, although the host never asks whether it is full, and the
\* host never reads an empty one, although it never asks that either.
THEOREM NothingDroppedHolds ==
  ASSUME Regular
  PROVE  Spec => NothingIsDropped
<1>1. LinkInv /\ [Next]_vars =>
         [ /\ (host.pc = "write" /\ i_wfull) => host' = host
           /\ (fw.pc = "tx" /\ o_wfull) => fw' = fw
           /\ (host.pc = "read" /\ o_rempty) => host' = host ]_vars
  BY DEF LinkInv, Visible, Serving
<1> QED
  BY <1>1, LinkInvHolds, PTL DEF Spec, NothingIsDropped
=============================================================================
