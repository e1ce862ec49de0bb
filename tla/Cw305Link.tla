----------------------------- MODULE Cw305Link -----------------------------
(***************************************************************************)
(* The link between a measuring host and the victim firmware over the      *)
(* CW305 bridge (cw305_wb): a command travels through one dual-clock FIFO, *)
(* the response through another, and the DONE flag tells the host that the *)
(* response is complete.  Nothing orders the flag and the bytes but the    *)
(* number of flip-flops on their ways, so every edge of both clocks is a   *)
(* step here, and both may strike at once.                                 *)
(*                                                                         *)
(* The firmware is simpleserial_cw305_rq_get with the cw305 driver below   *)
(* it, one bus access per edge of the bus clock, with pauses; the host is  *)
(* CW305_rq, one access per edge of the USB clock, with pauses.            *)
(***************************************************************************)
EXTENDS Integers, Sequences

CONSTANTS Depth,      \* bytes in each FIFO
          DataLen,    \* bytes between a command's letter and its newline
          RespLen,    \* bytes of a response and its acknowledge
          Gap,        \* edges of both clocks that pass between two USB transactions
          CheckDone,  \* CW305_rq.check_done
          Unknown     \* may the host send commands the victim does not have?

ASSUME LinkAssumption == DataLen \in Nat /\ RespLen \in Nat \ {0} /\ Gap \in Nat

VARIABLES i_mem, i_wbin, i_wfull, i_wq1, i_wq2, i_rbin, i_rempty, i_rq1, i_rq2, i_rdata,
          o_mem, o_wbin, o_wfull, o_wq1, o_wq2, o_rbin, o_rempty, o_rq1, o_rq2, o_rdata,
          flag_reg, clr_req, clr_sync_set, flag_sync_clr, seen,
          trigger_q,  \* the measurement trigger
          fw,         \* the firmware: pc, bytes received, command, bytes sent, DONE as read
          host,       \* the host: pc, command, bytes written or read
          rest        \* the time since the host's last access: rounds of both clocks

iVars    == <<i_mem, i_wbin, i_wfull, i_wq1, i_wq2, i_rbin, i_rempty, i_rq1, i_rq2, i_rdata>>
oVars    == <<o_mem, o_wbin, o_wfull, o_wq1, o_wq2, o_rbin, o_rempty, o_rq1, o_rq2, o_rdata>>
flagVars == <<flag_reg, clr_req, clr_sync_set, flag_sync_clr, seen>>
fwVars   == <<trigger_q, fw>>
vars     == <<iVars, oVars, flagVars, fwVars, host, rest>>

\* The bytes, each marked with the command it belongs to, so that the properties can tell
\* whose response was read.  Blank is what the memories hold at power-up.
Ids     == {0, 1}
Blank   == <<"blank", 0, 0>>
Letter(c)      == <<"letter", c.id, IF c.known THEN 1 ELSE 0>>
Newline(c)     == <<"newline", c.id, 0>>
Digit(c, n)    == <<"digit", c.id, n>>
Answer(id, n)  == <<"answer", id, n>>

Cmds == [id : Ids, known : IF Unknown THEN BOOLEAN ELSE {TRUE}]

Bytes == {Blank} \cup {Letter(c) : c \in Cmds} \cup {Newline(c) : c \in Cmds}
         \cup {Digit(c, n) : c \in Cmds, n \in 1 .. DataLen}
         \cup {Answer(id, n) : id \in Ids, n \in 1 .. RespLen}

Line(c)      == <<Letter(c)>> \o [n \in 1 .. DataLen |-> Digit(c, n)] \o <<Newline(c)>>
Response(id) == [n \in 1 .. RespLen |-> Answer(id, n)]

In == INSTANCE AsyncFifo WITH
        Data <- Bytes, mem <- i_mem, wbin <- i_wbin, wfull <- i_wfull, wq1_rptr <- i_wq1,
        wq2_rptr <- i_wq2, rbin <- i_rbin, rempty <- i_rempty, rq1_wptr <- i_rq1,
        rq2_wptr <- i_rq2, rdata <- i_rdata

Out == INSTANCE AsyncFifo WITH
        Data <- Bytes, mem <- o_mem, wbin <- o_wbin, wfull <- o_wfull, wq1_rptr <- o_wq1,
        wq2_rptr <- o_wq2, rbin <- o_rbin, rempty <- o_rempty, rq1_wptr <- o_rq1,
        rq2_wptr <- o_rq2, rdata <- o_rdata

Done == INSTANCE DoneFlag

FwStart == [pc |-> "poll_rx", got |-> 0, id |-> 0, sent |-> 0, sca |-> FALSE]

Init ==
    /\ i_mem = [a \in 0 .. Depth - 1 |-> Blank] /\ i_rdata = Blank
    /\ o_mem = [a \in 0 .. Depth - 1 |-> Blank] /\ o_rdata = Blank
    /\ i_wbin = 0 /\ i_wfull = FALSE /\ i_wq1 = 0 /\ i_wq2 = 0
    /\ i_rbin = 0 /\ i_rempty = TRUE /\ i_rq1 = 0 /\ i_rq2 = 0
    /\ o_wbin = 0 /\ o_wfull = FALSE /\ o_wq1 = 0 /\ o_wq2 = 0
    /\ o_rbin = 0 /\ o_rempty = TRUE /\ o_rq1 = 0 /\ o_rq2 = 0
    /\ Done!Init /\ trigger_q = FALSE /\ fw = FwStart
    /\ host = [pc |-> "write", cmd |-> [id |-> 0, known |-> TRUE], n |-> 0]
    /\ rest = [rounds |-> Gap, wb |-> FALSE, usb |-> FALSE]

-----------------------------------------------------------------------------
(* The firmware *)

\* What an access of the firmware does on the bus: read the receive FIFO, write the
\* transmit FIFO, set DONE.
Rinc  == fw.pc = "rx"
Winc  == fw.pc = "tx"
WData == Response(fw.id)[fw.sent + 1]

\* Wrong variant: DONE goes up before the response is written.
SetDone_Early == (fw.pc = "poll_tx" /\ fw.sent = 0) \/ (fw.pc = "sca_write" /\ fw.sca)

\* Writing the trigger bit with |= writes the DONE bit back as it was read.
SetDone == fw.pc = "done" \/ (fw.pc = "sca_write" /\ fw.sca)

\* Wrong variant: the trigger stays up when the command is done.
TriggerNext_Stays == IF fw.pc = "sca_write" THEN TRUE ELSE trigger_q

TriggerNext == CASE fw.pc = "sca_write" -> TRUE
                 [] fw.pc = "done"      -> FALSE
                 [] OTHER               -> trigger_q

\* simpleserial_get after byte b: an unknown letter, a newline too early or a line too
\* long ends the command without a response.
AfterByte(b) ==
    LET giveUp == [fw EXCEPT !.pc = "done", !.got = 0]
        more   == [fw EXCEPT !.pc = "poll_rx", !.got = @ + 1]
    IN  IF fw.got = 0 THEN IF b[1] = "letter" /\ b[3] = 1 THEN [more EXCEPT !.id = b[2]]
                           ELSE giveUp
        ELSE IF fw.got <= DataLen THEN IF b[1] = "digit" THEN more ELSE giveUp
        ELSE IF b[1] = "newline" THEN [fw EXCEPT !.pc = "sca_read", !.got = 0] ELSE giveUp

\* Wrong variant: a command after which DONE is not set.
AfterTx_PlainGet == IF fw.sent + 1 < RespLen THEN [fw EXCEPT !.pc = "poll_tx", !.sent = @ + 1]
                    ELSE FwStart

AfterTx == IF fw.sent + 1 < RespLen THEN [fw EXCEPT !.pc = "poll_tx", !.sent = @ + 1]
           ELSE [fw EXCEPT !.pc = "done", !.sent = 0]

\* Where the firmware goes next; b is the byte it reads and sca the DONE bit it reads.
FwNext(b, sca) ==
    CASE fw.pc = "poll_rx"   -> IF i_rempty THEN fw ELSE [fw EXCEPT !.pc = "rx"]
      [] fw.pc = "rx"        -> AfterByte(b)
      [] fw.pc = "sca_read"  -> [fw EXCEPT !.pc = "sca_write", !.sca = sca]
      [] fw.pc = "sca_write" -> [fw EXCEPT !.pc = "poll_tx", !.sca = FALSE]
      [] fw.pc = "poll_tx"   -> IF o_wfull THEN fw ELSE [fw EXCEPT !.pc = "tx"]
      [] fw.pc = "tx"        -> AfterTx
      [] fw.pc = "done"      -> FwStart

\* An edge of the bus clock that catches the other side's registers as given; run is FALSE
\* when the firmware makes no access in it.
WbSide(run, iWptr, oRptr, req) ==
    /\ In!ReadSide(run /\ Rinc, iWptr)
    /\ Out!WriteSide(run /\ Winc, IF Winc THEN WData ELSE Blank, oRptr)
    /\ Done!SetSide(run /\ SetDone, req)
    /\ IF run THEN fw' = FwNext(i_rdata', flag_reg') /\ trigger_q' = TriggerNext
       ELSE UNCHANGED fwVars

-----------------------------------------------------------------------------
(* The host *)

UsbWrite == host.pc = "write"
UsbRead  == host.pc = "read"

\* usb_read_done: a read of a DONE that is high clears it.
UsbReadDone == host.pc = "wait" /\ flag_sync_clr[1]

Send(cmd) == [pc |-> "write", cmd |-> cmd, n |-> 0]

\* Wrong variant: the host does not wait for an answer.
AfterLine_NoWait(cmd) == Send(cmd)

\* simpleserial_read waits for DONE, if the target is told to check it.
AfterLine(cmd) == [host EXCEPT !.pc = IF CheckDone THEN "wait" ELSE "read", !.n = 0]
AfterRead(cmd) == IF host.n + 1 < RespLen THEN [host EXCEPT !.n = @ + 1] ELSE Send(cmd)

\* simpleserial_write, then simpleserial_read, byte by byte; the next command is cmd.
HostNext(cmd) ==
    CASE host.pc = "write" -> IF host.n < DataLen + 1 THEN [host EXCEPT !.n = @ + 1]
                              ELSE AfterLine(cmd)
      [] host.pc = "wait"  -> IF flag_sync_clr[1] THEN [host EXCEPT !.pc = "read"] ELSE host
      [] host.pc = "read"  -> AfterRead(cmd)

\* A transaction moves all bytes of a write or of a read at once, or polls DONE; between
\* two transactions there is the time of a USB transfer.
HostReady == (host.pc # "wait" /\ host.n > 0) \/ rest.rounds = Gap

\* An edge of the USB clock that catches the other side's registers as given.
UsbSide(run, cmd, iRptr, oWptr, flag, far) ==
    /\ In!WriteSide(run /\ UsbWrite, IF UsbWrite THEN Line(host.cmd)[host.n + 1] ELSE Blank, iRptr)
    /\ Out!ReadSide(run /\ UsbRead, oWptr)
    /\ Done!ClrSide(run /\ UsbReadDone, flag, far)
    /\ run => HostReady
    /\ host' = IF run THEN HostNext(cmd) ELSE host

NextCmds == {c \in Cmds : c.id # host.cmd.id}

-----------------------------------------------------------------------------
(* The clocks *)

\* A round has passed when each clock has had an edge.
Pass(wb, usb, access) ==
    LET r == [rest EXCEPT !.wb = @ \/ wb, !.usb = @ \/ usb] IN
    rest' = IF access THEN [rounds |-> 0, wb |-> FALSE, usb |-> FALSE]
            ELSE IF rest.rounds = Gap THEN rest
            ELSE IF r.wb /\ r.usb THEN [rounds |-> rest.rounds + 1, wb |-> FALSE, usb |-> FALSE]
            ELSE r

WbClk(run) == /\ WbSide(run, i_wbin, o_rbin, clr_req)
              /\ Done!Seen(run /\ SetDone, FALSE) /\ Pass(TRUE, FALSE, FALSE)
              /\ UNCHANGED <<i_wbin, i_wfull, i_wq1, i_wq2, i_mem, o_rbin, o_rempty, o_rq1,
                             o_rq2, o_rdata, clr_req, flag_sync_clr, host>>

UsbClk(run) == /\ \E cmd \in NextCmds :
                    UsbSide(run, cmd, i_rbin, o_wbin, flag_reg, clr_sync_set[1])
               /\ Done!Seen(FALSE, run /\ UsbReadDone) /\ Pass(FALSE, TRUE, run)
               /\ UNCHANGED <<i_rbin, i_rempty, i_rq1, i_rq2, i_rdata, o_wbin, o_wfull, o_wq1,
                              o_wq2, o_mem, flag_reg, clr_sync_set, fwVars>>

\* Both at once: a register that changes is caught before or after, each for itself.
BothClk(wb, usb) ==
    /\ \E iWptr \in {i_wbin, In!WbinNext(usb /\ UsbWrite)},
          iRptr \in {i_rbin, In!RbinNext(wb /\ Rinc)},
          oWptr \in {o_wbin, Out!WbinNext(wb /\ Winc)},
          oRptr \in {o_rbin, Out!RbinNext(usb /\ UsbRead)},
          req   \in {clr_req, Done!ReqNext(usb /\ UsbReadDone, clr_sync_set[1])},
          flag  \in {flag_reg, Done!FlagNext(wb /\ SetDone)},
          far   \in {clr_sync_set[0], clr_sync_set[1]}, cmd \in NextCmds :
            /\ WbSide(wb, iWptr, oRptr, req)
            /\ UsbSide(usb, cmd, iRptr, oWptr, flag, far)
    /\ Done!Seen(wb /\ SetDone, usb /\ UsbReadDone) /\ Pass(TRUE, TRUE, usb)

Next == \/ \E run \in BOOLEAN : WbClk(run)
        \/ \E run \in BOOLEAN : UsbClk(run)
        \/ \E wb, usb \in BOOLEAN : BothClk(wb, usb)

Spec == Init /\ [][Next]_vars

\* The clocks run, and the firmware and the host always make their next access.
FairSpec == Spec /\ WF_vars(WbClk(TRUE)) /\ WF_vars(UsbClk(TRUE)) /\ WF_vars(UsbClk(FALSE))

-----------------------------------------------------------------------------
(* Properties *)

\* What the host reads as the response to its command is that response, byte by byte: no
\* byte of it is late although DONE came through, and none is left over for the next.
ResponseIsMine ==
    [][host.pc = "read" /\ host' # host => o_rdata' = Answer(host.cmd.id, host.n + 1)]_vars

\* The firmware has finished the command: it waits for the first byte of the next.
Finished == fw.got = 0 /\ fw.pc \in {"poll_rx", "rx"}

\* When the host takes the target for done, it is done with the command just sent.
IsDoneMeansDone == host.pc = "read" => Finished

\* Neither end writes into a full FIFO, and the host never finds the response missing.
NothingIsDropped ==
    [][ /\ (host.pc = "write" /\ i_wfull) => host' = host
        /\ (fw.pc = "tx" /\ o_wfull) => fw' = fw
        /\ (host.pc = "read" /\ o_rempty) => host' = host ]_vars

\* The trigger is up only while the host waits: what is measured is the command's work,
\* not the transfer of its bytes.
TriggerFramesTheWork == trigger_q => host.pc = "wait"

\* Every command is answered, and the host can send the next one.
EveryCommandIsAnswered == [](host.pc = "wait" => <>(host.pc = "write"))
=============================================================================
