--------------------------- MODULE BootLoadProofs ---------------------------
(***************************************************************************)
(* The loader and the core stay in step, for every set of programs, every  *)
(* size of memory and every number of faults; and as long as nothing has   *)
(* failed, a program that the core enters has been loaded to its end.      *)
(***************************************************************************)
EXTENDS BootLoad, SequenceTheorems, TLAPS

\* The states of the loader, which decide the cases of the argument.
LStates == {"S0", "S1", "S2", "S3", "S4"}

Strong == lstate \in LStates /\ IInv

\* Power-up.
LEMMA InitStrong == Init => Strong
  BY DEF Init, Strong, IInv, LStates

\* A received byte moves the loader, and resets the core exactly when S2 is entered.
LEMMA RxByteStrong == Strong /\ RxByte => Strong'
<1> SUFFICES ASSUME Strong, RxByte PROVE Strong'
  OBVIOUS
<1> DEFINE nxt == LoaderNext(Head(wire))
<1>1. /\ lstate' = nxt
      /\ reset_cause' = CauseAfter(nxt)
      /\ IF nxt = "S2" THEN CoreReset ELSE UNCHANGED <<cpu, boot>>
  BY DEF RxByte
<1>2. nxt \in LStates /\ (nxt = "S2" => lstate = "S1")
      /\ (nxt \in {"S0", "S1"} => lstate \in {"S0", "S1"})
      /\ (nxt = "S4" => lstate \in {"S2", "S3", "S4"}) /\ nxt # "S3"
  BY DEF LoaderNext, Strong, LStates
<1>3. cpu # "reset"
  BY DEF RxByte, ReadyForByte
<1> HIDE DEF nxt
<1>4. CASE nxt = "S2"
  BY <1>1, <1>4 DEF Strong, IInv, LStates, CauseAfter, CoreReset
<1>5. CASE nxt \in {"S0", "S1"}
  BY <1>1, <1>2, <1>5 DEF Strong, IInv, LStates, CauseAfter
<1>6. CASE nxt = "S4"
  BY <1>1, <1>2, <1>3, <1>6 DEF Strong, IInv, LStates, CauseAfter
<1> QED
  BY <1>2, <1>4, <1>5, <1>6 DEF LStates

\* The loader's own moves.
LEMMA LoaderStrong == Strong /\ (LoaderRelease \/ LoaderTimeout \/ ExternalReset) => Strong'
<1>1. Strong /\ LoaderRelease => Strong'
  BY DEF Strong, IInv, LStates, LoaderRelease, coreVars
<1>2. Strong /\ LoaderTimeout => Strong'
  BY DEF Strong, IInv, LStates, LoaderTimeout, CauseAfter, CoreReset
<1>3. Strong /\ ExternalReset => Strong'
  BY DEF Strong, IInv, LStates, ExternalReset, CoreReset
<1> QED
  BY <1>1, <1>2, <1>3

\* What the core does while the loader stands still.
LEMMA CoreStrong ==
  Strong /\ (ResetHandler \/ BannerDone \/ TakeIrq \/ Fast_irq0_handler) => Strong'
<1>1. Strong /\ ResetHandler => Strong'
  BY DEF Strong, IInv, LStates, ResetHandler, loaderVars
<1>2. Strong /\ BannerDone => Strong'
  BY DEF Strong, IInv, LStates, BannerDone, loaderVars
<1>3. Strong /\ TakeIrq => Strong'
  BY DEF Strong, IInv, LStates, TakeIrq, loaderVars
<1>4. Strong /\ Fast_irq0_handler => Strong'
  <2> SUFFICES ASSUME Strong, Fast_irq0_handler PROVE Strong'
    OBVIOUS
  <2>1. cpu = "handler" /\ cpu' = "wait" /\ UNCHANGED loaderVars
    BY DEF Fast_irq0_handler
  <2> QED
    BY <2>1 DEF Strong, IInv, LStates, loaderVars
<1> QED
  BY <1>1, <1>2, <1>3, <1>4

\* Everything else leaves loader state, cause and core alone.
LEMMA FrameStrong == Strong /\ UNCHANGED <<lstate, reset_cause, cpu>> => Strong'
  BY DEF Strong, IInv, LStates

LEMMA OthersFrame ==
  \/ Host \/ Tick \/ BannerPoll \/ UserStore \/ UserPrints
  \/ (\E b \in Typed : UserTypes(b)) \/ (\E img \in Images : HostStart(img))
  \/ HostStall \/ HostKill \/ UNCHANGED vars
  => UNCHANGED <<lstate, reset_cause, cpu>>
<1>1. Host => UNCHANGED <<lstate, reset_cause, cpu>>
  BY DEF Host, HostSendCommand, HostSleep2Done, HostSendFiles, HostFinish, loaderVars, coreVars
<1>2. Tick \/ HostStall => UNCHANGED <<lstate, reset_cause, cpu>>
  BY DEF Tick, HostStall, SecondPasses, coreVars
<1>3. BannerPoll \/ UserStore \/ UserPrints \/ HostKill => UNCHANGED <<lstate, reset_cause, cpu>>
  BY DEF BannerPoll, UserStore, UserPrints, HostKill, loaderVars, coreVars
<1>4. (\E b \in Typed : UserTypes(b)) \/ (\E img \in Images : HostStart(img))
      => UNCHANGED <<lstate, reset_cause, cpu>>
  BY DEF UserTypes, HostStart, loaderVars, coreVars
<1>5. UNCHANGED vars => UNCHANGED <<lstate, reset_cause, cpu>>
  BY DEF vars
<1> QED
  BY <1>1, <1>2, <1>3, <1>4, <1>5

LEMMA NextStrong == Strong /\ [Next]_vars => Strong'
  BY RxByteStrong, LoaderStrong, CoreStrong, FrameStrong, OthersFrame DEF Next, Device

\* The loader's state fixes the cause the reset handler reads and what the core may be
\* running, in every reachable state.
THEOREM LoaderInvariant == Spec => []IInv
<1>1. Strong => IInv
  BY DEF Strong
<1> QED
  BY <1>1, InitStrong, NextStrong, PTL DEF Spec

\* The boot ROM runs only behind an open gate, a program only behind a shut one.
THEOREM GateIsSafe == Spec => []GateFollowsCore
<1>1. Strong => GateFollowsCore
  BY DEF Strong, IInv, LStates, GateFollowsCore, BootloaderEn
<1> QED
  BY <1>1, InitStrong, NextStrong, PTL DEF Spec

\* Only the boot ROM's handler changes program memory.
THEOREM ProgramIsSafe == Spec => OnlyLoadsWriteProgram
<1>1. Strong /\ [Next]_vars => [inst' # inst => cpu = "handler"]_vars
  <2> SUFFICES ASSUME Strong, Next, inst' # inst PROVE cpu = "handler"
    OBVIOUS
  <2>1. ~UserStore
    BY DEF UserStore, InstAfterStore, BootloaderEn, Strong, IInv, LStates
  <2>2. ~RxByte /\ ~LoaderRelease /\ ~LoaderTimeout /\ ~ResetHandler /\ ~BannerDone
        /\ ~TakeIrq /\ ~BannerPoll /\ ~UserPrints /\ ~ExternalReset
    BY DEF RxByte, LoaderRelease, LoaderTimeout, ResetHandler, BannerDone, TakeIrq,
           BannerPoll, UserPrints, ExternalReset, memVars
  <2>3. ~Host
    BY DEF Host, HostSendCommand, HostSleep2Done, HostSendFiles, HostFinish, memVars
  <2>4. ~Tick /\ ~HostStall /\ ~HostKill
    BY DEF Tick, HostStall, HostKill, SecondPasses, memVars
  <2>5. ~(\E b \in Typed : UserTypes(b)) /\ ~(\E img \in Images : HostStart(img))
    BY DEF UserTypes, HostStart, memVars
  <2>6. Fast_irq0_handler
    BY <2>1, <2>2, <2>3, <2>4, <2>5 DEF Next, Device
  <2> QED
    BY <2>6 DEF Fast_irq0_handler
<1> QED
  BY <1>1, InitStrong, NextStrong, PTL DEF Spec, OnlyLoadsWriteProgram

-----------------------------------------------------------------------------
(* What an upload does, byte by byte.                                      *)

\* What is asked of the programs and of the people: sections that fit into the memories, an
\* operator who waits out the loader's two seconds, and no dash typed to a program (the
\* loader cannot tell it from the beginning of a command).
Careful ==
    /\ Patient /\ Dash \notin Typed
    /\ MemLen \in Nat /\ MemLen \div 16777216 < 256
    /\ \A img \in Images : Len(img.inst) \in 1 .. MemLen /\ Len(img.data) \in 0 .. MemLen

\* What the host sends for a program, and how many bytes that is.
Files(img) == LengthBytes(Len(img.inst)) \o img.inst \o LengthBytes(Len(img.data)) \o img.data
Total(img) == 8 + Len(img.inst) + Len(img.data)

\* The first n elements of a section are where they belong.
Stored(mem, section, n) == \A i \in 1 .. n : mem[i - 1] = section[i]

\* The first n bytes of a length have been received, and with the last of them the limit.
Length(b, size, n) ==
    /\ n \in 0 .. 4 /\ b.len_ctr = n /\ b.ptr = 0
    /\ \A i \in 1 .. n : b.len[i] = LengthBytes(size)[i]
    /\ n = 4 => b.limit = size

\* The first n bytes of a section of that size, but not all of them, have been received.
Payload(b, size, n) == n \in 1 .. size - 1 /\ b.len_ctr = 4 /\ b.ptr = n /\ b.limit = size

\* The boot ROM's globals b and the memories im and dm after n bytes of the files of img.
Progress(img, b, im, dm, n) ==
    LET ni == Len(img.inst)  nd == Len(img.data) IN
    /\ \/ b.state = "INST" /\ Length(b, ni, n)
       \/ b.state = "INST" /\ Payload(b, ni, n - 4) /\ Stored(im, img.inst, n - 4)
       \/ b.state = "DATA" /\ Length(b, nd, n - 4 - ni) /\ Stored(im, img.inst, ni)
       \/ b.state = "DATA" /\ Payload(b, nd, n - 8 - ni) /\ Stored(im, img.inst, ni)
                                                       /\ Stored(dm, img.data, n - 8 - ni)
       \/ b.state = "DONE" /\ n = Total(img) /\ nd > 0 /\ Stored(im, img.inst, ni)
                                                     /\ Stored(dm, img.data, nd)

\* What the boot ROM's globals can be.
Globals == [state : {"INST", "DATA", "DONE"}, len_ctr : 0 .. 4, len : [1 .. 4 -> 0 .. 255],
            ptr : Nat, limit : Nat]

\* The byte in the UART's register has not been handled.
Pending == mip \/ cpu = "handler"

\* The bytes of the files that the UART has received, and that the handler has taken.
Taken   == Total(himg) - Len(wire)
Handled == IF Pending THEN Taken - 1 ELSE Taken

\* A program runs, or is about to: then it is complete.
Resting ==
    /\ lstate = "S0" /\ hpc \in {"idle", "sleep1"} /\ cpu \in {"reset", "user"}
    /\ \A i \in 1 .. Len(wire) : wire[i] # Dash
    /\ cpu = "reset" => \E img \in Images : Installed(img)
    /\ hpc = "sleep1" /\ hwait = 0 => cpu = "user" /\ wire = << >>

\* The host's command is on its way to the loader.
Commanded ==
    /\ hpc = "sleep2" /\ hwait = 1
    /\ \/ lstate = "S0" /\ cpu = "user" /\ wire = <<Dash, Pee>>
       \/ lstate = "S1" /\ cpu = "user" /\ wire = <<Pee>>
       \/ lstate = "S2" /\ cpu = "reset" /\ wire = << >> /\ ~mip /\ ~rx_st /\ counter = 0

\* The boot ROM waits for the files.
Awaiting ==
    /\ lstate = "S3" /\ counter = 0 /\ wire = << >> /\ ~mip /\ ~rx_st
    /\ hpc \in {"sleep2", "readline"} /\ cpu \in {"reset", "banner", "wait"}
    /\ cpu # "reset" => boot = BootStart
    /\ cpu = "wait" \/ (hpc = "sleep2" /\ hwait = 1)

\* The files are received.  Whoever goes on (the host with its next upload, the loader with
\* its timeout) finds them stored, down to the last byte.
Loading ==
    /\ lstate \in {"S3", "S4"} /\ hpc \in {"final", "idle"} /\ cpu \in {"wait", "handler"}
    /\ Taken \in 0 .. Total(himg) /\ (lstate = "S3" => Taken = 0) /\ (Taken = 0 => lstate = "S3")
    /\ \A i \in 1 .. Len(wire) : wire[i] = Files(himg)[Taken + i]
    /\ cpu = "handler" => ~mip
    /\ Pending => rx_st /\ Taken > 0 /\ rx_byte = Files(himg)[Taken]
    /\ boot \in Globals /\ Progress(himg, boot, inst, data, Handled)
    /\ line \/ hpc = "idle" \/ hwait = 0 \/ counter > 0 => Handled = Total(himg)
    /\ hpc = "final" => counter + hwait = 1

\* The types of what an upload goes through.
UploadTypes ==
    /\ mip \in BOOLEAN /\ rx_st \in BOOLEAN /\ line \in BOOLEAN
    /\ inst \in [0 .. MemLen - 1 -> 0 .. 255] /\ data \in [0 .. MemLen - 1 -> 0 .. 255]
    /\ himg \in Images /\ wire \in Seq(0 .. 255) /\ hwait \in {0, 1} /\ counter \in 0 .. Timeout

\* As long as nothing has failed, the loader, the core and the host are in one of four situations.
Phases == faults \in Nat /\ (faults = 0 => UploadTypes /\ (Resting \/ Commanded \/ Awaiting \/ Loading))

-----------------------------------------------------------------------------
(* The files of a program.                                                 *)

\* A program's sections, and the bytes they are made of.
LEMMA Sections ==
  ASSUME Careful, NEW img \in Images
  PROVE  /\ img.inst \in Seq(0 .. 255) /\ img.data \in Seq(0 .. 255)
         /\ Len(img.inst) \in 1 .. MemLen /\ Len(img.data) \in 0 .. MemLen /\ MemLen \in Nat
         /\ Len(img.inst) \in Nat /\ Len(img.data) \in Nat /\ Len(img.inst) \in 0 .. MemLen
         /\ Len(img.inst) > 0
         /\ Total(img) \in Nat /\ Total(img) > 8
         /\ Total(img) = 8 + Len(img.inst) + Len(img.data)
         /\ \A i \in 1 .. Len(img.inst) : img.inst[i] \in 0 .. 255
         /\ \A i \in 1 .. Len(img.data) : img.data[i] \in 0 .. 255
<1>1. img.inst \in Seq(0 .. 255) /\ img.data \in Seq(0 .. 255)
  <2> DEFINE B == 0 .. 255
  <2>1. img.inst \in Seq(Byte) /\ img.data \in Seq(Byte)
    BY ImagesAssumption
  <2>2. Byte \subseteq B
    BY ByteAssumption
  <2> HIDE DEF B
  <2>3. img.inst \in Seq(B) /\ img.data \in Seq(B)
    BY <2>1, <2>2, SeqMonotonic, Zenon
  <2> QED
    BY <2>3 DEF B
<1>2. Len(img.inst) \in 1 .. MemLen /\ Len(img.data) \in 0 .. MemLen /\ MemLen \in Nat
  BY DEF Careful
<1>3. /\ \A i \in 1 .. Len(img.inst) : img.inst[i] \in 0 .. 255
      /\ \A i \in 1 .. Len(img.data) : img.data[i] \in 0 .. 255
  BY <1>1, ElementOfSeq
<1>4. Total(img) = 8 + Len(img.inst) + Len(img.data)
  BY DEF Total
<1>5. /\ Total(img) \in Nat /\ Total(img) > 8
      /\ Len(img.inst) \in Nat /\ Len(img.data) \in Nat /\ Len(img.inst) \in 0 .. MemLen
      /\ Len(img.inst) > 0
  <2> DEFINE ni == Len(img.inst)
             nd == Len(img.data)
             t  == Total(img)
  <2>1. ni \in 1 .. MemLen /\ nd \in 0 .. MemLen /\ MemLen \in Nat /\ t = 8 + ni + nd
    BY <1>2, <1>4
  <2> HIDE DEF ni, nd, t
  <2>2. t \in Nat /\ t > 8 /\ ni \in Nat /\ nd \in Nat /\ ni \in 0 .. MemLen /\ ni > 0
    BY <2>1
  <2> QED
    BY <2>2 DEF t, ni, nd
<1> QED
  BY <1>1, <1>2, <1>3, <1>4, <1>5

\* A byte of a number, and the rest.
LEMMA SplitByte ==
  ASSUME NEW n \in Nat
  PROVE  n = 256 * (n \div 256) + (n % 256) /\ n % 256 \in 0 .. 255 /\ n \div 256 \in Nat
<1>1. n = 256 * (n \div 256) + (n % 256)
  BY SMT
<1>2. n % 256 \in 0 .. 255
  <2>1. n % 256 \in Int /\ 0 <= n % 256 /\ n % 256 <= 255
    BY <1>1
  <2> QED
    BY <2>1
<1>3. n \div 256 \in Nat
  BY SMT
<1> QED
  BY <1>1, <1>2, <1>3

\* What the shifts by two and by three bytes leave.
LEMMA Shifted ==
  ASSUME NEW n \in Nat, NEW q \in Nat, NEW r \in Nat
  PROVE  /\ r < 65536 /\ n = 65536 * q + r => n \div 65536 = q
         /\ r < 16777216 /\ n = 16777216 * q + r => n \div 16777216 = q
<1>1. ASSUME r < 65536, n = 65536 * q + r PROVE n \div 65536 = q
  BY <1>1, SMT
<1>2. ASSUME r < 16777216, n = 16777216 * q + r PROVE n \div 16777216 = q
  BY <1>2, SMT
<1> QED
  BY <1>1, <1>2, SMT

\* The four bytes of a length are bytes, and what the boot ROM makes of them is the length.
LEMMA LengthIsRead ==
  ASSUME Careful, NEW n \in 0 .. MemLen
  PROVE  /\ LengthBytes(n) \in Seq(0 .. 255) /\ Len(LengthBytes(n)) = 4
         /\ \A i \in 1 .. 4 : LengthBytes(n)[i] \in 0 .. 255
         /\ \A b \in [1 .. 4 -> 0 .. 255] : (\A i \in 1 .. 4 : b[i] = LengthBytes(n)[i]) => LengthOf(b) = n
<1> DEFINE b1 == n % 256
           b2 == (n \div 256) % 256
           b3 == (n \div 65536) % 256
           b4 == n \div 16777216
           d1 == n \div 256
           d2 == d1 \div 256
<1>1. n \in Nat /\ b4 < 256
  BY SMT DEF Careful
<1>2. b1 \in 0 .. 255 /\ b2 \in 0 .. 255 /\ b3 \in 0 .. 255 /\ b4 \in 0 .. 255
      /\ b1 + 256 * b2 + 65536 * b3 + 16777216 * b4 = n
  <2>1. n = 256 * d1 + b1 /\ b1 \in 0 .. 255 /\ d1 \in Nat
    BY <1>1, SplitByte
  <2>2. d1 = 256 * d2 + b2 /\ b2 \in 0 .. 255 /\ d2 \in Nat
    BY <2>1, SplitByte
  <2>3. d2 = 256 * (d2 \div 256) + (d2 % 256) /\ d2 % 256 \in 0 .. 255 /\ d2 \div 256 \in Nat
    BY <2>2, SplitByte
  <2>4. b3 = d2 % 256
    <3> DEFINE r == 256 * b2 + b1
    <3> HIDE DEF b1, b2, d1, d2
    <3>1. r \in Nat /\ r < 65536 /\ n = 65536 * d2 + r
      BY <2>1, <2>2, SMT
    <3>2. n \div 65536 = d2
      BY <1>1, <2>2, <3>1, Shifted, SMT
    <3> QED
      BY <3>2
  <2>5. b4 = d2 \div 256
    <3> DEFINE d3 == d2 \div 256
               c  == d2 % 256
               r  == 65536 * c + 256 * b2 + b1
    <3>1. d2 = 256 * d3 + c /\ c \in 0 .. 255 /\ d3 \in Nat
      BY <2>3
    <3> HIDE DEF b1, b2, d1, d2, d3, c
    <3>2. r \in Nat /\ r < 16777216 /\ n = 16777216 * d3 + r
      BY <2>1, <2>2, <3>1, SMT
    <3> QED
      <4>1. n \div 16777216 = d3
        BY <1>1, <3>1, <3>2, Shifted, SMT
      <4> QED
        BY <4>1 DEF d3
  <2>6. d2 = 256 * b4 + b3 /\ b3 \in 0 .. 255 /\ b4 \in Nat
    BY <2>3, <2>4, <2>5
  <2> HIDE DEF b1, b2, b3, b4, d1, d2
  <2> QED
    BY <1>1, <2>1, <2>2, <2>6, SMT
<1>3. LengthBytes(n) = <<b1, b2, b3, b4>>
  BY DEF LengthBytes
<1> HIDE DEF b1, b2, b3, b4
<1>4. /\ LengthBytes(n)[1] = b1 /\ LengthBytes(n)[2] = b2
      /\ LengthBytes(n)[3] = b3 /\ LengthBytes(n)[4] = b4
      /\ LengthBytes(n) \in Seq(0 .. 255) /\ Len(LengthBytes(n)) = 4
  BY <1>2, <1>3
<1>5. ASSUME NEW i \in 1 .. 4 PROVE LengthBytes(n)[i] \in 0 .. 255
  <2>1. i = 1 \/ i = 2 \/ i = 3 \/ i = 4
    OBVIOUS
  <2>2. b1 \in 0 .. 255 /\ b2 \in 0 .. 255 /\ b3 \in 0 .. 255 /\ b4 \in 0 .. 255
    BY <1>2
  <2> QED
    BY <1>4, <2>1, <2>2
<1>6. ASSUME NEW b \in [1 .. 4 -> 0 .. 255], \A i \in 1 .. 4 : b[i] = LengthBytes(n)[i]
      PROVE  LengthOf(b) = n
  <2>1. b[1] = b1 /\ b[2] = b2 /\ b[3] = b3 /\ b[4] = b4
    BY <1>4, <1>6
  <2> QED
    BY <1>2, <2>1, SMT DEF LengthOf
<1> QED
  BY <1>4, <1>5, <1>6

\* Where each byte of a program is among the bytes the host sends.
LEMMA FilesAre ==
  ASSUME Careful, NEW img \in Images
  PROVE  /\ Files(img) \in Seq(0 .. 255) /\ Len(Files(img)) = Total(img)
         /\ \A i \in 1 .. 4 : Files(img)[i] = LengthBytes(Len(img.inst))[i]
         /\ \A i \in 1 .. Len(img.inst) : Files(img)[4 + i] = img.inst[i]
         /\ \A i \in 1 .. 4 : Files(img)[4 + Len(img.inst) + i] = LengthBytes(Len(img.data))[i]
         /\ \A i \in 1 .. Len(img.data) : Files(img)[8 + Len(img.inst) + i] = img.data[i]
<1> DEFINE ni == Len(img.inst)
           nd == Len(img.data)
           s1 == LengthBytes(ni)
           s2 == s1 \o img.inst
           s3 == s2 \o LengthBytes(nd)
           s4 == s3 \o img.data
           B  == 0 .. 255
<1>1. img.inst \in Seq(B) /\ img.data \in Seq(B) /\ ni \in Nat /\ nd \in Nat
      /\ Total(img) = 8 + ni + nd /\ ni \in 0 .. MemLen /\ nd \in 0 .. MemLen
  BY Sections
<1>2. s1 \in Seq(B) /\ Len(s1) = 4
      /\ LengthBytes(nd) \in Seq(B) /\ Len(LengthBytes(nd)) = 4
  BY <1>1, LengthIsRead
<1>3. Files(img) = s4
  BY DEF Files
<1> HIDE DEF ni, nd, s1, B
<1> HIDE DEF s2, s3, s4
<1>4. /\ s2 \in Seq(B) /\ Len(s2) = 4 + ni
      /\ \A i \in 1 .. 4 + ni : s2[i] = IF i <= 4 THEN s1[i] ELSE img.inst[i - 4]
  <2>1. s1 \in Seq(B) /\ img.inst \in Seq(B) /\ Len(s1) = 4 /\ Len(img.inst) = ni
    BY <1>1, <1>2 DEF ni
  <2>2. /\ s1 \o img.inst \in Seq(B) /\ Len(s1 \o img.inst) = Len(s1) + Len(img.inst)
        /\ \A i \in 1 .. Len(s1) + Len(img.inst) :
              (s1 \o img.inst)[i] = IF i <= Len(s1) THEN s1[i] ELSE img.inst[i - Len(s1)]
    BY <2>1, ConcatProperties, Zenon
  <2> QED
    BY <2>1, <2>2 DEF s2
<1>5. /\ s3 \in Seq(B) /\ Len(s3) = 8 + ni
      /\ \A i \in 1 .. 8 + ni : s3[i] = IF i <= 4 + ni THEN s2[i] ELSE LengthBytes(nd)[i - (4 + ni)]
  <2>1. /\ s3 \in Seq(B) /\ Len(s3) = 4 + ni + 4
        /\ \A i \in 1 .. 4 + ni + 4 : s3[i] = IF i <= 4 + ni THEN s2[i] ELSE LengthBytes(nd)[i - (4 + ni)]
    <3>1. LengthBytes(nd) \in Seq(B) /\ Len(LengthBytes(nd)) = 4 /\ s2 \in Seq(B) /\ Len(s2) = 4 + ni
      BY <1>2, <1>4
    <3>2. /\ s2 \o LengthBytes(nd) \in Seq(B) /\ Len(s2 \o LengthBytes(nd)) = Len(s2) + Len(LengthBytes(nd))
          /\ \A i \in 1 .. Len(s2) + Len(LengthBytes(nd)) :
                (s2 \o LengthBytes(nd))[i] = IF i <= Len(s2) THEN s2[i] ELSE LengthBytes(nd)[i - Len(s2)]
      BY <3>1, ConcatProperties, Zenon
    <3> QED
      BY <3>1, <3>2 DEF s3
  <2>2. 4 + ni + 4 = 8 + ni
    BY <1>1
  <2> QED
    BY <2>1, <2>2
<1>6. /\ s4 \in Seq(B) /\ Len(s4) = 8 + ni + nd
      /\ \A i \in 1 .. 8 + ni + nd : s4[i] = IF i <= 8 + ni THEN s3[i] ELSE img.data[i - (8 + ni)]
  <2>1. s3 \in Seq(B) /\ Len(s3) = 8 + ni /\ img.data \in Seq(B) /\ Len(img.data) = nd
    BY <1>1, <1>5 DEF nd
  <2>2. /\ s3 \o img.data \in Seq(B) /\ Len(s3 \o img.data) = Len(s3) + Len(img.data)
        /\ \A i \in 1 .. Len(s3) + Len(img.data) :
              (s3 \o img.data)[i] = IF i <= Len(s3) THEN s3[i] ELSE img.data[i - Len(s3)]
    BY <2>1, ConcatProperties, Zenon
  <2> QED
    BY <2>1, <2>2 DEF s4
<1>7. ASSUME NEW i \in 1 .. 4 PROVE s4[i] = s1[i]
  BY <1>1, <1>4, <1>5, <1>6
<1>8. ASSUME NEW i \in 1 .. ni PROVE s4[4 + i] = img.inst[i]
  <2>1. 4 + i \in 1 .. 4 + ni /\ 4 + i \in 1 .. 8 + ni /\ 4 + i \in 1 .. 8 + ni + nd
        /\ 4 + i <= 4 + ni /\ 4 + i <= 8 + ni /\ ~(4 + i <= 4) /\ (4 + i) - 4 = i
    BY <1>1
  <2> QED
    BY <1>4, <1>5, <1>6, <2>1
<1>9. ASSUME NEW i \in 1 .. 4 PROVE s4[4 + ni + i] = LengthBytes(nd)[i]
  <2>1. 4 + ni + i \in 1 .. 8 + ni /\ 4 + ni + i \in 1 .. 8 + ni + nd
        /\ ~(4 + ni + i <= 4 + ni) /\ 4 + ni + i <= 8 + ni /\ (4 + ni + i) - (4 + ni) = i
    BY <1>1
  <2> QED
    BY <1>5, <1>6, <2>1
<1>10. ASSUME NEW i \in 1 .. nd PROVE s4[8 + ni + i] = img.data[i]
  <2>1. 8 + ni + i \in 1 .. 8 + ni + nd /\ ~(8 + ni + i <= 8 + ni) /\ (8 + ni + i) - (8 + ni) = i
    BY <1>1
  <2> QED
    BY <1>6, <2>1
<1> QED
  BY <1>1, <1>3, <1>6, <1>7, <1>8, <1>9, <1>10 DEF ni, nd, s1, B

-----------------------------------------------------------------------------
(* The boot ROM's interrupt handler takes the next byte of the files.      *)

\* Both memories hold bytes.
Memories == /\ inst \in [0 .. MemLen - 1 -> 0 .. 255] /\ data \in [0 .. MemLen - 1 -> 0 .. 255]

\* A byte of a length.
LEMMA LengthStep ==
  ASSUME Careful, NEW size \in 0 .. MemLen, NEW m, boot \in Globals, Length(boot, size, m),
         NEW v, m < 4 => v = LengthBytes(size)[m + 1], TakeLengthByte(v)
  PROVE  /\ boot' \in Globals /\ boot'.state = boot.state /\ Length(boot', size, m + 1)
         /\ inst' = inst /\ data' = data /\ (line' => line)
<1> DEFINE len == [boot.len EXCEPT ![boot.len_ctr + 1] = v]
<1>1. m \in 0 .. 3 /\ boot.len_ctr = m /\ boot.ptr = 0 /\ \A i \in 1 .. m : boot.len[i] = LengthBytes(size)[i]
  BY DEF Length, TakeLengthByte
<1>2. boot.len \in [1 .. 4 -> 0 .. 255] /\ boot.state \in {"INST", "DATA", "DONE"} /\ boot.limit \in Nat
  BY DEF Globals
<1>3. v = LengthBytes(size)[m + 1] /\ v \in 0 .. 255
  <2>1. m < 4 /\ m + 1 \in 1 .. 4
    BY <1>1
  <2>2. LengthBytes(size)[m + 1] \in 0 .. 255
    BY <2>1, LengthIsRead
  <2> QED
    BY <2>1, <2>2
<1>4. len \in [1 .. 4 -> 0 .. 255] /\ \A i \in 1 .. m + 1 : len[i] = LengthBytes(size)[i]
  BY <1>1, <1>2, <1>3
<1>5. boot' = [boot EXCEPT !.len = len, !.len_ctr = boot.len_ctr + 1,
                           !.limit = IF boot.len_ctr = 3 THEN LengthOf(len) ELSE boot.limit]
      /\ inst' = inst /\ data' = data /\ line' = line
  BY DEF TakeLengthByte, memVars
<1> HIDE DEF len
<1>6. m = 3 => LengthOf(len) = size
  BY <1>4, LengthIsRead
<1>7. /\ boot'.state = boot.state /\ boot'.len_ctr = m + 1 /\ boot'.ptr = 0 /\ boot'.len = len
      /\ boot'.limit = IF m = 3 THEN size ELSE boot.limit
  BY <1>1, <1>5, <1>6 DEF Globals
<1>8. boot' \in Globals
  <2>1. size \in Nat
    BY DEF Careful
  <2>2. (IF m = 3 THEN size ELSE boot.limit) \in Nat /\ m + 1 \in 0 .. 4
    BY <1>1, <1>2, <2>1
  <2>3. boot' = [boot EXCEPT !.len = len, !.len_ctr = m + 1, !.limit = IF m = 3 THEN size ELSE boot.limit]
    BY <1>1, <1>5, <1>6
  <2> QED
    BY <1>4, <2>2, <2>3 DEF Globals
<1> QED
  BY <1>1, <1>4, <1>5, <1>7, <1>8 DEF Length

\* A byte of the program, while the gate is open.
LEMMA InstStep ==
  ASSUME Careful, NEW img \in Images, boot \in Globals, Memories, BootloaderEn,
         NEW m \in 0 .. Len(img.inst) - 1,
         boot.state = "INST", boot.ptr = m, boot.limit = Len(img.inst), Stored(inst, img.inst, m),
         TakePayloadByte(img.inst[m + 1])
  PROVE  /\ boot' \in Globals /\ Memories' /\ data' = data /\ (line' => line)
         /\ Stored(inst', img.inst, m + 1)
         /\ \/ boot'.state = "INST" /\ Payload(boot', Len(img.inst), m + 1)
            \/ boot'.state = "DATA" /\ m + 1 = Len(img.inst) /\ Length(boot', Len(img.data), 0)
<1> DEFINE v  == img.inst[m + 1]
           ni == Len(img.inst)
<1>1. ni \in 1 .. MemLen /\ ni \in Nat /\ MemLen \in Nat /\ m \in 0 .. ni - 1
  BY Sections
<1>2. v \in 0 .. 255
  <2>1. m + 1 \in 1 .. Len(img.inst)
    BY <1>1
  <2> QED
    BY <2>1, Sections
<1>3. /\ boot.len_ctr = 4 /\ inst' = InstAfterStore(m, v) /\ data' = data
      /\ boot' = IF m + 1 # ni THEN [boot EXCEPT !.ptr = m + 1]
                 ELSE [boot EXCEPT !.state = "DATA", !.ptr = 0, !.len_ctr = 0]
      /\ (line' => line)
  BY DEF TakePayloadByte
<1> HIDE DEF v, ni
<1>4. inst' = [inst EXCEPT ![m] = v] /\ m \in 0 .. MemLen - 1
  BY <1>1, <1>3 DEF InstAfterStore
<1>5. Memories' /\ Stored(inst', img.inst, m + 1)
  <2>1. inst' \in [0 .. MemLen - 1 -> 0 .. 255]
    BY <1>2, <1>4 DEF Memories
  <2>2. ASSUME NEW i \in 1 .. m + 1 PROVE inst'[i - 1] = img.inst[i]
    <3>1. CASE i = m + 1
      BY <1>1, <1>4, <3>1 DEF Memories, v
    <3>2. CASE i \in 1 .. m
      <4>1. i - 1 \in 0 .. MemLen - 1 /\ i - 1 # m
        BY <1>1, <1>4, <3>2
      <4> QED
        BY <1>4, <3>2, <4>1 DEF Memories, Stored
    <3> QED
      BY <1>1, <3>1, <3>2
  <2> QED
    BY <1>3, <2>1, <2>2 DEF Memories, Stored
<1>6. CASE m + 1 # ni
  <2>1. boot' = [boot EXCEPT !.ptr = m + 1] /\ m + 1 \in 1 .. ni - 1 /\ m + 1 \in Nat
    BY <1>1, <1>3, <1>6
  <2>2. boot' \in Globals
    BY <2>1 DEF Globals
  <2>3. boot'.state = "INST" /\ Payload(boot', ni, m + 1)
    BY <1>3, <2>1 DEF Globals, Payload, ni
  <2> QED
    BY <1>3, <1>5, <2>2, <2>3 DEF ni
<1>7. CASE m + 1 = ni
  <2>1. boot' = [boot EXCEPT !.state = "DATA", !.ptr = 0, !.len_ctr = 0]
    BY <1>3, <1>7
  <2>2. boot' \in Globals
    <3>1. boot' \in [state : {"INST", "DATA", "DONE"}, len_ctr : {0}, len : [1 .. 4 -> 0 .. 255],
                     ptr : {0}, limit : Nat]
      BY <2>1 DEF Globals
    <3> QED
      BY <3>1 DEF Globals
  <2>3. boot'.state = "DATA" /\ Length(boot', Len(img.data), 0)
    BY <2>1 DEF Globals, Length
  <2> QED
    BY <1>3, <1>5, <1>7, <2>2, <2>3 DEF ni
<1> QED
  BY <1>6, <1>7

\* A byte of the data.
LEMMA DataStep ==
  ASSUME Careful, NEW img \in Images, boot \in Globals, Memories,
         NEW m \in 0 .. Len(img.data) - 1,
         boot.state = "DATA", boot.ptr = m, boot.limit = Len(img.data), Stored(data, img.data, m),
         TakePayloadByte(img.data[m + 1])
  PROVE  /\ boot' \in Globals /\ Memories' /\ inst' = inst
         /\ Stored(data', img.data, m + 1)
         /\ \/ boot'.state = "DATA" /\ Payload(boot', Len(img.data), m + 1) /\ (line' => line)
            \/ boot'.state = "DONE" /\ m + 1 = Len(img.data)
<1> DEFINE v  == img.data[m + 1]
           nd == Len(img.data)
<1>1. nd \in 0 .. MemLen /\ nd \in Nat /\ MemLen \in Nat /\ m \in 0 .. nd - 1
  BY Sections
<1>2. v \in 0 .. 255
  <2>1. m + 1 \in 1 .. Len(img.data)
    BY <1>1
  <2> QED
    BY <2>1, Sections
<1>3. /\ boot.len_ctr = 4 /\ data' = DataAfterStore(m, v) /\ inst' = inst
      /\ boot' = IF m + 1 # nd THEN [boot EXCEPT !.ptr = m + 1]
                 ELSE [boot EXCEPT !.state = "DONE", !.ptr = m + 1]
      /\ (line' => line \/ m + 1 = nd)
  BY DEF TakePayloadByte
<1> HIDE DEF v, nd
<1>4. data' = [data EXCEPT ![m] = v] /\ m \in 0 .. MemLen - 1
  BY <1>1, <1>3 DEF DataAfterStore
<1>5. Memories' /\ Stored(data', img.data, m + 1)
  <2>1. data' \in [0 .. MemLen - 1 -> 0 .. 255]
    BY <1>2, <1>4 DEF Memories
  <2>2. ASSUME NEW i \in 1 .. m + 1 PROVE data'[i - 1] = img.data[i]
    <3>1. CASE i = m + 1
      BY <1>1, <1>4, <3>1 DEF Memories, v
    <3>2. CASE i \in 1 .. m
      <4>1. i - 1 \in 0 .. MemLen - 1 /\ i - 1 # m
        BY <1>1, <1>4, <3>2
      <4> QED
        BY <1>4, <3>2, <4>1 DEF Memories, Stored
    <3> QED
      BY <1>1, <3>1, <3>2
  <2> QED
    BY <1>3, <2>1, <2>2 DEF Memories, Stored
<1>6. CASE m + 1 # nd
  <2>1. boot' = [boot EXCEPT !.ptr = m + 1] /\ m + 1 \in 1 .. nd - 1 /\ m + 1 \in Nat
    BY <1>1, <1>3, <1>6
  <2>2. boot' \in Globals
    BY <2>1 DEF Globals
  <2>3. boot'.state = "DATA" /\ Payload(boot', nd, m + 1)
    BY <1>3, <2>1 DEF Globals, Payload, nd
  <2> QED
    BY <1>3, <1>5, <1>6, <2>2, <2>3 DEF nd
<1>7. CASE m + 1 = nd
  <2>1. boot' = [boot EXCEPT !.state = "DONE", !.ptr = m + 1] /\ m + 1 \in Nat
    BY <1>1, <1>3, <1>7
  <2>2. boot' \in Globals /\ boot'.state = "DONE"
    BY <2>1 DEF Globals
  <2> QED
    BY <1>3, <1>5, <1>7, <2>2 DEF nd
<1> QED
  BY <1>6, <1>7

\* The handler takes the next byte for what it is, and says so only after the last one.
LEMMA HandlerStep ==
  ASSUME Careful, NEW img \in Images, boot \in Globals, Memories, BootloaderEn,
         NEW n \in 0 .. Total(img) - 1, Progress(img, boot, inst, data, n),
         NEW v, v = Files(img)[n + 1],
         \/ boot.state = "DONE" /\ UNCHANGED <<boot, inst, data, line>>
         \/ TakeLengthByte(v)
         \/ TakePayloadByte(v)
  PROVE  /\ boot' \in Globals /\ Memories' /\ Progress(img, boot', inst', data', n + 1)
         /\ line' => line \/ n + 1 = Total(img)
<1> DEFINE ni == Len(img.inst)
           nd == Len(img.data)
           Goal == /\ boot' \in Globals /\ Memories' /\ Progress(img, boot', inst', data', n + 1)
                   /\ line' => line \/ n + 1 = Total(img)
<1>1. /\ ni \in 1 .. MemLen /\ nd \in 0 .. MemLen /\ ni \in Nat /\ nd \in Nat /\ ni \in 0 .. MemLen
      /\ Total(img) = 8 + ni + nd /\ n \in Nat /\ n < 8 + ni + nd
  <2>1. /\ ni \in 1 .. MemLen /\ nd \in 0 .. MemLen /\ ni \in Nat /\ nd \in Nat /\ ni \in 0 .. MemLen
        /\ Total(img) = 8 + ni + nd /\ Total(img) \in Nat
    BY Sections
  <2> DEFINE t == Total(img)
  <2>2. n \in 0 .. t - 1 /\ t \in Nat
    BY <2>1
  <2> HIDE DEF ni, nd, t
  <2>3. n \in Nat /\ n < t
    BY <2>2
  <2> QED
    BY <2>1, <2>3 DEF t
<1>2. /\ \A i \in 1 .. 4 : Files(img)[i] = LengthBytes(ni)[i]
      /\ \A i \in 1 .. ni : Files(img)[4 + i] = img.inst[i]
      /\ \A i \in 1 .. 4 : Files(img)[4 + ni + i] = LengthBytes(nd)[i]
      /\ \A i \in 1 .. nd : Files(img)[8 + ni + i] = img.data[i]
  BY FilesAre
<1> HIDE DEF ni, nd
<1>3. \/ boot.state = "INST" /\ Length(boot, ni, n)
      \/ boot.state = "INST" /\ Payload(boot, ni, n - 4) /\ Stored(inst, img.inst, n - 4)
      \/ boot.state = "DATA" /\ Length(boot, nd, n - 4 - ni) /\ Stored(inst, img.inst, ni)
      \/ boot.state = "DATA" /\ Payload(boot, nd, n - 8 - ni) /\ Stored(inst, img.inst, ni)
                                                        /\ Stored(data, img.data, n - 8 - ni)
  <2>1. n # Total(img)
    BY <1>1
  <2> QED
    BY <2>1 DEF Progress, ni, nd
<1>4. TakeLengthByte(v) \/ TakePayloadByte(v)
  BY <1>3
<1>5. \A m : Payload(boot, ni, m) \/ Payload(boot, nd, m) => ~TakeLengthByte(v)
  BY DEF Payload, TakeLengthByte
<1>6. \A size, m : Length(boot, size, m) =>
          /\ TakeLengthByte(v) => m \in 0 .. 3
          /\ TakePayloadByte(v) => m = 4 /\ boot.ptr = 0 /\ boot.limit = size
  BY DEF Length, TakeLengthByte, TakePayloadByte
<1>7. ASSUME boot.state = "INST", TakePayloadByte(v), NEW m \in 0 .. ni - 1, n = 4 + m,
             boot.ptr = m, boot.limit = ni, Stored(inst, img.inst, m)
      PROVE  Goal
  <2>1. v = img.inst[m + 1]
    <3>1. m + 1 \in 1 .. ni /\ 4 + (m + 1) = n + 1
      BY <1>1, <1>7
    <3> QED
      BY <1>2, <3>1
  <2>2. /\ boot' \in Globals /\ Memories' /\ (line' => line)
        /\ Stored(inst', img.inst, m + 1)
        /\ \/ boot'.state = "INST" /\ Payload(boot', ni, m + 1)
           \/ boot'.state = "DATA" /\ m + 1 = ni /\ Length(boot', nd, 0)
    BY <1>7, <2>1, InstStep DEF ni, nd
  <2>3. m + 1 = (n + 1) - 4 /\ (m + 1 = ni => (n + 1) - 4 - ni = 0)
    BY <1>1, <1>7
  <2>4. Progress(img, boot', inst', data', n + 1)
    BY <2>2, <2>3 DEF Progress, ni, nd
  <2> QED
    BY <2>2, <2>4
<1>8. ASSUME boot.state = "DATA", TakePayloadByte(v), NEW m \in 0 .. nd - 1, n = 8 + ni + m,
             boot.ptr = m, boot.limit = nd, Stored(data, img.data, m), Stored(inst, img.inst, ni)
      PROVE  Goal
  <2>1. v = img.data[m + 1]
    <3>1. m + 1 \in 1 .. nd /\ 8 + ni + (m + 1) = n + 1
      BY <1>1, <1>8
    <3> QED
      BY <1>2, <3>1
  <2>2. /\ boot' \in Globals /\ Memories' /\ inst' = inst
        /\ Stored(data', img.data, m + 1)
        /\ \/ boot'.state = "DATA" /\ Payload(boot', nd, m + 1) /\ (line' => line)
           \/ boot'.state = "DONE" /\ m + 1 = nd
    BY <1>8, <2>1, DataStep DEF nd
  <2>3. m + 1 = (n + 1) - 8 - ni /\ (m + 1 = nd => n + 1 = Total(img) /\ nd > 0)
    BY <1>1, <1>8
  <2>4. Stored(inst', img.inst, ni)
    BY <1>8, <2>2
  <2>5. Progress(img, boot', inst', data', n + 1)
    BY <2>2, <2>3, <2>4 DEF Progress, ni, nd
  <2> QED
    BY <2>2, <2>3, <2>5
<1>9. CASE boot.state = "INST" /\ Length(boot, ni, n)
  <2>1. CASE TakeLengthByte(v)
    <3>1. n \in 0 .. 3 /\ n + 1 \in 1 .. 4
      BY <1>6, <1>9, <2>1
    <3>2. v = LengthBytes(ni)[n + 1]
      BY <1>2, <3>1
    <3>3. /\ boot' \in Globals /\ boot'.state = "INST" /\ Length(boot', ni, n + 1)
          /\ inst' = inst /\ data' = data /\ (line' => line)
      BY <1>1, <1>9, <2>1, <3>2, LengthStep
    <3> QED
      BY <3>3 DEF Progress, Memories, ni
  <2>2. CASE TakePayloadByte(v)
    <3>1. n = 4 /\ boot.ptr = 0 /\ boot.limit = ni
      BY <1>6, <1>9, <2>2
    <3>2. n = 4 + 0 /\ 0 \in 0 .. ni - 1 /\ Stored(inst, img.inst, 0)
      BY <1>1, <3>1 DEF Stored
    <3> QED
      BY <1>7, <1>9, <2>2, <3>1, <3>2
  <2> QED
    BY <1>4, <2>1, <2>2
<1>10. CASE boot.state = "INST" /\ Payload(boot, ni, n - 4) /\ Stored(inst, img.inst, n - 4)
  <2>1. TakePayloadByte(v)
    BY <1>4, <1>5, <1>10
  <2>2. n - 4 \in 0 .. ni - 1 /\ n = 4 + (n - 4) /\ boot.ptr = n - 4 /\ boot.limit = ni
    BY <1>1, <1>10 DEF Payload
  <2> QED
    BY <1>7, <1>10, <2>1, <2>2
<1>11. CASE boot.state = "DATA" /\ Length(boot, nd, n - 4 - ni) /\ Stored(inst, img.inst, ni)
  <2> DEFINE m == n - 4 - ni
  <2>1. CASE TakeLengthByte(v)
    <3>1. m \in 0 .. 3
      BY <1>6, <1>11, <2>1
    <3>2. m + 1 \in 1 .. 4 /\ 4 + ni + (m + 1) = n + 1 /\ m + 1 = (n + 1) - 4 - ni
      BY <1>1, <3>1
    <3>3. v = LengthBytes(nd)[m + 1]
      BY <1>2, <3>2
    <3> HIDE DEF m
    <3>4. Length(boot, nd, m)
      BY <1>11 DEF m
    <3>5. /\ boot' \in Globals /\ boot'.state = "DATA" /\ Length(boot', nd, m + 1)
          /\ inst' = inst /\ data' = data /\ (line' => line)
      BY <1>1, <1>11, <2>1, <3>3, <3>4, LengthStep
    <3>6. Progress(img, boot', inst', data', n + 1)
      BY <1>11, <3>2, <3>5 DEF Progress, ni, nd
    <3> QED
      BY <3>5, <3>6 DEF Memories
  <2>2. CASE TakePayloadByte(v)
    <3>1. m = 4 /\ boot.ptr = 0 /\ boot.limit = nd
      BY <1>6, <1>11, <2>2
    <3>2. n = 8 + ni + 0 /\ 0 \in 0 .. nd - 1 /\ Stored(data, img.data, 0)
      BY <1>1, <3>1 DEF Stored
    <3> QED
      BY <1>8, <1>11, <2>2, <3>1, <3>2
  <2> QED
    BY <1>4, <2>1, <2>2
<1>12. CASE boot.state = "DATA" /\ Payload(boot, nd, n - 8 - ni) /\ Stored(inst, img.inst, ni)
                                                        /\ Stored(data, img.data, n - 8 - ni)
  <2>1. TakePayloadByte(v)
    BY <1>4, <1>5, <1>12
  <2>2. n - 8 - ni \in 0 .. nd - 1 /\ n = 8 + ni + (n - 8 - ni) /\ boot.ptr = n - 8 - ni /\ boot.limit = nd
    BY <1>1, <1>12 DEF Payload
  <2> QED
    BY <1>8, <1>12, <2>1, <2>2
<1> QED
  BY <1>3, <1>9, <1>10, <1>11, <1>12

\* Before the first byte, and after the last.
LEMMA ProgressEnds ==
  ASSUME Careful, NEW img \in Images, NEW im, NEW dm
  PROVE  /\ BootStart \in Globals /\ Progress(img, BootStart, im, dm, 0)
         /\ \A b \in Globals : Progress(img, b, im, dm, Total(img)) =>
                Stored(im, img.inst, Len(img.inst)) /\ Stored(dm, img.data, Len(img.data))
<1> DEFINE ni == Len(img.inst)
           nd == Len(img.data)
<1>1. ni \in Nat /\ nd \in Nat /\ ni > 0 /\ Total(img) = 8 + ni + nd
  BY Sections
<1>2. BootStart \in Globals
  BY DEF BootStart, Globals
<1>3. Progress(img, BootStart, im, dm, 0)
  BY DEF Progress, Length, BootStart
<1>4. ASSUME NEW b \in Globals, Progress(img, b, im, dm, Total(img))
      PROVE  Stored(im, img.inst, ni) /\ Stored(dm, img.data, nd)
  <2> DEFINE n == Total(img)
  <2>1. \/ Length(b, ni, n)
        \/ Payload(b, ni, n - 4)
        \/ Length(b, nd, n - 4 - ni) /\ Stored(im, img.inst, ni)
        \/ Payload(b, nd, n - 8 - ni)
        \/ Stored(im, img.inst, ni) /\ Stored(dm, img.data, nd)
    BY <1>4 DEF Progress
  <2> HIDE DEF ni, nd
  <2>2. n \notin 0 .. 4 /\ n - 4 \notin 1 .. ni - 1 /\ n - 8 - ni \notin 1 .. nd - 1
        /\ (n - 4 - ni \in 0 .. 4 => nd = 0)
    BY <1>1
  <2>3. CASE Length(b, nd, n - 4 - ni) /\ Stored(im, img.inst, ni)
    <3>1. nd = 0
      BY <2>2, <2>3 DEF Length
    <3> QED
      BY <2>3, <3>1 DEF Stored
  <2> QED
    BY <2>1, <2>2, <2>3 DEF Length, Payload
<1> QED
  BY <1>2, <1>3, <1>4

-----------------------------------------------------------------------------
(* From one situation to the next.                                         *)

\* A fault is counted; every other step is one of these.
Faultless ==
    \/ RxByte \/ LoaderRelease \/ LoaderTimeout
    \/ ResetHandler \/ BannerPoll \/ BannerDone \/ TakeIrq \/ Fast_irq0_handler
    \/ UserStore \/ UserPrints \/ (\E b \in Typed : UserTypes(b))
    \/ (\E img \in Images : HostStart(img))
    \/ HostSendCommand \/ HostSleep2Done \/ HostSendFiles \/ HostFinish \/ Tick \/ UNCHANGED vars

LEMMA FaultsAreCounted ==
  ASSUME [Next]_vars PROVE faults' = faults + 1 \/ (faults' = faults /\ Faultless)
<1>1. HostStall \/ HostKill \/ ExternalReset => faults' = faults + 1
  BY DEF HostStall, HostKill, ExternalReset, Fault
<1>2. RxByte \/ LoaderRelease \/ LoaderTimeout \/ ResetHandler \/ BannerPoll \/ BannerDone
      \/ TakeIrq \/ Fast_irq0_handler \/ UserStore \/ UserPrints => faults' = faults
  BY DEF RxByte, LoaderRelease, LoaderTimeout, ResetHandler, BannerPoll, BannerDone,
         TakeIrq, Fast_irq0_handler, UserStore, UserPrints
<1>3. (\E b \in Typed : UserTypes(b)) \/ (\E img \in Images : HostStart(img)) => faults' = faults
  BY DEF UserTypes, HostStart
<1>4. HostSendCommand \/ HostSleep2Done \/ HostSendFiles \/ HostFinish \/ Tick => faults' = faults
  BY DEF HostSendCommand, HostSleep2Done, HostSendFiles, HostFinish, Tick
<1>5. UNCHANGED vars => faults' = faults
  BY DEF vars
<1> QED
  BY <1>1, <1>2, <1>3, <1>4, <1>5 DEF Next, Device, Host, Faultless

\* The byte that is received and those that stay on the wire.
LEMMA WireMoves ==
  ASSUME wire \in Seq(0 .. 255), wire # << >>
  PROVE  /\ Head(wire) = wire[1] /\ Head(wire) \in 0 .. 255 /\ Tail(wire) \in Seq(0 .. 255)
         /\ Len(wire) \in Nat /\ Len(wire) > 0 /\ Len(Tail(wire)) = Len(wire) - 1
         /\ \A i \in 1 .. Len(wire) - 1 : Tail(wire)[i] = wire[i + 1]
<1>1. Head(wire) = wire[1]
  OBVIOUS
<1>2. Len(wire) \in Nat /\ Len(wire) > 0
  BY EmptySeq
<1> QED
  BY <1>1, <1>2, HeadTailProperties

\* A second passes only when the loader, the core and the host have nothing to do.
LEMMA TickTypes ==
  ASSUME UploadTypes, Tick, cpu \in {"reset", "banner", "wait", "handler", "user"}
  PROVE  /\ hwait' \in {0, 1} /\ counter' \in 0 .. Timeout
         /\ counter' = IF lstate = "S4" THEN counter + 1 ELSE counter
         /\ hwait' = IF hwait = 1 THEN 0 ELSE hwait
         /\ wire = << >> /\ lstate # "S2" /\ (hpc # "idle" => hwait = 1)
         /\ cpu = "user" \/ (cpu = "wait" /\ ~mip) \/ (cpu = "handler" /\ ~rx_st)
         /\ hpc \in {"readline", "final"} => ~line
         /\ UNCHANGED <<lstate, reset_cause, cpu, mip, rx_st, rx_byte, boot, inst, data, hpc, himg, line, wire>>
<1>1. lstate = "S4" => counter # 2
  BY DEF Tick, DeviceQuiet, Timeout
<1>2. counter \in 0 .. 2 /\ hwait \in {0, 1}
  BY DEF UploadTypes, Timeout
<1>3. /\ counter' = IF lstate = "S4" THEN counter + 1 ELSE counter
      /\ hwait' = IF hwait > 0 THEN hwait - 1 ELSE 0
      /\ UNCHANGED <<lstate, reset_cause, cpu, mip, rx_st, rx_byte, boot, inst, data, hpc, himg, line, wire>>
  BY DEF Tick, SecondPasses, coreVars, memVars
<1>4. wire = << >> /\ lstate # "S2" /\ (hpc # "idle" => hwait > 0)
      /\ (cpu = "user" \/ (cpu = "wait" /\ ~mip) \/ (cpu = "handler" /\ ~rx_st))
      /\ (hpc \in {"readline", "final"} => ~line)
  BY DEF Tick, DeviceQuiet, HostQuiet
<1>5. hwait' \in {0, 1} /\ hwait' = (IF hwait = 1 THEN 0 ELSE hwait) /\ counter' \in 0 .. 2
  BY <1>1, <1>2, <1>3
<1> QED
  BY <1>2, <1>3, <1>4, <1>5 DEF Timeout

\* What a program stores are bytes.
LEMMA StoreTypes ==
  ASSUME Careful, UploadTypes, UserStore
  PROVE  inst' \in [0 .. MemLen - 1 -> 0 .. 255] /\ data' \in [0 .. MemLen - 1 -> 0 .. 255]
<1>1. Scratch \in 0 .. 255 /\ MemLen \in Nat
  BY ByteAssumption DEF Careful
<1>2. (inst' = inst \/ inst' = [inst EXCEPT ![0] = Scratch])
      /\ (data' = data \/ data' = [data EXCEPT ![0] = Scratch])
  BY DEF UserStore, InstAfterStore, DataAfterStore
<1>3. inst \in [0 .. MemLen - 1 -> 0 .. 255] /\ data \in [0 .. MemLen - 1 -> 0 .. 255]
  BY DEF UploadTypes
<1> DEFINE Mem == [0 .. MemLen - 1 -> 0 .. 255]
<1>4. \A mem \in Mem : [mem EXCEPT ![0] = Scratch] \in Mem
  BY <1>1
<1> HIDE DEF Mem
<1>5. inst \in Mem /\ data \in Mem => inst' \in Mem /\ data' \in Mem
  BY <1>2, <1>4
<1> QED
  BY <1>3, <1>5 DEF Mem

\* While a program runs, only the command can begin a load.
LEMMA RestingStep ==
  ASSUME Careful, Strong, UploadTypes, Resting, Faultless
  PROVE  UploadTypes' /\ (Resting' \/ Commanded')
<1> USE DEF UploadTypes, Resting
<1>1. CASE RxByte
  <2>1. wire # << >> /\ wire' = Tail(wire) /\ cpu # "reset"
    BY <1>1 DEF RxByte, ReadyForByte
  <2>2. Head(wire) # Dash /\ LoaderNext(Head(wire)) = "S0"
    BY <2>1, WireMoves DEF LoaderNext
  <2>3. /\ lstate' = "S0" /\ counter' = 0 /\ rx_st' = TRUE /\ mip' = TRUE
        /\ UNCHANGED <<cpu, boot, inst, data, hpc, hwait, himg, line>>
    BY <1>1, <2>2 DEF RxByte
  <2>4. wire' \in Seq(0 .. 255) /\ \A i \in 1 .. Len(wire') : wire'[i] # Dash
    BY <2>1, WireMoves
  <2>5. UploadTypes'
    <3>1. inst' \in [0 .. MemLen - 1 -> 0 .. 255] /\ data' \in [0 .. MemLen - 1 -> 0 .. 255] /\ himg' \in Images
          /\ hwait' \in {0, 1} /\ line' \in BOOLEAN /\ mip' \in BOOLEAN /\ rx_st' \in BOOLEAN
      BY <2>3
    <3>2. counter' \in 0 .. Timeout
      BY <2>3 DEF Timeout
    <3> QED
      BY <2>4, <3>1, <3>2
  <2> QED
    BY <2>1, <2>3, <2>4, <2>5
<1>2. CASE ResetHandler
  <2>1. cpu' = "user" /\ UNCHANGED <<lstate, counter, mip, rx_st, inst, data, hpc, hwait, himg, line, wire>>
    BY <1>2 DEF ResetHandler, loaderVars, memVars, hostVars, Strong, IInv
  <2> QED
    BY <2>1
<1>3. CASE HostSendCommand
  <2>1. /\ hpc = "sleep1" /\ hwait = 0 /\ hpc' = "sleep2" /\ hwait' = 1 /\ wire' = wire \o <<Dash, Pee>>
        /\ UNCHANGED <<lstate, counter, cpu, mip, rx_st, inst, data, himg, line>>
    BY <1>3 DEF HostSendCommand, loaderVars, coreVars, memVars
  <2>2. wire' = <<Dash, Pee>> /\ wire' \in Seq(0 .. 255)
    BY <2>1 DEF Dash, Pee
  <2> QED
    BY <2>1, <2>2 DEF Commanded
<1>4. CASE Tick
  <2>1. UploadTypes'
    <3>1. hwait' \in {0, 1} /\ counter' \in 0 .. Timeout
          /\ UNCHANGED <<mip, rx_st, inst, data, himg, line, wire>>
      BY <1>4, TickTypes
    <3> QED
      BY <3>1
  <2>2. wire = << >> /\ cpu = "user" /\ UNCHANGED <<lstate, cpu, inst, data, hpc, wire>>
    BY <1>4, TickTypes
  <2> QED
    BY <2>1, <2>2
<1>5. CASE UserStore
  <2>1. cpu = "user" /\ UNCHANGED <<lstate, counter, cpu, mip, rx_st, hpc, hwait, himg, line, wire>>
    BY <1>5 DEF UserStore, coreVars, loaderVars, hostVars
  <2>2. inst' \in [0 .. MemLen - 1 -> 0 .. 255] /\ data' \in [0 .. MemLen - 1 -> 0 .. 255]
    BY <1>5, StoreTypes
  <2> QED
    BY <2>1, <2>2
<1>6. CASE UserPrints
  <2>1. line' = TRUE /\ UNCHANGED <<lstate, counter, cpu, mip, rx_st, inst, data, hpc, hwait, himg, wire>>
        /\ cpu = "user"
    BY <1>6 DEF UserPrints, coreVars, loaderVars, hostVars, memVars
  <2> QED
    BY <2>1
<1>7. CASE \E b \in Typed : UserTypes(b)
  <2>1. PICK b \in Typed : UserTypes(b)
    BY <1>7
  <2>2. hpc = "idle" /\ cpu = "user" /\ wire' = <<b>>
        /\ UNCHANGED <<lstate, counter, cpu, mip, rx_st, inst, data, hpc, hwait, himg, line>>
    BY <2>1 DEF UserTypes, coreVars, loaderVars, hostVars, memVars
  <2>3. b \in 0 .. 255 /\ b # Dash
    BY ByteAssumption DEF Careful
  <2>4. wire' \in Seq(0 .. 255) /\ \A i \in 1 .. Len(wire') : wire'[i] # Dash
    BY <2>2, <2>3
  <2> QED
    BY <2>2, <2>4
<1>8. CASE \E img \in Images : HostStart(img)
  <2>1. PICK img \in Images : HostStart(img)
    BY <1>8
  <2>2. hpc' = "sleep1" /\ hwait' = 1 /\ himg' = img /\ line' = FALSE
        /\ UNCHANGED <<lstate, counter, cpu, mip, rx_st, inst, data, wire>>
    BY <2>1 DEF HostStart, coreVars, loaderVars, memVars
  <2>3. UploadTypes'
    BY <2>2
  <2>4. cpu' = "reset" => \E i \in Images : Installed(i)'
    BY <2>2 DEF Installed
  <2> QED
    BY <2>2, <2>3, <2>4
<1>9. CASE UNCHANGED vars
  <2>1. UNCHANGED <<lstate, counter, cpu, mip, rx_st, inst, data, hpc, hwait, himg, line, wire>>
    BY <1>9 DEF vars
  <2>2. UploadTypes'
    BY <2>1
  <2>3. cpu' = "reset" => \E i \in Images : Installed(i)'
    BY <2>1 DEF Installed
  <2> QED
    BY <2>1, <2>2, <2>3
<1> QED
  BY <1>1, <1>2, <1>3, <1>4, <1>5, <1>6, <1>7, <1>8, <1>9
  DEF Faultless, LoaderRelease, LoaderTimeout, BannerPoll, BannerDone, TakeIrq, Fast_irq0_handler,
      HostSleep2Done, HostSendFiles, HostFinish

\* The command resets the core and opens the gate; nothing else is on the wire.
LEMMA CommandedStep ==
  ASSUME Careful, Strong, UploadTypes, Commanded, Faultless
  PROVE  UploadTypes' /\ (Commanded' \/ Awaiting')
<1> USE DEF UploadTypes
<1>0. /\ hpc = "sleep2" /\ hwait = 1 /\ lstate \in {"S0", "S1", "S2"} /\ cpu \in {"user", "reset"}
      /\ cpu = "reset" => lstate = "S2"
      /\ wire # << >> \/ lstate = "S2"
  <2>1. <<Dash, Pee>> # << >> /\ <<Pee>> # << >>
    OBVIOUS
  <2> QED
    BY <2>1 DEF Commanded
<1>1. CASE RxByte
  <2>1. /\ wire # << >> /\ wire' = Tail(wire) /\ counter' = 0
        /\ lstate' = LoaderNext(Head(wire))
        /\ UNCHANGED <<inst, data, hpc, hwait, himg, line>>
    BY <1>1 DEF RxByte
  <2>2. wire' \in Seq(0 .. 255) /\ Head(wire) = wire[1] /\ counter' \in 0 .. Timeout
    BY <2>1, WireMoves DEF Timeout
  <2>3. CASE lstate = "S0" /\ cpu = "user" /\ wire = <<Dash, Pee>>
    <3>1. Head(wire) = Dash /\ wire' = <<Pee>>
      BY <2>1, <2>3
    <3>2. lstate' = "S1"
      BY <2>1, <2>3, <3>1 DEF LoaderNext
    <3>3. UNCHANGED <<cpu, boot>> /\ mip' = TRUE /\ rx_st' = TRUE
      BY <1>1, <2>1, <3>2 DEF RxByte
    <3> QED
      <4>1. UploadTypes'
        BY <2>1, <2>2, <3>3
      <4>2. Commanded'
        BY <1>0, <2>1, <2>3, <3>1, <3>2, <3>3 DEF Commanded
      <4> QED
        BY <4>1, <4>2
  <2>4. CASE lstate = "S1" /\ cpu = "user" /\ wire = <<Pee>>
    <3>1. Head(wire) = Pee /\ wire' = << >>
      BY <2>1, <2>4
    <3>2. lstate' = "S2"
      BY <2>1, <2>4, <3>1 DEF LoaderNext
    <3>3. cpu' = "reset" /\ mip' = FALSE /\ rx_st' = FALSE
      BY <1>1, <2>1, <3>2 DEF RxByte, CoreReset
    <3> QED
      <4>1. UploadTypes'
        BY <2>1, <2>2, <3>3
      <4>2. Commanded'
        BY <1>0, <2>1, <2>4, <3>1, <3>2, <3>3 DEF Commanded
      <4> QED
        BY <4>1, <4>2
  <2> QED
    BY <2>1, <2>3, <2>4 DEF Commanded
<1>2. CASE LoaderRelease
  <2>1. lstate = "S2" /\ lstate' = "S3"
        /\ UNCHANGED <<counter, cpu, mip, rx_st, inst, data, hpc, hwait, himg, line, wire>>
    BY <1>2 DEF LoaderRelease, coreVars, memVars, hostVars
  <2> QED
    BY <1>0, <2>1 DEF Commanded, Awaiting
<1>3. CASE UserStore
  <2>1. cpu = "user" /\ UNCHANGED <<lstate, counter, cpu, mip, rx_st, hpc, hwait, himg, line, wire>>
    BY <1>3 DEF UserStore, coreVars, loaderVars, hostVars
  <2>2. inst' \in [0 .. MemLen - 1 -> 0 .. 255] /\ data' \in [0 .. MemLen - 1 -> 0 .. 255]
    BY <1>3, StoreTypes
  <2> QED
    BY <2>1, <2>2 DEF Commanded
<1>4. CASE UserPrints
  <2>1. line' = TRUE /\ UNCHANGED <<lstate, counter, cpu, mip, rx_st, inst, data, hpc, hwait, himg, wire>>
    BY <1>4 DEF UserPrints, coreVars, loaderVars, hostVars, memVars
  <2> QED
    BY <2>1 DEF Commanded
<1>5. CASE Tick
  BY <1>0, <1>5, TickTypes
<1>6. CASE UNCHANGED vars
  <2>1. UNCHANGED <<lstate, counter, cpu, mip, rx_st, inst, data, hpc, hwait, himg, line, wire>>
    BY <1>6 DEF vars
  <2> QED
    BY <2>1 DEF Commanded
<1>7. ~LoaderTimeout /\ ~ResetHandler /\ ~BannerPoll /\ ~BannerDone /\ ~TakeIrq /\ ~Fast_irq0_handler
  BY <1>0 DEF LoaderTimeout, ResetHandler, BannerPoll, BannerDone, TakeIrq, Fast_irq0_handler
<1>8. ~HostSendCommand /\ ~HostSleep2Done /\ ~HostSendFiles /\ ~HostFinish
  BY <1>0 DEF HostSendCommand, HostSleep2Done, HostSendFiles, HostFinish
<1>9. ~(\E b \in Typed : UserTypes(b)) /\ ~(\E img \in Images : HostStart(img))
  BY <1>0 DEF UserTypes, HostStart
<1> QED
  BY <1>1, <1>2, <1>3, <1>4, <1>5, <1>6, <1>7, <1>8, <1>9 DEF Faultless

\* The boot ROM is ready before the host sends the files.
LEMMA AwaitingStep ==
  ASSUME Careful, Strong, UploadTypes, Awaiting, Faultless
  PROVE  UploadTypes' /\ (Awaiting' \/ Loading')
<1> USE DEF UploadTypes, Awaiting
<1>1. CASE ResetHandler
  <2>1. /\ cpu = "reset" /\ cpu' = "banner" /\ boot' = BootStart
        /\ UNCHANGED <<lstate, counter, mip, rx_st, inst, data, hpc, hwait, himg, line, wire>>
    BY <1>1 DEF ResetHandler, loaderVars, memVars, hostVars, Strong, IInv
  <2> QED
    BY <2>1
<1>2. CASE BannerDone
  <2>1. /\ cpu = "banner" /\ cpu' = "wait" /\ line' = TRUE
        /\ UNCHANGED <<lstate, counter, mip, rx_st, boot, inst, data, hpc, hwait, himg, wire>>
    BY <1>2 DEF BannerDone, loaderVars, memVars, hostVars
  <2>2. UploadTypes'
    BY <2>1
  <2> QED
    BY <2>1, <2>2
<1>3. CASE HostSleep2Done
  <2>1. /\ hwait = 0 /\ hpc' = "readline" /\ hwait' = 1
        /\ UNCHANGED <<lstate, counter, cpu, mip, rx_st, boot, inst, data, himg, line, wire>>
    BY <1>3 DEF HostSleep2Done, loaderVars, coreVars, memVars
  <2>2. UploadTypes'
    BY <2>1
  <2>3. Awaiting'
    BY <2>1
  <2> QED
    BY <2>2, <2>3
<1>4. CASE HostSendFiles
  <2>1. /\ hpc = "readline" /\ hpc' = "final" /\ hwait' = 1 /\ line' = FALSE
        /\ wire' = wire \o LengthBytes(Len(himg.inst)) \o himg.inst \o LengthBytes(Len(himg.data)) \o himg.data
        /\ UNCHANGED <<lstate, counter, cpu, mip, rx_st, rx_byte, boot, inst, data, himg>>
    BY <1>4 DEF HostSendFiles, loaderVars, coreVars, memVars
  <2>2. wire' = Files(himg)
    <3>1. LengthBytes(Len(himg.inst)) \in Seq(0 .. 255)
      BY Sections, LengthIsRead
    <3>2. wire \o LengthBytes(Len(himg.inst)) = LengthBytes(Len(himg.inst))
      BY <3>1, ConcatEmptySeq
    <3> QED
      BY <2>1, <3>2 DEF Files
  <2>3. wire' \in Seq(0 .. 255) /\ Len(wire') = Total(himg) /\ Total(himg) \in Nat
        /\ Total(himg) > 8
    BY <2>2, FilesAre, Sections
  <2>4. UploadTypes'
    BY <2>1, <2>3
  <2>5. cpu' = "wait" /\ boot' = BootStart /\ ~mip' /\ himg' = himg /\ counter' = 0 /\ lstate' = "S3"
    BY <2>1
  <2>6. Taken' = 0 /\ ~Pending' /\ Handled' = 0
    <3>1. Total(himg) - Total(himg) = 0
      BY <2>3
    <3>2. Taken' = 0
      BY <2>3, <2>5, <3>1 DEF Taken
    <3>3. ~Pending'
      BY <2>5 DEF Pending
    <3> QED
      BY <3>2, <3>3 DEF Handled
  <2>7. boot' \in Globals /\ Progress(himg', boot', inst', data', Handled')
    BY <2>5, <2>6, ProgressEnds
  <2>8. \A i \in 1 .. Len(wire') : wire'[i] = Files(himg')[Taken' + i]
    BY <2>2, <2>3, <2>5, <2>6
  <2>9. Taken' \in 0 .. Total(himg')
    BY <2>3, <2>5, <2>6
  <2>10. counter' + hwait' = 1 /\ ~line' /\ hpc' = "final" /\ hwait' # 0 /\ ~(counter' > 0)
    BY <2>1, <2>5
  <2>11. Loading'
    BY <2>5, <2>6, <2>7, <2>8, <2>9, <2>10 DEF Loading
  <2> QED
    BY <2>4, <2>11
<1>5. CASE Tick
  <2>1. UploadTypes'
    BY <1>5, TickTypes
  <2>2. cpu = "wait" /\ counter' = counter
        /\ UNCHANGED <<lstate, cpu, mip, rx_st, boot, hpc, wire>>
    BY <1>5, TickTypes
  <2> QED
    BY <2>1, <2>2
<1>6. CASE UNCHANGED vars
  <2>1. UNCHANGED <<lstate, counter, cpu, mip, rx_st, boot, inst, data, hpc, hwait, himg, line, wire>>
    BY <1>6 DEF vars
  <2> QED
    BY <2>1
<1> QED
  BY <1>1, <1>2, <1>3, <1>4, <1>5, <1>6
  DEF Faultless, RxByte, LoaderRelease, LoaderTimeout, BannerPoll, TakeIrq, Fast_irq0_handler,
      UserStore, UserPrints, UserTypes, HostStart, HostSendCommand, HostFinish

\* Every byte is stored before the next comes, and nobody goes on before the last.
LEMMA LoadingStep ==
  ASSUME Careful, Strong, UploadTypes, Loading, Faultless
  PROVE  UploadTypes' /\ (Loading' \/ Resting')
<1> DEFINE T == Total(himg)
           F == Files(himg)
<1>1. himg \in Images /\ T \in Nat /\ T > 8 /\ F \in Seq(0 .. 255) /\ Len(F) = T
  BY Sections, FilesAre DEF UploadTypes
<1>2. /\ Len(wire) \in Nat /\ Taken = T - Len(wire) /\ Taken \in 0 .. T
      /\ wire \in Seq(0 .. 255) /\ (Taken = T => wire = << >>) /\ (wire = << >> => Taken = T)
  <2>1. wire \in Seq(0 .. 255) /\ Len(wire) \in Nat /\ (wire = << >> => Len(wire) = 0)
        /\ (Len(wire) = 0 => wire = << >>)
    BY EmptySeq DEF UploadTypes
  <2>2. Taken = T - Len(wire) /\ Taken \in 0 .. T
    BY DEF Taken, Loading
  <2> HIDE DEF T
  <2>3. (Taken = T => Len(wire) = 0) /\ (Len(wire) = 0 => Taken = T)
    BY <1>1, <2>1, <2>2
  <2> QED
    BY <2>1, <2>2, <2>3
<1>3. /\ Pending => Taken > 0 /\ rx_st /\ rx_byte = F[Taken]
      /\ Pending = (mip \/ cpu = "handler")
      /\ Handled = IF Pending THEN Taken - 1 ELSE Taken
  BY DEF Loading, Pending, Handled
<1>4. /\ lstate \in {"S3", "S4"} /\ hpc \in {"final", "idle"} /\ cpu \in {"wait", "handler"}
      /\ (lstate = "S3" => Taken = 0) /\ (Taken = 0 => lstate = "S3")
      /\ \A i \in 1 .. Len(wire) : wire[i] = F[Taken + i]
      /\ cpu = "handler" => ~mip
  BY DEF Loading
<1>5. /\ boot \in Globals /\ Progress(himg, boot, inst, data, Handled)
      /\ line \/ hpc = "idle" \/ hwait = 0 \/ counter > 0 => Handled = T
      /\ hpc = "final" => counter + hwait = 1
  BY DEF Loading
<1>6. /\ mip \in BOOLEAN /\ rx_st \in BOOLEAN /\ line \in BOOLEAN /\ Memories
      /\ hwait \in {0, 1} /\ counter \in 0 .. 2
  BY DEF UploadTypes, Memories, Timeout
<1> HIDE DEF T, F
<1>7. Handled \in 0 .. T /\ (Handled = T => ~Pending /\ wire = << >> /\ Taken = T /\ lstate = "S4")
  BY <1>1, <1>2, <1>3, <1>4
<1>8. CASE RxByte
  <2>1. wire # << >> /\ wire' = Tail(wire) /\ ReadyForByte
    BY <1>8 DEF RxByte
  <2>2. LoaderNext(Head(wire)) = "S4"
    BY <1>4 DEF LoaderNext
  <2>3. /\ lstate' = "S4" /\ counter' = 0 /\ rx_byte' = Head(wire) /\ rx_st' = TRUE /\ mip' = TRUE
        /\ UNCHANGED <<cpu, boot, inst, data, hpc, hwait, himg, line>>
    BY <1>8, <2>2 DEF RxByte
  <2>4. cpu = "wait" /\ ~mip /\ ~Pending
    BY <1>3, <1>4, <2>1 DEF ReadyForByte
  <2>5. Handled = Taken /\ Taken # T /\ ~line /\ hpc = "final" /\ hwait = 1 /\ counter = 0
    BY <1>2, <1>3, <1>4, <1>5, <1>6, <1>7, <2>1, <2>4
  <2>6. /\ wire' \in Seq(0 .. 255) /\ Len(wire') = Len(wire) - 1 /\ Head(wire) = wire[1] /\ Len(wire) > 0
        /\ \A i \in 1 .. Len(wire) - 1 : wire'[i] = wire[i + 1]
    BY <1>2, <2>1, WireMoves
  <2>7. Taken' = Taken + 1 /\ Taken' \in 0 .. T /\ Taken' > 0 /\ T' = T /\ F' = F
    <3>1. Taken' = T - Len(wire')
      BY <2>3 DEF Taken, T
    <3> QED
      BY <1>1, <1>2, <2>3, <2>6, <3>1 DEF T, F
  <2>8. \A i \in 1 .. Len(wire') : wire'[i] = F[Taken' + i]
    <3>1. ASSUME NEW i \in 1 .. Len(wire') PROVE wire'[i] = F[Taken' + i]
      <4>1. i \in 1 .. Len(wire) - 1 /\ i + 1 \in 1 .. Len(wire) /\ Taken + (i + 1) = Taken' + i
        BY <1>2, <2>6, <2>7
      <4> QED
        BY <1>4, <2>6, <4>1
    <3> QED
      BY <3>1
  <2>9. Pending' /\ Handled' = Taken /\ rx_byte' = F[Taken']
    <3>1. rx_byte' = F[Taken + 1]
      <4>1. 1 \in 1 .. Len(wire)
        BY <1>2, <2>6
      <4> QED
        BY <1>4, <2>3, <2>6, <4>1
    <3>2. Pending'
      BY <2>3 DEF Pending
    <3>3. Handled' = Taken' - 1
      BY <3>2 DEF Handled
    <3> QED
      BY <1>2, <2>7, <3>1, <3>2, <3>3
  <2>10. boot' \in Globals /\ Progress(himg', boot', inst', data', Handled')
    BY <1>5, <2>3, <2>5, <2>9
  <2>11. UploadTypes'
    <3>1. Memories' /\ line' \in BOOLEAN /\ mip' \in BOOLEAN /\ rx_st' \in BOOLEAN
          /\ himg' \in Images /\ hwait' \in {0, 1}
      BY <1>1, <1>6, <2>3 DEF Memories
    <3>2. counter' \in 0 .. Timeout
      BY <2>3 DEF Timeout
    <3> QED
      BY <2>6, <3>1, <3>2 DEF UploadTypes, Memories
  <2>12. /\ ~line' /\ hpc' = "final" /\ hwait' = 1 /\ counter' = 0 /\ cpu' = "wait" /\ rx_st'
         /\ counter' + hwait' = 1
    BY <2>3, <2>4, <2>5
  <2>13. Loading'
    BY <2>3, <2>7, <2>8, <2>9, <2>10, <2>12 DEF Loading, T, F
  <2> QED
    BY <2>11, <2>13
<1>9. CASE LoaderTimeout
  <2>1. /\ lstate = "S4" /\ counter = 2 /\ lstate' = "S0" /\ counter' = 0
        /\ cpu' = "reset" /\ mip' = FALSE /\ rx_st' = FALSE
        /\ UNCHANGED <<inst, data, hpc, hwait, himg, line, wire>>
    BY <1>9 DEF LoaderTimeout, CoreReset, memVars, hostVars, Timeout
  <2>2. Handled = T /\ wire = << >> /\ hpc = "idle"
    <3>1. Handled = T
      BY <1>5, <2>1
    <3>2. hpc # "final"
      BY <1>5, <1>6, <2>1
    <3> QED
      BY <1>4, <1>7, <3>1, <3>2
  <2>3. Stored(inst, himg.inst, Len(himg.inst)) /\ Stored(data, himg.data, Len(himg.data))
    BY <1>1, <1>5, <2>2, ProgressEnds DEF T
  <2>4. Installed(himg)'
    BY <2>1, <2>3 DEF Installed, Stored
  <2>5. UploadTypes'
    <3>1. counter' \in 0 .. Timeout
      BY <2>1 DEF Timeout
    <3> QED
      BY <2>1, <3>1 DEF UploadTypes
  <2>6. Resting'
    <3>1. \E img \in Images : Installed(img)'
      BY <1>1, <2>1, <2>4
    <3>2. \A i \in 1 .. Len(wire') : wire'[i] # Dash
      BY <2>1, <2>2
    <3> QED
      BY <2>1, <2>2, <3>1, <3>2 DEF Resting
  <2> QED
    BY <2>5, <2>6
<1>10. CASE TakeIrq
  <2>1. /\ cpu = "wait" /\ mip /\ cpu' = "handler" /\ mip' = FALSE
        /\ UNCHANGED <<lstate, counter, rx_st, rx_byte, boot, inst, data, hpc, hwait, himg, line, wire>>
    BY <1>10 DEF TakeIrq, loaderVars, memVars, hostVars
  <2>2. Taken' = Taken /\ Pending /\ Pending' /\ Handled' = Handled
    BY <2>1 DEF Taken, Pending, Handled
  <2>3. UploadTypes'
    BY <2>1 DEF UploadTypes
  <2>4. Loading'
    BY <2>1, <2>2 DEF Loading
  <2> QED
    BY <2>3, <2>4
<1>11. CASE Fast_irq0_handler
  <2>1. /\ cpu = "handler" /\ rx_st /\ cpu' = "wait" /\ rx_st' = FALSE
        /\ \/ boot.state = "DONE" /\ UNCHANGED <<boot, inst, data, line>>
           \/ TakeLengthByte(rx_byte)
           \/ TakePayloadByte(rx_byte)
        /\ UNCHANGED <<lstate, counter, mip, rx_byte, hpc, hwait, himg, wire>>
    BY <1>11 DEF Fast_irq0_handler, loaderVars, hostVars
  <2>2. Pending /\ ~mip /\ Taken > 0 /\ Handled = Taken - 1 /\ Handled \in 0 .. T - 1 /\ Handled + 1 = Taken
        /\ rx_byte = F[Handled + 1]
    <3>1. Pending /\ ~mip
      BY <1>3, <1>4, <2>1
    <3>2. Taken > 0 /\ Handled = Taken - 1 /\ rx_byte = F[Taken]
      BY <1>3, <3>1
    <3>3. Handled \in 0 .. T - 1 /\ Handled + 1 = Taken
      BY <1>1, <1>2, <3>2
    <3> QED
      BY <3>1, <3>2, <3>3
  <2>3. BootloaderEn
    BY <1>4 DEF BootloaderEn
  <2>4. /\ boot' \in Globals /\ Memories' /\ Progress(himg, boot', inst', data', Handled + 1)
        /\ line' => line \/ Handled + 1 = T
    BY <1>1, <1>5, <1>6, <2>1, <2>2, <2>3, HandlerStep DEF T, F
  <2>5. Taken' = Taken /\ ~Pending' /\ Handled' = Taken /\ T' = T /\ F' = F
    BY <2>1, <2>2 DEF Taken, Pending, Handled, T, F
  <2>6. line' \in BOOLEAN
    <3>1. UNCHANGED line \/ line' \in BOOLEAN
      BY <2>1 DEF TakeLengthByte, TakePayloadByte
    <3> QED
      BY <1>6, <3>1
  <2>7. ~line /\ hpc # "idle" /\ hwait # 0 /\ ~(counter > 0)
    BY <1>1, <1>5, <2>2
  <2>8. line' => Handled' = T'
    BY <2>2, <2>4, <2>5, <2>7
  <2>9. UploadTypes'
    BY <2>1, <2>4, <2>6 DEF UploadTypes, Memories
  <2>10. Progress(himg', boot', inst', data', Handled')
    BY <2>1, <2>2, <2>4, <2>5
  <2>11. Loading'
    BY <1>2, <1>4, <1>5, <2>1, <2>4, <2>5, <2>7, <2>8, <2>10 DEF Loading, T, F
  <2> QED
    BY <2>9, <2>11
<1>12. CASE HostFinish
  <2>1. /\ hpc = "final" /\ (line \/ hwait = 0) /\ hpc' = "idle" /\ hwait' = 0 /\ line' = FALSE
        /\ UNCHANGED <<lstate, counter, cpu, mip, rx_st, rx_byte, boot, inst, data, himg, wire>>
    BY <1>12 DEF HostFinish, loaderVars, coreVars, memVars
  <2>2. Handled = T
    BY <1>5, <2>1
  <2>3. Taken' = Taken /\ (Pending' <=> Pending) /\ Handled' = Handled /\ T' = T /\ F' = F
    BY <2>1 DEF Taken, Pending, Handled, T, F
  <2>4. UploadTypes'
    BY <2>1 DEF UploadTypes
  <2>5. Loading'
    BY <2>1, <2>2, <2>3 DEF Loading, T, F
  <2> QED
    BY <2>4, <2>5
<1>13. CASE Tick
  <2>0. cpu \in {"reset", "banner", "wait", "handler", "user"}
    BY <1>4
  <2>1. UploadTypes'
    <3>1. hwait' \in {0, 1} /\ counter' \in 0 .. Timeout
          /\ UNCHANGED <<mip, rx_st, inst, data, himg, line, wire>>
      BY <2>0, <1>13, TickTypes
    <3> QED
      BY <3>1 DEF UploadTypes
  <2>2. /\ counter' = IF lstate = "S4" THEN counter + 1 ELSE counter
        /\ hwait' = IF hwait = 1 THEN 0 ELSE hwait
        /\ wire = << >> /\ (hpc # "idle" => hwait = 1)
        /\ (cpu = "wait" /\ ~mip) \/ (cpu = "handler" /\ ~rx_st)
        /\ UNCHANGED <<lstate, cpu, mip, rx_st, rx_byte, boot, inst, data, hpc, himg, line, wire>>
    BY <1>4, <1>13, TickTypes
  <2>3. ~Pending /\ Taken = T /\ Handled = T /\ lstate = "S4"
    BY <1>2, <1>3, <1>7, <2>2
  <2>4. Taken' = Taken /\ (Pending' <=> Pending) /\ Handled' = Handled /\ T' = T /\ F' = F
    BY <2>2 DEF Taken, Pending, Handled, T, F
  <2>5. hpc' = "final" => counter' + hwait' = 1
    BY <1>5, <1>6, <2>2, <2>3
  <2>6. Loading'
    BY <2>2, <2>3, <2>4, <2>5 DEF Loading, T, F
  <2> QED
    BY <2>1, <2>6
<1>14. CASE UNCHANGED vars
  <2>1. UNCHANGED <<lstate, counter, cpu, mip, rx_st, rx_byte, boot, inst, data, hpc, hwait, himg, line, wire>>
    BY <1>14 DEF vars
  <2>2. Taken' = Taken /\ (Pending' <=> Pending) /\ Handled' = Handled
    BY <2>1 DEF Taken, Pending, Handled
  <2>3. UploadTypes'
    BY <2>1 DEF UploadTypes
  <2>4. Loading'
    BY <2>1, <2>2 DEF Loading
  <2> QED
    BY <2>3, <2>4
<1>15. ~LoaderRelease /\ ~ResetHandler /\ ~BannerPoll /\ ~BannerDone /\ ~UserStore /\ ~UserPrints
  BY <1>4 DEF LoaderRelease, ResetHandler, BannerPoll, BannerDone, UserStore, UserPrints
<1>16. ~HostSendCommand /\ ~HostSleep2Done /\ ~HostSendFiles /\ ~(\E b \in Typed : UserTypes(b))
  BY <1>4 DEF HostSendCommand, HostSleep2Done, HostSendFiles, UserTypes
<1>17. ~(\E img \in Images : HostStart(img))
  BY <1>5, <1>7 DEF HostStart, Careful
<1> QED
  BY <1>8, <1>9, <1>10, <1>11, <1>12, <1>13, <1>14, <1>15, <1>16, <1>17 DEF Faultless

\* Power-up is one of the four situations.
LEMMA InitPhases == Careful /\ Init => Phases
<1> SUFFICES ASSUME Careful, Init PROVE Phases
  OBVIOUS
<1>1. /\ inst = [i \in 0 .. MemLen - 1 |-> 0] /\ data = [i \in 0 .. MemLen - 1 |-> 0]
      /\ mip = FALSE /\ rx_st = FALSE /\ line = FALSE /\ himg \in Images /\ wire = << >>
      /\ hwait = 0 /\ counter = 0 /\ faults = 0 /\ lstate = "S0" /\ cpu = "user" /\ hpc = "idle"
  BY DEF Init
<1>2. wire \in Seq(0 .. 255) /\ Len(wire) = 0
  BY <1>1, EmptySeq
<1>3. inst \in [0 .. MemLen - 1 -> 0 .. 255] /\ data \in [0 .. MemLen - 1 -> 0 .. 255]
  BY <1>1
<1>4. UploadTypes
  <2>1. counter \in 0 .. Timeout
    BY <1>1 DEF Timeout
  <2> QED
    BY <1>1, <1>2, <1>3, <2>1 DEF UploadTypes
<1>5. Resting
  BY <1>1, <1>2 DEF Resting
<1> QED
  BY <1>1, <1>4, <1>5 DEF Phases

\* No step that is not a fault leaves them.
LEMMA NextPhases == Careful /\ Strong /\ Phases /\ [Next]_vars => Phases'
<1> SUFFICES ASSUME Careful, Strong, Phases, [Next]_vars PROVE Phases'
  OBVIOUS
<1>1. CASE faults' = faults + 1
  BY <1>1 DEF Phases
<1>2. CASE faults' = faults /\ Faultless
  <2>1. CASE faults = 0
    <3>1. UploadTypes /\ (Resting \/ Commanded \/ Awaiting \/ Loading)
      BY <2>1 DEF Phases
    <3>2. UploadTypes' /\ (Resting' \/ Commanded' \/ Awaiting' \/ Loading')
      BY <1>2, <3>1, RestingStep, CommandedStep, AwaitingStep, LoadingStep
    <3> QED
      BY <1>2, <2>1, <3>2 DEF Phases
  <2> QED
    BY <1>2, <2>1 DEF Phases
<1> QED
  BY <1>1, <1>2, FaultsAreCounted

\* As long as nothing has failed, a program the core enters is complete in both sections,
\* whatever was uploaded before.
THEOREM CompleteImagesHold ==
  ASSUME Careful PROVE Spec => EntersCompleteImages
<1>1. Strong /\ Phases /\ [Next]_vars
      => [cpu = "reset" /\ cpu' = "user" /\ faults' = 0 => \E img \in Images : Installed(img)]_vars
  <2> SUFFICES ASSUME Strong, Phases, Next, cpu = "reset", cpu' = "user", faults' = 0
               PROVE  \E img \in Images : Installed(img)
    OBVIOUS
  <2>1. faults = 0 /\ Faultless
    <3>1. faults \in Nat
      BY DEF Phases
    <3> QED
      BY <3>1, FaultsAreCounted
  <2>2. ResetHandler
    <3>1. ~RxByte /\ ~BannerDone /\ ~TakeIrq /\ ~Fast_irq0_handler /\ ~LoaderTimeout
      BY DEF RxByte, ReadyForByte, BannerDone, TakeIrq, Fast_irq0_handler, LoaderTimeout, CoreReset
    <3>2. LoaderRelease \/ BannerPoll \/ UserStore \/ UserPrints \/ (\E b \in Typed : UserTypes(b))
          \/ (\E img \in Images : HostStart(img)) => cpu' = cpu
      BY DEF LoaderRelease, BannerPoll, UserStore, UserPrints, UserTypes, HostStart, coreVars
    <3>3. HostSendCommand \/ HostSleep2Done \/ HostSendFiles \/ HostFinish \/ Tick => cpu' = cpu
      BY DEF HostSendCommand, HostSleep2Done, HostSendFiles, HostFinish, Tick, SecondPasses, coreVars
    <3>4. UNCHANGED vars => cpu' = cpu
      BY DEF vars
    <3> QED
      BY <2>1, <3>1, <3>2, <3>3, <3>4 DEF Faultless
  <2>3. lstate = "S0"
    <3>1. reset_cause = 0 /\ lstate # "S2"
      BY <2>2 DEF ResetHandler
    <3> QED
      BY <2>1, <3>1 DEF Strong, IInv, Phases, Resting, Commanded, Awaiting, Loading
  <2>4. Resting
    BY <2>1, <2>3 DEF Phases, Resting, Commanded, Awaiting, Loading
  <2> QED
    BY <2>4 DEF Resting
<1> QED
  BY <1>1, InitStrong, NextStrong, InitPhases, NextPhases, PTL DEF Spec, EntersCompleteImages
=============================================================================
