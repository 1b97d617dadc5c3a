----------------------------- MODULE FlashUpdate ------------------------------
(***************************************************************************)
(* Updating the application in flash: the host tool (SAM-flasher), the USB *)
(* serial link, and the bootloader (bootloader1) whose main loop shares    *)
(* its receive buffer with the USB interrupt.                              *)
(*                                                                         *)
(* A command is a frame of bytes: its identifier, and for PROGRAM the      *)
(* page, how many bytes follow, and the bytes of the page.  What slip      *)
(* makes of it goes over USB in transfers of at most BufSize bytes, and    *)
(* the device decodes each transfer by itself.  A reply is taken as the    *)
(* frame that the host's decoder makes of it.  Addresses count pages.      *)
(***************************************************************************)
EXTENDS Naturals, Sequences, Slip

CONSTANTS
  Sectors,         \* APPLICATION_ERASE_SECTORS
  PagesPerSector,
  ChipPages,       \* pages from the application's first to the chip's last
  Files,           \* the LDR files: sequences of pages, which are of bytes
  Haste,           \* starts in a row that may find the device busy
  Blank, Old, Garbage,   \* pages not holding data of a file
  Faults           \* what may go wrong, out of AllFaults

AllFaults == {"interrupt",     \* the user ends the tool
              "programFails",  \* flash_program reports an error
              "eraseFails",    \* flash_erase fails
              "overrun",       \* a reply before the last one has been fetched
              "abort"}         \* a transfer to the device is aborted

NumPages == Sectors * PagesPerSector
Page == 0 .. ChipPages - 1
Value == UNION {{f[i] : i \in DOMAIN f} : f \in Files}
Content == Value \cup {Blank, Old, Garbage}

(* A buffer holds a command without data; nothing is known of how long a   *)
(* file is, or of how much a page of it.                                   *)
ASSUME UpdateAssumption ==
  /\ Sectors \in Nat \ {0} /\ PagesPerSector \in Nat \ {0}
  /\ ChipPages \in Nat /\ NumPages <= ChipPages
  /\ BufSize \in Nat /\ BufSize >= 3
  /\ \A f \in Files : f \in Seq(Seq(0 .. 255))
  /\ Haste \in Nat
  /\ {Blank, Old, Garbage} \cap Value = {}
  /\ Faults \subseteq AllFaults

VARIABLES
  host,       \* what the tool waits for, or what has become of it
  file,       \* the LDR file
  progLen,    \* pages acknowledged
  hasty,      \* starts since one that found the device quiet
  disturbed,  \* something has gone wrong since then
  misfit,     \* since then some file has been too much for the buffers or the sectors
  out,        \* transfers on their way to the device
  replies,    \* replies that have reached the host
  held,       \* the transfer that the device has paused, or <<>>
  filling,    \* the USB library is storing a transfer in rxBuf
  rxBuf,      \* user_cdc_serial_data_rx_buffer
  xfer_state, paused,
  dec,        \* decoding and escape of unslip
  cmds,       \* frames decoded and not yet processed
  pc,         \* where flash_cmd_main is
  erasing,    \* state is PROGRAM_STATE_ERASING
  erase_sector, max_erase_sector,
  tx,         \* the reply in transmission, in a sequence of at most one
  flash

hostVars == <<host, file, progLen, hasty, misfit>>
usbVars  == <<held, filling, rxBuf, xfer_state, paused>>
cmdVars  == <<erasing, erase_sector, max_erase_sector, flash>>
vars == <<hostVars, disturbed, out, replies, usbVars, dec, cmds, pc, cmdVars, tx>>

NOP == 0
ERASE_APPLICATION == 1
ERASE_STATUS == 2
PROGRAM == 3
PROGRAM_ACK == 4

ProgramFrame(page, data) == <<PROGRAM, page, Len(data)>> \o data

(* The file is no longer than what is erased for it, and each of its pages *)
(* goes into one transfer; the tool looks at neither.                      *)
Fits(f) == /\ Len(f) <= NumPages
           /\ \A i \in DOMAIN f : Len(slip(ProgramFrame(i - 1, f[i]))) <= BufSize

Init ==
  /\ host = "off" /\ file \in Files /\ progLen = 0 /\ hasty = 0
  /\ disturbed = FALSE /\ misfit = ~Fits(file)
  /\ out = <<>> /\ replies = <<>>
  /\ held = <<>> /\ filling = FALSE /\ rxBuf = <<>>
  /\ xfer_state = "IDLE" /\ paused = FALSE
  /\ dec = Idle /\ cmds = <<>> /\ pc = "top"
  /\ erasing = FALSE /\ erase_sector = 0 /\ max_erase_sector = 0
  /\ flash = [p \in Page |-> Old]
  /\ tx = <<>>

(* Something has gone wrong, if bad.                                       *)
Disturb(bad) == disturbed' = (disturbed \/ bad)

-----------------------------------------------------------------------------
(* The host tool.                                                          *)

Running == host \in {"nop", "erase", "program"}

(* What is written to the port goes out in transfers of a packet's size.   *)
Transfers(s) ==
  [i \in 1 .. (Len(s) + BufSize - 1) \div BufSize |->
     SubSeq(s, (i - 1) * BufSize + 1, IF i * BufSize < Len(s) THEN i * BufSize ELSE Len(s))]

(* xfer: slip does not look at the size of sBuf.  A frame that is too long *)
(* for it runs over the tool's stack; that this ends the tool is the same  *)
(* as that the user does (Interrupt), and if it does not, all is written.  *)
Send(frame) == out' = out \o Transfers(slip(frame))

(* The device has nothing left to do.                                      *)
Quiet == /\ out = <<>> /\ held = <<>> /\ ~filling /\ xfer_state = "IDLE"
         /\ cmds = <<>> /\ ~erasing /\ tx = <<>> /\ pc = "top"

(* Opening the port drops what has come in, and what was not yet sent: the *)
(* device may still be busy with what the runs before have asked for.      *)
Start(f) ==
  /\ ~Running
  /\ hasty' = IF Quiet THEN 0 ELSE hasty + 1
  /\ hasty' <= Haste
  /\ disturbed' = (disturbed /\ ~Quiet)
  /\ misfit' = (~Fits(f) \/ (misfit /\ ~Quiet))
  /\ file' = f /\ progLen' = 0
  /\ host' = "nop"
  /\ replies' = <<>>
  /\ \E n \in 0 .. Len(out) : out' = SubSeq(out, 1, n) \o Transfers(slip(<<NOP>>))
  /\ UNCHANGED <<usbVars, dec, cmds, pc, cmdVars, tx>>

(* Mutant: the loop ends a page early.                                     *)
NextPageShort(n) ==
  /\ progLen' = n
  /\ IF n + 1 >= Len(file)
     THEN host' = "success" /\ UNCHANGED out
     ELSE host' = "program" /\ Send(ProgramFrame(n, file[n + 1]))

(* The loop over the pages, n of them programmed.                          *)
NextPage(n) ==
  /\ progLen' = n
  /\ IF n = Len(file)
     THEN host' = "success" /\ UNCHANGED out
     ELSE host' = "program" /\ Send(ProgramFrame(n, file[n + 1]))

GiveUp == host' = "failed" /\ UNCHANGED <<progLen, out>>

(* Mutant: what became of the page is not looked at.                       *)
ExpectedAck(r) ==
  CASE host = "nop"     -> r[1] = NOP
    [] host = "erase"   -> r[1] = ERASE_STATUS
    [] host = "program" -> r[1] = PROGRAM_ACK /\ r[2] = progLen

(* waitfor, process_program_ack: the reply is the one the tool waits for.  *)
Expected(r) ==
  CASE host = "nop"     -> r[1] = NOP
    [] host = "erase"   -> r[1] = ERASE_STATUS
    [] host = "program" -> r[1] = PROGRAM_ACK /\ r[2] = progLen /\ r[3] = 1

(* process_erase_status                                                    *)
Erased(r) == r[2] = r[3]

Receive ==
  /\ Running /\ replies # <<>>
  /\ replies' = Tail(replies)
  /\ LET r == Head(replies) IN
     \/ ~Expected(r) /\ GiveUp
     \/ /\ Expected(r) /\ host = "nop"
        /\ host' = "erase" /\ Send(<<ERASE_APPLICATION>>)
        /\ UNCHANGED progLen
     \/ /\ Expected(r) /\ host = "erase"
        /\ IF Erased(r) THEN NextPage(0) ELSE UNCHANGED <<host, progLen, out>>
     \/ /\ Expected(r) /\ host = "program"
        /\ NextPage(progLen + 1)
  /\ UNCHANGED <<file, hasty, disturbed, misfit, usbVars, dec, cmds, pc, cmdVars, tx>>

(* The five seconds are longer than the device takes: the tool gives up    *)
(* when nothing is left that could answer it.                              *)
Timeout ==
  /\ Running
  /\ out = <<>> /\ held = <<>> /\ xfer_state # "DATA_READY" /\ ~filling
  /\ cmds = <<>> /\ ~erasing /\ tx = <<>> /\ replies = <<>>
  /\ GiveUp
  /\ UNCHANGED <<file, hasty, disturbed, misfit, replies, usbVars, dec, cmds, pc, cmdVars, tx>>

Interrupt ==
  /\ "interrupt" \in Faults
  /\ Running
  /\ GiveUp
  /\ disturbed' = TRUE
  /\ UNCHANGED <<file, hasty, misfit, replies, usbVars, dec, cmds, pc, cmdVars, tx>>

-----------------------------------------------------------------------------
(* The USB interrupt of the device.                                        *)

(* Mutant: a transfer that comes too early is discarded.                   *)
OfferDiscard(packet) ==
  /\ held' = <<>>
  /\ IF xfer_state = "IDLE"
     THEN rxBuf' = packet /\ filling' = TRUE /\ xfer_state' = "ACCEPTED"
     ELSE UNCHANGED <<rxBuf, filling, xfer_state>>
  /\ UNCHANGED paused

(* user_cdc_serial_data_received                                           *)
Offer(packet) ==
  IF xfer_state = "IDLE"
  THEN /\ rxBuf' = packet /\ filling' = TRUE /\ xfer_state' = "ACCEPTED"
       /\ held' = <<>>
       /\ UNCHANGED paused
  ELSE /\ held' = packet /\ paused' = TRUE
       /\ UNCHANGED <<rxBuf, filling, xfer_state>>

(* The library offers one transfer at a time, and none over a paused one.  *)
PacketArrives ==
  /\ out # <<>> /\ held = <<>> /\ ~filling
  /\ Offer(Head(out))
  /\ out' = Tail(out)
  /\ UNCHANGED <<hostVars, disturbed, replies, dec, cmds, pc, cmdVars, tx>>

(* user_cdc_serial_data_rx_transfer_complete; nothing is called when the   *)
(* transfer is aborted instead.                                            *)
TransferComplete ==
  /\ filling /\ filling' = FALSE
  /\ xfer_state' \in {"DATA_READY"} \cup (IF "abort" \in Faults THEN {xfer_state} ELSE {})
  /\ Disturb(xfer_state' # "DATA_READY")
  /\ UNCHANGED <<hostVars, out, replies, held, rxBuf, paused, dec, cmds, pc, cmdVars, tx>>

(* A reply reaches the host, and nobody if the tool is not running.        *)
ReplyFetched ==
  /\ tx # <<>> /\ tx' = <<>>
  /\ replies' = IF Running THEN replies \o tx ELSE replies
  /\ UNCHANGED <<hostVars, disturbed, out, usbVars, dec, cmds, pc, cmdVars>>

-----------------------------------------------------------------------------
(* The main loop of the device: flash_cmd_main.                            *)

(* xfer: while a reply is in transmission the library refuses another, and *)
(* that is ignored; but resp has been overwritten.                         *)
Transmit(reply) ==
  IF tx = <<>> THEN tx' = <<reply>>
  ELSE "overrun" \in Faults /\ tx' \in {tx, <<reply>>}

(* Mutant: the buffer is given back as soon as it has been looked at.      *)
DecodeFrameRelease ==
  /\ pc = "top" /\ xfer_state = "DATA_READY"
  /\ LET d == unslip(dec, rxBuf) IN
       /\ dec' = [decoding |-> d.decoding, escape |-> d.escape]
       /\ cmds' = d.frames
  /\ pc' = "process"
  /\ xfer_state' = "IDLE"
  /\ UNCHANGED <<hostVars, disturbed, out, replies, held, filling, rxBuf, paused, cmdVars, tx>>

DecodeFrame ==
  /\ pc = "top" /\ xfer_state = "DATA_READY"
  /\ LET d == unslip(dec, rxBuf) IN
       /\ dec' = [decoding |-> d.decoding, escape |-> d.escape]
       /\ cmds' = d.frames
  /\ pc' = "process"
  /\ UNCHANGED <<hostVars, disturbed, out, replies, usbVars, cmdVars, tx>>

NoData ==
  /\ pc = "top" /\ xfer_state # "DATA_READY" /\ erasing
  /\ pc' = "erase"
  /\ UNCHANGED <<hostVars, disturbed, out, replies, usbVars, dec, cmds, cmdVars, tx>>

(* What a page holds that held old and is programmed with d: bits can only *)
(* be cleared.  What no file has counts as garbage, too.                   *)
Burn(old, d) == IF old \in {Blank, d} /\ d \in Value THEN d ELSE Garbage

(* program_flash                                                           *)
ProgramFlash(a, d) ==
  \E ok \in {1} \cup (IF "programFails" \in Faults THEN {0} ELSE {}) :
    /\ flash' = [flash EXCEPT ![a] = IF ok = 1 THEN Burn(@, d) ELSE Garbage]
    /\ Transmit(<<PROGRAM_ACK, a, ok>>)
    /\ Disturb(ok = 0 \/ tx # <<>>)
    /\ UNCHANGED <<erasing, erase_sector, max_erase_sector>>

(* program_flash for a page beyond the chip, or for a frame that is no     *)
(* whole command: what is left in cmd from the frames before it then makes *)
(* up for what is missing, the address, the length or the data.            *)
ProgramAnything ==
  \E a \in Page \cup {progLen}, n \in 0 .. ChipPages, ok \in {0, 1} :
    /\ flash' = [p \in Page |-> IF p \in a .. a + n - 1 THEN Garbage ELSE flash[p]]
    /\ Transmit(<<PROGRAM_ACK, a, ok>>)
    /\ Disturb(TRUE)
    /\ UNCHANGED <<erasing, erase_sector, max_erase_sector>>

(* The frame is all of a command to program a page.                        *)
Whole(c) == Len(c) >= 3 /\ Len(c) = 3 + c[3]

(* Mutant: one sector too many.                                            *)
SectorsAndOne == Sectors

LastSector == Sectors - 1

(* process_command for the next of the frames.                             *)
ProcessCommand ==
  /\ pc = "process" /\ cmds # <<>>
  /\ cmds' = Tail(cmds)
  /\ LET c == Head(cmds) IN
     CASE c[1] = NOP -> /\ Transmit(<<NOP>>) /\ Disturb(tx # <<>>)
                        /\ UNCHANGED cmdVars
       [] c[1] = ERASE_APPLICATION ->
            /\ erase_sector' = 0 /\ max_erase_sector' = LastSector
            /\ erasing' = TRUE
            /\ UNCHANGED <<flash, tx, disturbed>>
       [] c[1] = PROGRAM ->
            IF Whole(c) /\ c[2] \in Page
            THEN ProgramFlash(c[2], SubSeq(c, 4, Len(c)))
            ELSE ProgramAnything
       [] OTHER -> UNCHANGED <<cmdVars, tx, disturbed>>
  /\ UNCHANGED <<hostVars, out, replies, usbVars, dec, pc>>

Release ==
  /\ pc = "process" /\ cmds = <<>>
  /\ xfer_state' = "IDLE"
  /\ pc' = "unpause"
  /\ UNCHANGED <<hostVars, disturbed, out, replies, held, filling, rxBuf, paused,
                 dec, cmds, cmdVars, tx>>

(* Mutant: the transfer is left where it is.                               *)
UnpauseOnly ==
  /\ pc = "unpause"
  /\ paused' = FALSE
  /\ pc' = "erase"
  /\ UNCHANGED <<hostVars, disturbed, out, replies, held, filling, rxBuf, xfer_state,
                 dec, cmds, cmdVars, tx>>

Unpause ==
  /\ pc = "unpause"
  /\ paused' = FALSE
  /\ pc' = IF paused THEN "resume" ELSE "erase"
  /\ UNCHANGED <<hostVars, disturbed, out, replies, held, filling, rxBuf, xfer_state,
                 dec, cmds, cmdVars, tx>>

(* The library offers the paused transfer again.                           *)
Resume ==
  /\ pc = "resume"
  /\ Offer(held)
  /\ pc' = "erase"
  /\ UNCHANGED <<hostVars, disturbed, out, replies, dec, cmds, cmdVars, tx>>

(* One sector and its status; the result of flash_erase is ignored.        *)
EraseSector ==
  /\ pc = "erase" /\ erasing
  /\ \E ok \in {TRUE} \cup (IF "eraseFails" \in Faults THEN {FALSE} ELSE {}) :
       /\ flash' = [p \in Page |-> IF ok /\ p \div PagesPerSector = erase_sector
                                   THEN Blank ELSE flash[p]]
       /\ Disturb(~ok \/ tx # <<>>)
  /\ Transmit(<<ERASE_STATUS, erase_sector, max_erase_sector>>)
  /\ IF erase_sector = max_erase_sector
     THEN erasing' = FALSE /\ erase_sector' = 0 /\ max_erase_sector' = 0
     ELSE erase_sector' = erase_sector + 1 /\ UNCHANGED <<erasing, max_erase_sector>>
  /\ pc' = "top"
  /\ UNCHANGED <<hostVars, out, replies, usbVars, dec, cmds>>

NothingToErase ==
  /\ pc = "erase" /\ ~erasing
  /\ pc' = "top"
  /\ UNCHANGED <<hostVars, disturbed, out, replies, usbVars, dec, cmds, cmdVars, tx>>

-----------------------------------------------------------------------------
MainLoop == \/ DecodeFrame \/ NoData \/ ProcessCommand \/ Release \/ Unpause
            \/ Resume \/ EraseSector \/ NothingToErase

Next == \/ \E f \in Files : Start(f)
        \/ Receive \/ Timeout \/ Interrupt
        \/ PacketArrives \/ TransferComplete \/ ReplyFetched
        \/ MainLoop

Spec == Init /\ [][Next]_vars

(* The device runs, the host polls and reads; nobody need start the tool.  *)
FairSpec == /\ Spec
            /\ WF_vars(MainLoop)
            /\ WF_vars(PacketArrives) /\ WF_vars(TransferComplete)
            /\ WF_vars(ReplyFetched) /\ WF_vars(Receive) /\ WF_vars(Timeout)

-----------------------------------------------------------------------------
TypeOK ==
  /\ host \in {"off", "nop", "erase", "program", "success", "failed"}
  /\ file \in Files /\ progLen \in 0 .. Len(file) /\ hasty \in 0 .. Haste
  /\ disturbed \in BOOLEAN /\ misfit \in BOOLEAN
  /\ out \in Seq(Seq(Nat) \ {<<>>}) /\ replies \in Seq(Seq(Nat))
  /\ held \in Seq(Nat) /\ rxBuf \in Seq(Nat)
  /\ filling \in BOOLEAN /\ paused \in BOOLEAN
  /\ xfer_state \in {"IDLE", "ACCEPTED", "DATA_READY"}
  /\ dec \in Decoder /\ cmds \in Seq(Seq(Nat))
  /\ pc \in {"top", "process", "unpause", "resume", "erase"}
  /\ erasing \in BOOLEAN /\ erase_sector \in 0 .. Sectors - 1
  /\ max_erase_sector \in 0 .. Sectors - 1
  /\ tx \in Seq(Seq(Nat)) /\ Len(tx) <= 1
  /\ flash \in [Page -> Content]

(* What the tool may send for files that fit.                              *)
Commands == {<<NOP>>, <<ERASE_APPLICATION>>} \cup
            UNION {{ProgramFrame(i - 1, f[i]) : i \in DOMAIN f} : f \in {g \in Files : Fits(g)}}

(* Transfers that the decoder has not seen, in the order it will see them. *)
Coming == (IF xfer_state # "IDLE" /\ pc # "process" THEN <<rxBuf>> ELSE <<>>)
          \o (IF held # <<>> THEN <<held>> ELSE <<>>) \o out

(* While the files fit, every transfer on its way will be understood as    *)
(* one command of the tool's, whatever bytes the page holds and whatever   *)
(* has come before: what slip makes of a command unslip undoes, also in    *)
(* the middle of a frame or of an escape that an earlier transfer has      *)
(* begun and none has ended.                                               *)
CommandsUnderstood ==
  ~misfit => \A i \in DOMAIN Coming :
               unslip(dec, Coming[i]).frames \in {<<c>> : c \in Commands}

(* The receive buffer belongs to the main loop while it reads it: the      *)
(* interrupt stores nothing there until it has been given back.            *)
BufferHeld == pc = "process" => xfer_state = "DATA_READY" /\ ~filling

(* The update, from the user's point of view, as long as the files fit:    *)
(* success is reported only when the flash holds the file, and stays true. *)
(* It is also after runs that were interrupted and have left commands and  *)
(* replies behind, as long as no more than two have in a row: a reply too  *)
(* many passes for one to a command that the device has not yet seen.      *)
Image(f) == [p \in 0 .. Len(f) - 1 |-> f[p + 1]]

Update == INSTANCE Updater WITH
            Files <- {Image(f) : f \in Files}, file <- Image(file),
            Verdict <- {"off", "running", "success", "failed"},
            verdict <- IF Running THEN "running" ELSE host

ImplementsUpdater == Update!Init /\ [][misfit' \/ Update!Next]_(Update!vars)

(* A run that found the device quiet, the only one since then, reports     *)
(* success only when every page of the file is in the flash; the file fits.*)
QuietRunTells ==
  host = "success" /\ hasty = 0 /\ ~misfit =>
    \A i \in DOMAIN file : flash[i - 1] = file[i]

(* A run that nothing has disturbed, of a file that fits, ends in success. *)
UndisturbedSucceeds ==
  (Running /\ ~disturbed /\ ~misfit) ~> (host = "success" \/ disturbed)

(* A transfer that was paused is resumed, without the host's doing.        *)
PausedResumes == (held # <<>>) ~> (held = <<>>)

=============================================================================
