-------------------------- MODULE FlashUpdateProofs ---------------------------
(***************************************************************************)
(* Proofs about FlashUpdate, for any flash, any files, any faults unless   *)
(* said otherwise, and any number of restarts.  In this order: what the    *)
(* USB interrupt and the main loop do to the buffer that they share; types *)
(* and, as long as the files fit, what is on the link; where a run that    *)
(* nobody has got in the way of stands, and what the flash holds then;     *)
(* that such runs implement Updater.                                       *)
(***************************************************************************)
EXTENDS FlashUpdate, SlipProofs, TLAPS

(* The library stores only into a buffer that the interrupt has accepted a *)
(* transfer for, and the main loop reads it only with the data ready.      *)
BufferInv == /\ filling => xfer_state = "ACCEPTED"
             /\ pc = "process" => xfer_state = "DATA_READY"

(* A transfer that is held has been noted, or is about to be offered again.*)
HeldNoted == held # <<>> => paused \/ pc = "resume"

PathInv == BufferInv /\ HeldNoted

-----------------------------------------------------------------------------
LEMMA InitPathInv == Init => PathInv
BY DEF Init, PathInv, BufferInv, HeldNoted

(* The host's steps, and those that only fetch a reply.                    *)
LEMMA HostPathInv ==
  ASSUME PathInv, (\E f \in Files : Start(f)) \/ Receive \/ Timeout \/ Interrupt \/ ReplyFetched
  PROVE  PathInv'
<1>1. UNCHANGED <<usbVars, pc>>
  BY DEF Start, Receive, Timeout, Interrupt, ReplyFetched
<1>. QED
  BY <1>1 DEF usbVars, PathInv, BufferInv, HeldNoted

(* The interrupt: a transfer that finds the buffer in use leaves it alone. *)
LEMMA InterruptPathInv ==
  ASSUME PathInv, PacketArrives \/ TransferComplete
  PROVE  PathInv'
<1>1. CASE PacketArrives
  BY <1>1 DEF PacketArrives, Offer, PathInv, BufferInv, HeldNoted
<1>2. CASE TransferComplete
  BY <1>2 DEF TransferComplete, PathInv, BufferInv, HeldNoted
<1>. QED
  BY <1>1, <1>2

(* The main loop: it takes the buffer when the data is ready, and resumes  *)
(* what has been paused after it has given the buffer back.                *)
LEMMA MainLoopPathInv ==
  ASSUME PathInv, MainLoop
  PROVE  PathInv'
<1>1. CASE DecodeFrame
  BY <1>1 DEF DecodeFrame, usbVars, PathInv, BufferInv, HeldNoted
<1>2. CASE NoData \/ NothingToErase \/ EraseSector
  <2>1. UNCHANGED usbVars /\ pc \in {"top", "erase"} /\ pc' \in {"top", "erase"}
    BY <1>2 DEF NoData, NothingToErase, EraseSector
  <2>. QED
    BY <2>1 DEF usbVars, PathInv, BufferInv, HeldNoted
<1>3. CASE ProcessCommand
  BY <1>3 DEF ProcessCommand, usbVars, PathInv, BufferInv, HeldNoted
<1>4. CASE Release
  BY <1>4 DEF Release, PathInv, BufferInv, HeldNoted
<1>5. CASE Unpause
  BY <1>5 DEF Unpause, PathInv, BufferInv, HeldNoted
<1>6. CASE Resume
  BY <1>6 DEF Resume, Offer, PathInv, BufferInv, HeldNoted
<1>. QED
  BY <1>1, <1>2, <1>3, <1>4, <1>5, <1>6 DEF MainLoop

LEMMA StepPathInv == PathInv /\ [Next]_vars => PathInv'
<1>. SUFFICES ASSUME PathInv, [Next]_vars PROVE PathInv'
  OBVIOUS
<1>1. CASE UNCHANGED vars
  BY <1>1 DEF vars, usbVars, PathInv, BufferInv, HeldNoted
<1>2. CASE Next
  BY <1>2, HostPathInv, InterruptPathInv, MainLoopPathInv DEF Next
<1>. QED
  BY <1>1, <1>2

LEMMA PathInvariance == Spec => []PathInv
<1>. QED
  BY InitPathInv, StepPathInv, PTL DEF Spec

(* While the main loop works on the receive buffer nothing is stored in    *)
(* it, whatever the host sends and however often the tool is restarted.    *)
THEOREM BufferStaysHeld == Spec => []BufferHeld
<1>1. PathInv => BufferHeld
  BY DEF PathInv, BufferInv, BufferHeld
<1>. QED
  BY <1>1, PathInvariance, PTL

(* No transfer is forgotten between Release and Resume: one that is held   *)
(* has been noted in paused, or is about to be offered again.              *)
THEOREM HeldTransferNoted == Spec => []HeldNoted
<1>1. PathInv => HeldNoted
  BY DEF PathInv
<1>. QED
  BY <1>1, PathInvariance, PTL

-----------------------------------------------------------------------------
(* Types, and what is under way between the tool and the decoder.          *)

Transfer == {slip(c) : c \in Commands}

(* A paused transfer is there to be offered again.                         *)
PauseInv == /\ paused => held # <<>> /\ pc # "resume"
            /\ pc = "resume" => held # <<>>

(* While the files fit, every transfer that the decoder has not seen is a  *)
(* slipped command.                                                        *)
LinkInv ==
  ~misfit =>
    /\ Fits(file)
    /\ out \in Seq(Transfer) /\ cmds \in Seq(Commands)
    /\ held # <<>> => held \in Transfer
    /\ xfer_state # "IDLE" => rxBuf \in Transfer

(* The page that the tool programs is in the file, and a sector that is    *)
(* still to be erased in the application's.                                *)
StepInv == /\ host = "program" => progLen < Len(file)
           /\ erasing => max_erase_sector = LastSector

TypeInv == TypeOK /\ PauseInv /\ LinkInv /\ StepInv

LEMMA Geometry ==
  /\ Sectors \in Nat /\ Sectors > 0 /\ PagesPerSector \in Nat /\ PagesPerSector > 0
  /\ NumPages \in Nat /\ ChipPages \in Nat /\ NumPages <= ChipPages
  /\ BufSize \in Nat /\ BufSize >= 3
  /\ \A f \in Files : /\ f \in Seq(Seq(0 .. 255)) /\ Len(f) \in Nat /\ DOMAIN f = 1 .. Len(f)
                      /\ \A i \in 1 .. Len(f) : f[i] \in Seq(0 .. 255)
  /\ Haste \in Nat
<1>1. NumPages \in Nat
  BY UpdateAssumption DEF NumPages
<1>2. ASSUME NEW f \in Files
      PROVE  /\ f \in Seq(Seq(0 .. 255)) /\ Len(f) \in Nat /\ DOMAIN f = 1 .. Len(f)
             /\ \A i \in 1 .. Len(f) : f[i] \in Seq(0 .. 255)
  <2>1. f \in Seq(Seq(0 .. 255))
    BY UpdateAssumption
  <2>. QED
    BY <2>1, LenProperties, ElementOfSeq
<1>. QED
  BY <1>1, <1>2, UpdateAssumption

LEMMA SeqSubset ==
  ASSUME NEW S, NEW T, S \subseteq T, NEW s \in Seq(S)
  PROVE  s \in Seq(T)
BY SeqMonotonic

LEMMA FrameBegins ==
  ASSUME NEW n \in Nat, NEW d \in Seq(Nat), NEW c, c = ProgramFrame(n, d)
  PROVE  c[1] = PROGRAM
BY LenProperties DEF ProgramFrame, PROGRAM

(* The tool's PROGRAM command is what the device takes it for.             *)
LEMMA FrameFacts ==
  ASSUME NEW n \in Nat, NEW d \in Seq(Nat), NEW c, c = ProgramFrame(n, d)
  PROVE  /\ c \in Seq(Nat) /\ c # <<>> /\ Whole(c)
         /\ c[2] = n /\ SubSeq(c, 4, Len(c)) = d
<1>1. PICK m \in Nat : m = Len(d)
  BY LenProperties
<1>2. /\ c \in Seq(Nat) /\ Len(c) = 3 + m /\ c[2] = n /\ c[3] = m
      /\ \A i \in 1 .. m : c[i + 3] = d[i]
  BY <1>1, LenProperties DEF ProgramFrame, PROGRAM
<1>3. Whole(c) /\ c # <<>>
  BY <1>2 DEF Whole
<1>4. PICK t : t = SubSeq(c, 4, 3 + m)
  OBVIOUS
<1>5. t \in Seq(Nat) /\ Len(t) = m /\ \A i \in 1 .. m : t[i] = c[i + 3]
  <2>1. ASSUME NEW i \in 4 .. 3 + m PROVE c[i] \in Nat
    <3>1. i \in 1 .. Len(c)
      BY <1>2
    <3>. QED
      BY <1>2, <3>1, ElementOfSeq
  <2>2. 4 \in Int /\ 3 + m \in Int
    BY <1>2
  <2>3. /\ t \in Seq(Nat) /\ Len(t) = IF 4 <= 3 + m THEN 3 + m - 4 + 1 ELSE 0
        /\ \A i \in 1 .. 3 + m - 4 + 1 : t[i] = c[4 + i - 1]
    BY <1>4, <2>1, <2>2, SubSeqProperties
  <2>4. /\ 3 + m - 4 + 1 = m /\ ~(4 <= 3 + m) => m = 0
        /\ \A i \in 1 .. m : 4 + i - 1 = i + 3
    BY <1>2
  <2>. QED
    BY <2>3, <2>4
<1>6. t = d
  BY <1>1, <1>2, <1>5, SeqEqual
<1>. QED
  BY <1>2, <1>3, <1>4, <1>6

(* The pieces that go out: none is empty, and a frame that fits is whole.  *)
LEMMA Pieces ==
  ASSUME NEW l \in Nat, NEW b \in Nat, b > 0, NEW k, k = (l + b - 1) \div b
  PROVE  /\ k \in Nat
         /\ \A i \in 1 .. k : (i - 1) * b < l /\ (i - 1) * b \in Nat /\ i * b = (i - 1) * b + b
         /\ 1 <= l /\ l <= b => k = 1
<1>1. k \in Nat /\ k * b <= l + b - 1 /\ l + b - 1 < (k + 1) * b
  OBVIOUS
<1>2. ASSUME NEW i \in 1 .. k
      PROVE  (i - 1) * b < l /\ (i - 1) * b \in Nat /\ i * b = (i - 1) * b + b
  <2>1. i \in Nat /\ i <= k /\ i - 1 \in Nat
    BY <1>1
  <2>2. i * b = (i - 1) * b + b /\ (i - 1) * b \in Nat
    BY <2>1
  <2>3. i * b <= k * b
    BY <1>1, <2>1
  <2>. QED
    BY <1>1, <2>1, <2>2, <2>3
<1>3. ASSUME 1 <= l, l <= b PROVE k = 1
  <2>1. k # 0
    BY <1>1, <1>3
  <2>2. ~(k >= 2)
    <3>1. ASSUME k >= 2 PROVE 2 * b <= k * b
      BY <1>1, <3>1
    <3>. QED
      BY <1>1, <1>3, <3>1
  <2>. QED
    BY <1>1, <2>1, <2>2
<1>. QED
  BY <1>1, <1>2, <1>3

LEMMA TransfersAre ==
  ASSUME NEW s \in Seq(Nat)
  PROVE  /\ Transfers(s) \in Seq(Seq(Nat) \ {<<>>})
         /\ s # <<>> /\ Len(s) <= BufSize => Transfers(s) = <<s>>
<1>1. PICK l \in Nat : l = Len(s)
  BY LenProperties
<1>2. PICK b \in Nat : b = BufSize /\ b > 0
  BY Geometry
<1>3. PICK k : k = (l + b - 1) \div b
  OBVIOUS
<1>4. /\ k \in Nat
      /\ \A i \in 1 .. k : (i - 1) * b < l /\ (i - 1) * b \in Nat /\ i * b = (i - 1) * b + b
      /\ 1 <= l /\ l <= b => k = 1
  BY <1>2, <1>3, Pieces
<1>. DEFINE Piece(i) == SubSeq(s, (i - 1) * b + 1, IF i * b < l THEN i * b ELSE l)
<1>5. Transfers(s) = [i \in 1 .. k |-> Piece(i)]
  BY <1>1, <1>2, <1>3 DEF Transfers
<1>6. ASSUME NEW i \in 1 .. k PROVE Piece(i) \in Seq(Nat) \ {<<>>}
  <2>1. PICK m \in Nat : m = (i - 1) * b /\ m < l /\ i * b = m + b
    BY <1>4
  <2>2. PICK n \in Nat : n = (IF i * b < l THEN i * b ELSE l) /\ m + 1 <= n /\ n <= l
    BY <1>2, <2>1
  <2>3. ASSUME NEW j \in m + 1 .. n PROVE s[j] \in Nat
    <3>1. j \in 1 .. Len(s)
      BY <1>1, <2>2
    <3>. QED
      BY <3>1, ElementOfSeq
  <2>4. PICK t : t = SubSeq(s, m + 1, n)
    OBVIOUS
  <2>5. t \in Seq(Nat) /\ Len(t) = n - (m + 1) + 1
    <3>1. m + 1 \in Int /\ n \in Int
      OBVIOUS
    <3>. QED
      BY <2>2, <2>3, <2>4, <3>1, SubSeqProperties
  <2>6. t # <<>>
    BY <2>2, <2>5
  <2>7. Piece(i) = t
    BY <2>1, <2>2, <2>4
  <2>. QED
    BY <2>5, <2>6, <2>7
<1>7. Transfers(s) \in Seq(Seq(Nat) \ {<<>>})
  <2>1. PICK P : P = Seq(Nat) \ {<<>>}
    OBVIOUS
  <2>. HIDE DEF Piece
  <2>2. [i \in 1 .. k |-> Piece(i)] \in Seq(P)
    BY <1>4, <1>6, <2>1
  <2>. QED
    BY <1>5, <2>1, <2>2
<1>8. ASSUME s # <<>>, Len(s) <= BufSize PROVE Transfers(s) = <<s>>
  <2>1. 1 <= l /\ l <= b
    BY <1>1, <1>2, <1>8, EmptySeq
  <2>2. k = 1
    BY <1>4, <2>1
  <2>3. Piece(1) = s
    <3>1. (1 - 1) * b + 1 = 1 /\ (IF 1 * b < l THEN 1 * b ELSE l) = l
      BY <2>1
    <3>2. SubSeq(s, 1, Len(s)) = s
      BY SubSeqFull
    <3>. QED
      BY <1>1, <3>1, <3>2
  <2>. HIDE DEF Piece
  <2>4. [i \in 1 .. 1 |-> Piece(i)] = <<s>>
    BY <2>3
  <2>. QED
    BY <1>5, <2>2, <2>4
<1>. QED
  BY <1>7, <1>8

(* The page of a PROGRAM command, and what it is to hold.                  *)
Asks(c, f) == c[2] \in 0 .. Len(f) - 1 /\ SubSeq(c, 4, Len(c)) = f[c[2] + 1]

LEMMA PageFrame ==
  ASSUME NEW f \in Files, NEW i \in DOMAIN f, NEW c, c = ProgramFrame(i - 1, f[i])
  PROVE  /\ c \in Seq(Nat) /\ c # <<>> /\ Whole(c)
         /\ c[1] = PROGRAM /\ c[2] = i - 1 /\ SubSeq(c, 4, Len(c)) = f[i] /\ Asks(c, f)
<1>1. i \in 1 .. Len(f) /\ Len(f) \in Nat
  BY Geometry
<1>2. i - 1 \in Nat /\ i - 1 \in 0 .. Len(f) - 1 /\ i - 1 + 1 = i
  BY <1>1
<1>3. f[i] \in Seq(Nat)
  <2>1. f[i] \in Seq(0 .. 255) /\ 0 .. 255 \subseteq Nat
    BY <1>1, Geometry
  <2>. QED
    BY <2>1, SeqSubset
<1>4. /\ c \in Seq(Nat) /\ c # <<>> /\ Whole(c)
      /\ c[1] = PROGRAM /\ c[2] = i - 1 /\ SubSeq(c, 4, Len(c)) = f[i]
  <2>1. PICK n \in Nat : n = i - 1
    BY <1>2
  <2>2. PICK d \in Seq(Nat) : d = f[i]
    BY <1>3
  <2>3. c = ProgramFrame(n, d)
    BY <2>1, <2>2
  <2>4. /\ c \in Seq(Nat) /\ c # <<>> /\ Whole(c)
        /\ c[1] = PROGRAM /\ c[2] = n /\ SubSeq(c, 4, Len(c)) = d
    <3>1. c \in Seq(Nat) /\ c # <<>> /\ Whole(c) /\ c[2] = n /\ SubSeq(c, 4, Len(c)) = d
      BY ONLY n \in Nat, d \in Seq(Nat), <2>3, FrameFacts
    <3>2. c[1] = PROGRAM
      BY ONLY n \in Nat, d \in Seq(Nat), <2>3, FrameBegins
    <3>. QED
      BY ONLY <3>1, <3>2
  <2>. QED
    BY <2>1, <2>2, <2>4
<1>. QED
  BY <1>2, <1>4 DEF Asks

LEMMA CommandFacts ==
  ASSUME NEW c \in Commands
  PROVE  /\ c \in Seq(Nat) /\ c # <<>> /\ Plain(c[1]) /\ Len(slip(c)) <= BufSize
         /\ \/ c[1] = NOP /\ c = <<NOP>>
            \/ c[1] = ERASE_APPLICATION /\ c = <<ERASE_APPLICATION>>
            \/ /\ c[1] = PROGRAM /\ Whole(c) /\ c[2] \in 0 .. NumPages - 1 /\ c[2] \in Page
               /\ SubSeq(c, 4, Len(c)) \in Value /\ \E f \in Files : Asks(c, f)
<1>1. /\ NOP \in Nat /\ ERASE_APPLICATION \in Nat /\ PROGRAM \in Nat
      /\ Plain(NOP) /\ Plain(ERASE_APPLICATION) /\ Plain(PROGRAM)
  BY DEF NOP, ERASE_APPLICATION, PROGRAM, Plain, END, ESC, ESC_END, ESC_ESC
<1>2. ASSUME NEW x \in Nat, Plain(x), c = <<x>>
      PROVE  /\ c \in Seq(Nat) /\ c # <<>> /\ c[1] = x /\ Plain(c[1]) /\ Len(slip(c)) <= BufSize
  <2>1. Len(slip(c)) = 3
    BY <1>2, SlipOne
  <2>2. c \in Seq(Nat) /\ c # <<>> /\ c[1] = x
    BY <1>2
  <2>. QED
    BY <1>2, <2>1, <2>2, Geometry
<1>3. CASE c = <<NOP>>
  BY <1>1, <1>2, <1>3
<1>4. CASE c = <<ERASE_APPLICATION>>
  BY <1>1, <1>2, <1>4
<1>5. CASE \E f \in Files : Fits(f) /\ \E i \in DOMAIN f : c = ProgramFrame(i - 1, f[i])
  <2>1. PICK f \in Files : Fits(f) /\ \E i \in DOMAIN f : c = ProgramFrame(i - 1, f[i])
    BY <1>5
  <2>2. PICK i \in DOMAIN f : c = ProgramFrame(i - 1, f[i])
    BY <2>1
  <2>3. /\ c \in Seq(Nat) /\ c # <<>> /\ Whole(c)
        /\ c[1] = PROGRAM /\ c[2] = i - 1 /\ SubSeq(c, 4, Len(c)) = f[i] /\ Asks(c, f)
    BY <2>2, PageFrame
  <2>4. f[i] \in Value
    BY DEF Value
  <2>5. Len(slip(c)) <= BufSize
    BY <2>1, <2>2 DEF Fits
  <2>6. c[2] \in 0 .. NumPages - 1 /\ c[2] \in Page
    <3>1. i \in 1 .. Len(f) /\ Len(f) <= NumPages
      BY <2>1, Geometry DEF Fits
    <3>2. PICK l \in Nat, n \in Nat, m \in Nat : l = Len(f) /\ n = NumPages /\ m = ChipPages /\ n <= m
      BY Geometry
    <3>3. i - 1 \in 0 .. n - 1 /\ i - 1 \in 0 .. m - 1
      BY <3>1, <3>2
    <3>. QED
      BY <2>3, <3>2, <3>3 DEF Page
  <2>. QED
    BY <1>1, <2>3, <2>4, <2>5, <2>6
<1>. QED
  BY <1>3, <1>4, <1>5 DEF Commands

LEMMA ConstantCommands == <<NOP>> \in Commands /\ <<ERASE_APPLICATION>> \in Commands
BY DEF Commands

LEMMA PageCommand ==
  ASSUME NEW f \in Files, Fits(f), NEW n \in Nat, n < Len(f)
  PROVE  ProgramFrame(n, f[n + 1]) \in Commands
<1>1. n + 1 \in DOMAIN f /\ n + 1 - 1 = n
  BY Geometry
<1>2. ProgramFrame(n, f[n + 1]) \in {ProgramFrame(i - 1, f[i]) : i \in DOMAIN f}
  BY <1>1
<1>. QED
  BY <1>2 DEF Commands

LEMMA TransferMade ==
  ASSUME NEW c \in Commands
  PROVE  /\ slip(c) \in Transfer /\ slip(c) \in Seq(Nat) /\ slip(c) # <<>>
         /\ Transfers(slip(c)) = <<slip(c)>>
<1>1. c \in Seq(Nat) /\ c # <<>> /\ Len(slip(c)) <= BufSize /\ 0 .. 255 \subseteq Nat
  BY CommandFacts
<1>2. slip(c) \in Seq(Nat) /\ slip(c) # <<>>
  BY <1>1, SlipLonger, Geometry
<1>. QED
  BY <1>1, <1>2, TransfersAre DEF Transfer

(* Wherever the decoder stands, it makes of a transfer the one command.    *)
LEMMA DecodesTo ==
  ASSUME NEW c \in Commands, dec \in Decoder, NEW d, d = unslip(dec, slip(c))
  PROVE  d.frames = <<c>>
<1>1. /\ c \in Seq(Nat) /\ c # <<>> /\ Plain(c[1]) /\ Len(slip(c)) <= BufSize
      /\ 0 .. 255 \subseteq Nat /\ BufSize \in Nat
  BY CommandFacts, Geometry
<1>2. d = [decoding |-> FALSE, escape |-> FALSE, out |-> <<>>, frames |-> <<c>>]
  BY <1>1, SlipUndone
<1>. QED
  BY <1>2

LEMMA TransferFacts ==
  ASSUME NEW x \in Transfer, dec \in Decoder
  PROVE  /\ x \in Seq(Nat) /\ x # <<>>
         /\ \E c \in Commands : unslip(dec, x).frames = <<c>>
<1>1. PICK c \in Commands : x = slip(c)
  BY DEF Transfer
<1>. QED
  BY <1>1, TransferMade, DecodesTo

LEMMA CommandsTyped == Commands \subseteq Seq(Nat)
BY CommandFacts

LEMMA InitTypeInv == Init => TypeInv
<1>. SUFFICES ASSUME Init PROVE TypeInv
  OBVIOUS
<1>1. TypeOK
  <2>1. 0 \in 0 .. Len(file) /\ 0 \in 0 .. Haste /\ 0 \in 0 .. Sectors - 1
    BY Geometry DEF Init
  <2>2. flash \in [Page -> Content] /\ misfit \in BOOLEAN
    BY DEF Init, Content
  <2>3. dec \in Decoder
    BY DEF Init, Idle, Decoder
  <2>4. /\ out \in Seq(Seq(Nat) \ {<<>>}) /\ cmds \in Seq(Seq(Nat)) /\ replies \in Seq(Seq(Nat))
        /\ held \in Seq(Nat) /\ rxBuf \in Seq(Nat)
        /\ tx \in Seq(Seq(Nat)) /\ Len(tx) <= 1
    BY DEF Init
  <2>. QED
    BY <2>1, <2>2, <2>3, <2>4 DEF Init, TypeOK
<1>2. ~misfit => Fits(file)
  BY DEF Init
<1>3. LinkInv /\ PauseInv /\ StepInv
  BY <1>2 DEF Init, LinkInv, PauseInv, StepInv
<1>. QED
  BY <1>1, <1>3 DEF TypeInv

(* The tool sends a command, of a file that fits or of another.            *)
LEMMA SendTyped ==
  ASSUME TypeInv, NEW c \in Seq(Nat), c # <<>>, Send(c)
  PROVE  /\ out' \in Seq(Seq(Nat) \ {<<>>})
         /\ ~misfit /\ c \in Commands => out' \in Seq(Transfer)
<1>1. out \in Seq(Seq(Nat) \ {<<>>}) /\ (~misfit => out \in Seq(Transfer))
  BY DEF TypeInv, TypeOK, LinkInv
<1>2. slip(c) \in Seq(Nat)
  <2>1. 0 .. 255 \subseteq Nat /\ BufSize \in Nat
    BY Geometry
  <2>. QED
    BY <2>1, SlipLonger
<1>3. PICK t \in Seq(Seq(Nat) \ {<<>>}) : t = Transfers(slip(c))
  BY <1>2, TransfersAre
<1>4. out' = out \o t
  BY <1>3 DEF Send
<1>5. out \o t \in Seq(Seq(Nat) \ {<<>>})
  BY <1>1, <1>3, ConcatProperties
<1>6. ASSUME ~misfit, c \in Commands PROVE out \o t \in Seq(Transfer)
  <2>1. PICK x \in Transfer : x = slip(c) /\ t = <<x>>
    BY <1>3, <1>6, TransferMade
  <2>2. <<x>> \in Seq(Transfer)
    OBVIOUS
  <2>. QED
    BY <1>1, <1>6, <2>1, <2>2, ConcatProperties
<1>. QED
  BY <1>4, <1>5, <1>6

LEMMA StartTypeInv ==
  ASSUME TypeInv, NEW f \in Files, Start(f)
  PROVE  TypeInv'
<1>1. PICK c \in Commands : c = <<NOP>>
  BY ConstantCommands
<1>2. PICK x \in Transfer : x = slip(c) /\ x \in Seq(Nat) /\ x # <<>> /\ Transfers(x) = <<x>>
  BY TransferMade
<1>3. PICK n \in 0 .. Len(out) : out' = SubSeq(out, 1, n) \o <<x>>
  BY <1>1, <1>2 DEF Start
<1>4. ASSUME NEW T, out \in Seq(T), x \in T
      PROVE  out' \in Seq(T)
  <2>1. Len(out) \in Nat
    BY <1>4, LenProperties
  <2>2. PICK s : s = SubSeq(out, 1, n)
    OBVIOUS
  <2>3. s \in Seq(T)
    <3>1. 1 \in Int /\ n \in Int
      BY <2>1
    <3>2. ASSUME NEW i \in 1 .. n PROVE out[i] \in T
      <4>1. i \in 1 .. Len(out)
        BY <2>1
      <4>. QED
        BY <1>4, <4>1, ElementOfSeq
    <3>. QED
      BY <2>2, <3>1, <3>2, SubSeqProperties
  <2>4. <<x>> \in Seq(T)
    BY <1>4
  <2>5. s \o <<x>> \in Seq(T)
    BY <2>3, <2>4, ConcatProperties
  <2>. QED
    BY <1>3, <2>2, <2>5
<1>5. out' \in Seq(Seq(Nat) \ {<<>>})
  <2>1. PICK T : T = Seq(Nat) \ {<<>>}
    OBVIOUS
  <2>2. out \in Seq(T) /\ x \in T
    BY <1>2, <2>1 DEF TypeInv, TypeOK
  <2>. QED
    BY <1>4, <2>1, <2>2
<1>6. host' = "nop" /\ file' = f /\ progLen' = 0 /\ replies' = <<>>
  BY DEF Start
<1>7. UNCHANGED <<usbVars, dec, cmds, pc, cmdVars, tx>>
  BY DEF Start
<1>8. hasty' \in 0 .. Haste
  <2>1. hasty \in Nat /\ Haste \in Nat
    BY Geometry DEF TypeInv, TypeOK
  <2>. QED
    BY <2>1 DEF Start
<1>9. disturbed' \in BOOLEAN /\ misfit' \in BOOLEAN
  BY DEF Start
<1>10. progLen' \in 0 .. Len(file')
  BY <1>6, Geometry
<1>11. TypeOK'
  BY <1>5, <1>6, <1>7, <1>8, <1>9, <1>10 DEF TypeInv, TypeOK, usbVars, cmdVars
<1>12. PauseInv' /\ StepInv'
  BY <1>6, <1>7 DEF TypeInv, PauseInv, StepInv, usbVars, cmdVars
<1>13. LinkInv'
  <2>. SUFFICES ASSUME ~misfit' PROVE LinkInv'
    BY DEF LinkInv
  <2>1. Fits(f) /\ (~misfit \/ Quiet)
    BY DEF Start
  <2>2. Fits(file)'
    BY <1>6, <2>1 DEF Fits
  <2>3. CASE ~misfit
    <3>1. out' \in Seq(Transfer)
      BY <1>4, <2>3 DEF TypeInv, LinkInv
    <3>. QED
      BY <1>7, <2>2, <2>3, <3>1 DEF TypeInv, LinkInv, usbVars
  <2>4. CASE Quiet
    <3>1. out = <<>> /\ held = <<>> /\ xfer_state = "IDLE" /\ cmds = <<>>
      BY <2>4 DEF Quiet
    <3>2. out' \in Seq(Transfer)
      BY <1>4, <3>1
    <3>3. cmds' \in Seq(Commands)
      BY <1>7, <3>1
    <3>. QED
      BY <1>7, <2>2, <3>1, <3>2, <3>3 DEF LinkInv, usbVars
  <2>. QED
    BY <2>1, <2>3, <2>4
<1>. QED
  BY <1>11, <1>12, <1>13 DEF TypeInv

(* The tool has programmed n pages.                                        *)
LEMMA NextPageTyped ==
  ASSUME TypeInv, NEW n \in 0 .. Len(file), NextPage(n), UNCHANGED file
  PROVE  /\ out' \in Seq(Seq(Nat) \ {<<>>}) /\ (~misfit => out' \in Seq(Transfer))
         /\ host' \in {"success", "program"}
         /\ progLen' \in 0 .. Len(file)
         /\ host' = "program" => progLen' < Len(file)
<1>1. /\ file \in Files /\ out \in Seq(Seq(Nat) \ {<<>>})
      /\ ~misfit => Fits(file) /\ out \in Seq(Transfer)
  BY DEF TypeInv, TypeOK, LinkInv
<1>2. PICK k \in Nat : k = Len(file) /\ DOMAIN file = 1 .. k
  BY <1>1, Geometry
<1>3. CASE n = Len(file)
  BY <1>1, <1>2, <1>3 DEF NextPage
<1>4. CASE n # Len(file)
  <2>1. n \in Nat /\ n < k /\ n + 1 \in DOMAIN file /\ n + 1 - 1 = n
    BY <1>2, <1>4
  <2>2. PICK c : c = ProgramFrame(n, file[n + 1])
    OBVIOUS
  <2>3. c \in Seq(Nat) /\ c # <<>>
    BY <1>1, <2>1, <2>2, PageFrame
  <2>4. Fits(file) => c \in Commands
    BY <1>1, <1>2, <2>1, <2>2, PageCommand
  <2>5. Send(c) /\ host' = "program" /\ progLen' = n
    BY <1>4, <2>2 DEF NextPage
  <2>. QED
    BY <1>1, <1>2, <2>1, <2>3, <2>4, <2>5, SendTyped
<1>. QED
  BY <1>3, <1>4

LEMMA ReceiveTypeInv ==
  ASSUME TypeInv, Receive
  PROVE  TypeInv'
<1>1. UNCHANGED <<file, hasty, disturbed, misfit, usbVars, dec, cmds, pc, cmdVars, tx>>
  BY DEF Receive
<1>2. replies' \in Seq(Seq(Nat))
  BY HeadTailProperties DEF Receive, TypeInv, TypeOK
<1>3. /\ file \in Files /\ out \in Seq(Seq(Nat) \ {<<>>}) /\ (~misfit => out \in Seq(Transfer))
      /\ progLen \in 0 .. Len(file) /\ Len(file) \in Nat
  BY Geometry DEF TypeInv, TypeOK, LinkInv
<1>4. /\ out' \in Seq(Seq(Nat) \ {<<>>}) /\ (~misfit => out' \in Seq(Transfer))
      /\ progLen' \in 0 .. Len(file)
      /\ host' \in {"nop", "erase", "program", "success", "failed"}
      /\ host' = "program" => progLen' < Len(file)
  <2>1. PICK r : r = Head(replies)
    OBVIOUS
  <2>2. CASE ~Expected(r)
    <3>1. GiveUp
      BY <2>1, <2>2 DEF Receive
    <3>. QED
      BY <1>3, <3>1 DEF GiveUp
  <2>3. CASE Expected(r) /\ host = "nop"
    <3>1. host' = "erase" /\ Send(<<ERASE_APPLICATION>>) /\ UNCHANGED progLen
      BY <2>1, <2>3 DEF Receive
    <3>2. PICK c \in Commands : c = <<ERASE_APPLICATION>>
      BY ConstantCommands
    <3>3. c \in Seq(Nat) /\ c # <<>>
      BY CommandFacts
    <3>. QED
      BY <1>3, <3>1, <3>2, <3>3, SendTyped
  <2>4. CASE Expected(r) /\ host = "erase" /\ Erased(r)
    <3>1. NextPage(0) /\ 0 \in 0 .. Len(file)
      BY <1>3, <2>1, <2>4 DEF Receive
    <3>. QED
      BY <1>1, <3>1, NextPageTyped
  <2>5. CASE Expected(r) /\ host = "erase" /\ ~Erased(r)
    <3>1. UNCHANGED <<host, progLen, out>>
      BY <2>1, <2>5 DEF Receive
    <3>. QED
      BY <1>3, <2>5, <3>1
  <2>6. CASE Expected(r) /\ host = "program"
    <3>1. NextPage(progLen + 1)
      BY <2>1, <2>6 DEF Receive
    <3>2. progLen + 1 \in 0 .. Len(file)
      BY <1>3, <2>6 DEF TypeInv, StepInv
    <3>. QED
      BY <1>1, <3>1, <3>2, NextPageTyped
  <2>. QED
    BY <2>2, <2>3, <2>4, <2>5, <2>6 DEF Receive, Running
<1>5. TypeOK'
  BY <1>1, <1>2, <1>4 DEF TypeInv, TypeOK, usbVars, cmdVars
<1>6. PauseInv' /\ StepInv'
  BY <1>1, <1>4 DEF TypeInv, PauseInv, StepInv, usbVars, cmdVars
<1>7. LinkInv'
  BY <1>1, <1>4 DEF TypeInv, LinkInv, Fits, usbVars
<1>. QED
  BY <1>5, <1>6, <1>7 DEF TypeInv

LEMMA GiveUpTypeInv ==
  ASSUME TypeInv, Timeout \/ Interrupt
  PROVE  TypeInv'
<1>1. /\ UNCHANGED <<file, hasty, misfit, replies, usbVars, dec, cmds, pc, cmdVars, tx>>
      /\ host' = "failed" /\ UNCHANGED <<progLen, out>>
      /\ disturbed' \in BOOLEAN
  BY DEF Timeout, Interrupt, GiveUp, TypeInv, TypeOK
<1>. QED
  BY <1>1 DEF TypeInv, TypeOK, PauseInv, LinkInv, Fits, StepInv, usbVars, cmdVars

(* A transfer is offered to the device.                                    *)
LEMMA OfferTyped ==
  ASSUME TypeInv, NEW x \in Seq(Nat), x # <<>>, Offer(x)
  PROVE  /\ held' \in Seq(Nat) /\ rxBuf' \in Seq(Nat)
         /\ filling' \in BOOLEAN /\ paused' \in BOOLEAN
         /\ xfer_state' \in {"IDLE", "ACCEPTED", "DATA_READY"}
         /\ paused' => held' # <<>> \/ (paused /\ held' = <<>>)
         /\ ~misfit /\ x \in Transfer =>
              /\ held' # <<>> => held' \in Transfer
              /\ xfer_state' # "IDLE" => rxBuf' \in Transfer
<1>1. <<>> \in Seq(Nat)
  OBVIOUS
<1>2. CASE xfer_state = "IDLE"
  BY <1>1, <1>2 DEF Offer, TypeInv, TypeOK
<1>3. CASE xfer_state # "IDLE"
  BY <1>3 DEF Offer, TypeInv, TypeOK, LinkInv
<1>. QED
  BY <1>2, <1>3

LEMMA PacketTypeInv ==
  ASSUME TypeInv, PacketArrives
  PROVE  TypeInv'
<1>1. /\ Head(out) \in Seq(Nat) /\ Head(out) # <<>> /\ out' \in Seq(Seq(Nat) \ {<<>>})
      /\ ~misfit => Head(out) \in Transfer /\ out' \in Seq(Transfer)
  BY HeadTailProperties DEF PacketArrives, TypeInv, TypeOK, LinkInv
<1>2. Offer(Head(out)) /\ ~paused /\ pc # "resume"
  BY DEF PacketArrives, TypeInv, PauseInv
<1>3. UNCHANGED <<hostVars, disturbed, replies, dec, cmds, pc, cmdVars, tx>>
  BY DEF PacketArrives
<1>4. PICK x \in Seq(Nat) : x = Head(out)
  BY <1>1
<1>5. /\ held' \in Seq(Nat) /\ rxBuf' \in Seq(Nat)
      /\ filling' \in BOOLEAN /\ paused' \in BOOLEAN
      /\ xfer_state' \in {"IDLE", "ACCEPTED", "DATA_READY"}
      /\ paused' => held' # <<>> \/ (paused /\ held' = <<>>)
      /\ ~misfit => /\ held' # <<>> => held' \in Transfer
                    /\ xfer_state' # "IDLE" => rxBuf' \in Transfer
  BY <1>1, <1>2, <1>4, OfferTyped
<1>6. TypeOK'
  BY <1>1, <1>3, <1>5 DEF TypeInv, TypeOK, hostVars, cmdVars
<1>7. LinkInv'
  BY <1>1, <1>3, <1>5 DEF TypeInv, LinkInv, Fits, hostVars
<1>8. PauseInv' /\ StepInv'
  BY <1>2, <1>3, <1>5 DEF TypeInv, PauseInv, StepInv, hostVars, cmdVars
<1>. QED
  BY <1>6, <1>7, <1>8 DEF TypeInv

LEMMA LinkTypeInv ==
  ASSUME TypeInv, PathInv, TransferComplete \/ ReplyFetched
  PROVE  TypeInv'
<1>1. CASE TransferComplete
  <2>1. xfer_state = "ACCEPTED"
    BY <1>1 DEF TransferComplete, PathInv, BufferInv
  <2>. QED
    BY <1>1, <2>1 DEF TransferComplete, Disturb, TypeInv, TypeOK, PauseInv, LinkInv, Fits, StepInv,
                      hostVars, cmdVars
<1>2. CASE ReplyFetched
  <2>1. replies' \in Seq(Seq(Nat)) /\ tx' = <<>>
    <3>1. replies \in Seq(Seq(Nat)) /\ tx \in Seq(Seq(Nat))
      BY DEF TypeInv, TypeOK
    <3>2. replies \o tx \in Seq(Seq(Nat))
      BY <3>1, ConcatProperties
    <3>. QED
      BY <1>2, <3>1, <3>2 DEF ReplyFetched
  <2>2. tx' \in Seq(Seq(Nat)) /\ Len(tx') <= 1
    BY <2>1
  <2>3. UNCHANGED <<hostVars, disturbed, out, usbVars, dec, cmds, pc, cmdVars>>
    BY <1>2 DEF ReplyFetched
  <2>. QED
    BY <2>1, <2>2, <2>3 DEF TypeInv, TypeOK, PauseInv, LinkInv, Fits, StepInv,
                            hostVars, usbVars, cmdVars
<1>. QED
  BY <1>1, <1>2

(* A reply, or none, is in transmission.                                   *)
LEMMA TransmitTyped ==
  ASSUME TypeInv, NEW r \in Seq(Nat), Transmit(r)
  PROVE  tx' \in Seq(Seq(Nat)) /\ Len(tx') <= 1
<1>1. <<r>> \in Seq(Seq(Nat)) /\ Len(<<r>>) = 1
  OBVIOUS
<1>2. tx' = tx \/ tx' = <<r>>
  BY DEF Transmit
<1>3. tx \in Seq(Seq(Nat)) /\ Len(tx) <= 1
  BY DEF TypeInv, TypeOK
<1>4. CASE tx' = tx
  BY <1>3, <1>4
<1>5. CASE tx' = <<r>>
  BY <1>1, <1>5
<1>. QED
  BY <1>2, <1>4, <1>5

LEMMA DecodeTypeInv ==
  ASSUME TypeInv, DecodeFrame
  PROVE  TypeInv'
<1>1. rxBuf \in Seq(Nat) /\ dec \in Decoder /\ (~misfit => rxBuf \in Transfer)
  BY DEF DecodeFrame, TypeInv, TypeOK, LinkInv
<1>2. PICK d : d = unslip(dec, rxBuf)
  OBVIOUS
<1>3. dec' = [decoding |-> d.decoding, escape |-> d.escape] /\ cmds' = d.frames
  BY <1>2 DEF DecodeFrame
<1>4. d \in State
  BY <1>1, <1>2, UnslipTyped
<1>5. dec' \in Decoder /\ cmds' \in Seq(Seq(Nat))
  BY <1>3, <1>4 DEF State, Decoder
<1>6. ASSUME ~misfit PROVE cmds' \in Seq(Commands)
  <2>1. PICK c \in Commands : d.frames = <<c>>
    BY <1>1, <1>2, <1>6, TransferFacts
  <2>2. <<c>> \in Seq(Commands)
    OBVIOUS
  <2>. QED
    BY <1>3, <2>1, <2>2
<1>7. pc' = "process" /\ UNCHANGED <<hostVars, disturbed, out, replies, usbVars, cmdVars, tx>>
  BY DEF DecodeFrame
<1>8. pc = "top"
  BY DEF DecodeFrame
<1>9. TypeOK'
  BY <1>5, <1>7 DEF TypeInv, TypeOK, hostVars, usbVars, cmdVars
<1>10. PauseInv' /\ LinkInv' /\ StepInv'
  BY <1>6, <1>7, <1>8 DEF TypeInv, PauseInv, LinkInv, Fits, StepInv, hostVars, usbVars, cmdVars
<1>. QED
  BY <1>9, <1>10 DEF TypeInv

(* program_flash: the flash holds what it can hold.                        *)
LEMMA ProgramTyped ==
  ASSUME TypeInv, NEW c,
         (c[2] \in Page /\ ProgramFlash(c[2], SubSeq(c, 4, Len(c)))) \/ ProgramAnything
  PROVE  /\ tx' \in Seq(Seq(Nat)) /\ Len(tx') <= 1 /\ disturbed' \in BOOLEAN
         /\ flash' \in [Page -> Content] /\ UNCHANGED <<erasing, erase_sector, max_erase_sector>>
<1>1. Garbage \in Content /\ flash \in [Page -> Content] /\ progLen \in Nat
  <2>1. progLen \in 0 .. Len(file) /\ Len(file) \in Nat
    BY Geometry DEF TypeInv, TypeOK
  <2>. QED
    BY <2>1 DEF Content, TypeInv, TypeOK
<1>2. Page \subseteq Nat /\ PROGRAM_ACK \in Nat
  BY DEF Page, PROGRAM_ACK
<1>3. ASSUME NEW a \in Nat, NEW ok \in {0, 1}, Transmit(<<PROGRAM_ACK, a, ok>>)
      PROVE  tx' \in Seq(Seq(Nat)) /\ Len(tx') <= 1
  <2>1. PICK r : r = <<PROGRAM_ACK, a, ok>>
    OBVIOUS
  <2>2. r \in Seq(Nat)
    BY <1>2, <2>1
  <2>. QED
    BY <1>3, <2>1, <2>2, TransmitTyped
<1>4. CASE c[2] \in Page /\ ProgramFlash(c[2], SubSeq(c, 4, Len(c)))
  <2>1. PICK d : d = SubSeq(c, 4, Len(c))
    OBVIOUS
  <2>2. PICK a \in Page : a = c[2]
    BY <1>4
  <2>3. PICK ok \in {1} \cup (IF "programFails" \in Faults THEN {0} ELSE {}) :
          /\ flash' = [flash EXCEPT ![a] = IF ok = 1 THEN Burn(@, d) ELSE Garbage]
          /\ Transmit(<<PROGRAM_ACK, a, ok>>)
          /\ Disturb(ok = 0 \/ tx # <<>>)
          /\ UNCHANGED <<erasing, erase_sector, max_erase_sector>>
    BY <1>4, <2>1, <2>2 DEF ProgramFlash
  <2>4. Burn(flash[a], d) \in Content
    BY <1>1 DEF Burn, Content
  <2>5. PICK v \in Content : flash' = [flash EXCEPT ![a] = v]
    BY <1>1, <2>3, <2>4
  <2>6. flash' \in [Page -> Content] /\ disturbed' \in BOOLEAN
    BY <1>1, <2>3, <2>5 DEF Disturb
  <2>7. ok \in {0, 1} /\ a \in Nat
    BY <1>2
  <2>8. tx' \in Seq(Seq(Nat)) /\ Len(tx') <= 1
    BY <1>3, <2>3, <2>7
  <2>. QED
    BY <2>3, <2>6, <2>8
<1>5. CASE ProgramAnything
  <2>1. PICK a \in Page \cup {progLen}, n \in 0 .. ChipPages, ok \in {0, 1} :
          /\ flash' = [p \in Page |-> IF p \in a .. a + n - 1 THEN Garbage ELSE flash[p]]
          /\ Transmit(<<PROGRAM_ACK, a, ok>>)
          /\ Disturb(TRUE)
          /\ UNCHANGED <<erasing, erase_sector, max_erase_sector>>
    BY <1>5 DEF ProgramAnything
  <2>2. flash' \in [Page -> Content] /\ disturbed' \in BOOLEAN
    BY <1>1, <2>1 DEF Disturb
  <2>3. tx' \in Seq(Seq(Nat)) /\ Len(tx') <= 1
    BY <1>1, <1>2, <1>3, <2>1
  <2>. QED
    BY <2>1, <2>2, <2>3
<1>. QED
  BY <1>4, <1>5

(* process_command, for the command c.                                     *)
LEMMA ProcessTypeInv ==
  ASSUME TypeInv, ProcessCommand
  PROVE  TypeInv'
<1>1. PICK c : c = Head(cmds)
  OBVIOUS
<1>2. cmds' \in Seq(Seq(Nat)) /\ (~misfit => cmds' \in Seq(Commands))
  BY HeadTailProperties DEF ProcessCommand, TypeInv, TypeOK, LinkInv
<1>3. UNCHANGED <<hostVars, out, replies, usbVars, dec, pc>>
  BY DEF ProcessCommand
<1>4. NOP # ERASE_APPLICATION /\ NOP # PROGRAM /\ ERASE_APPLICATION # PROGRAM
  BY DEF NOP, ERASE_APPLICATION, PROGRAM
<1>5. /\ tx' \in Seq(Seq(Nat)) /\ Len(tx') <= 1
      /\ disturbed' \in BOOLEAN /\ erasing' \in BOOLEAN
      /\ erase_sector' \in 0 .. Sectors - 1 /\ max_erase_sector' \in 0 .. Sectors - 1
      /\ flash' \in [Page -> Content]
      /\ erasing' => max_erase_sector' = LastSector
  <2>1. CASE c[1] = NOP
    <3>1. Transmit(<<NOP>>) /\ Disturb(tx # <<>>) /\ UNCHANGED cmdVars
      BY <1>1, <1>4, <2>1 DEF ProcessCommand
    <3>2. <<NOP>> \in Seq(Nat)
      <4>1. NOP \in Nat
        BY DEF NOP
      <4>. QED
        BY <4>1
    <3>3. tx' \in Seq(Seq(Nat)) /\ Len(tx') <= 1
      BY <3>1, <3>2, TransmitTyped
    <3>4. disturbed' \in BOOLEAN
      BY <3>1 DEF Disturb
    <3>. QED
      BY <3>1, <3>3, <3>4 DEF cmdVars, TypeInv, TypeOK, StepInv
  <2>2. CASE c[1] = ERASE_APPLICATION
    <3>1. /\ erase_sector' = 0 /\ max_erase_sector' = LastSector
          /\ erasing' = TRUE /\ UNCHANGED <<flash, tx, disturbed>>
      BY <1>1, <1>4, <2>2 DEF ProcessCommand
    <3>2. 0 \in 0 .. Sectors - 1 /\ LastSector \in 0 .. Sectors - 1
      BY Geometry DEF LastSector
    <3>. QED
      BY <3>1, <3>2 DEF TypeInv, TypeOK
  <2>3. CASE c[1] = PROGRAM
    <3>1. (c[2] \in Page /\ ProgramFlash(c[2], SubSeq(c, 4, Len(c)))) \/ ProgramAnything
      BY <1>1, <1>4, <2>3 DEF ProcessCommand
    <3>2. /\ tx' \in Seq(Seq(Nat)) /\ Len(tx') <= 1 /\ disturbed' \in BOOLEAN
          /\ flash' \in [Page -> Content] /\ UNCHANGED <<erasing, erase_sector, max_erase_sector>>
      BY <3>1, ProgramTyped
    <3>. QED
      BY <3>2 DEF TypeInv, TypeOK, StepInv
  <2>4. CASE c[1] \notin {NOP, ERASE_APPLICATION, PROGRAM}
    <3>1. UNCHANGED <<cmdVars, tx, disturbed>>
      BY <1>1, <2>4 DEF ProcessCommand
    <3>. QED
      BY <3>1 DEF cmdVars, TypeInv, TypeOK, StepInv
  <2>. QED
    BY <2>1, <2>2, <2>3, <2>4
<1>6. TypeOK'
  BY <1>2, <1>3, <1>5 DEF TypeInv, TypeOK, hostVars, usbVars
<1>7. PauseInv' /\ LinkInv' /\ StepInv'
  BY <1>2, <1>3, <1>5 DEF TypeInv, PauseInv, LinkInv, Fits, StepInv, hostVars, usbVars
<1>. QED
  BY <1>6, <1>7 DEF TypeInv

LEMMA ResumeTypeInv ==
  ASSUME TypeInv, Resume
  PROVE  TypeInv'
<1>1. Offer(held) /\ pc' = "erase" /\ ~paused
  BY DEF Resume, TypeInv, PauseInv
<1>2. UNCHANGED <<hostVars, disturbed, out, replies, dec, cmds, cmdVars, tx>>
  BY DEF Resume
<1>3. PICK x \in Seq(Nat) : x = held /\ x # <<>> /\ (~misfit => x \in Transfer)
  BY DEF Resume, TypeInv, TypeOK, PauseInv, LinkInv
<1>4. /\ held' \in Seq(Nat) /\ rxBuf' \in Seq(Nat)
      /\ filling' \in BOOLEAN /\ paused' \in BOOLEAN
      /\ xfer_state' \in {"IDLE", "ACCEPTED", "DATA_READY"}
      /\ paused' => held' # <<>> \/ (paused /\ held' = <<>>)
      /\ ~misfit => /\ held' # <<>> => held' \in Transfer
                    /\ xfer_state' # "IDLE" => rxBuf' \in Transfer
  BY <1>1, <1>3, OfferTyped
<1>5. TypeOK'
  BY <1>1, <1>2, <1>4 DEF TypeInv, TypeOK, hostVars, cmdVars
<1>6. PauseInv' /\ LinkInv' /\ StepInv'
  BY <1>1, <1>2, <1>4 DEF TypeInv, PauseInv, LinkInv, Fits, StepInv, hostVars, cmdVars
<1>. QED
  BY <1>5, <1>6 DEF TypeInv

LEMMA EraseTypeInv ==
  ASSUME TypeInv, EraseSector
  PROVE  TypeInv'
<1>1. UNCHANGED <<hostVars, out, replies, usbVars, dec, cmds>> /\ pc' = "top" /\ erasing
  BY DEF EraseSector
<1>2. tx' \in Seq(Seq(Nat)) /\ Len(tx') <= 1
  <2>1. ERASE_STATUS \in Nat /\ erase_sector \in Nat /\ max_erase_sector \in Nat
    BY Geometry DEF ERASE_STATUS, TypeInv, TypeOK
  <2>2. <<ERASE_STATUS, erase_sector, max_erase_sector>> \in Seq(Nat)
    BY <2>1
  <2>. QED
    BY <2>2, TransmitTyped DEF EraseSector
<1>3. flash' \in [Page -> Content] /\ disturbed' \in BOOLEAN
  <2>1. Blank \in Content /\ flash \in [Page -> Content]
    BY DEF Content, TypeInv, TypeOK
  <2>. QED
    BY <2>1 DEF EraseSector, Disturb
<1>4. /\ erasing' \in BOOLEAN /\ erase_sector' \in 0 .. Sectors - 1
      /\ max_erase_sector' \in 0 .. Sectors - 1
      /\ erasing' => max_erase_sector' = LastSector
  <2>1. /\ erase_sector \in 0 .. Sectors - 1 /\ Sectors \in Nat /\ Sectors > 0
        /\ max_erase_sector = Sectors - 1 /\ max_erase_sector = LastSector
    BY <1>1, Geometry DEF TypeInv, TypeOK, StepInv, LastSector
  <2>2. CASE erase_sector = max_erase_sector
    <3>1. erasing' = FALSE /\ erase_sector' = 0 /\ max_erase_sector' = 0
      BY <2>2 DEF EraseSector
    <3>2. 0 \in 0 .. Sectors - 1
      BY <2>1
    <3>. QED
      BY <3>1, <3>2
  <2>3. CASE erase_sector # max_erase_sector
    <3>1. erase_sector' = erase_sector + 1 /\ UNCHANGED <<erasing, max_erase_sector>>
      BY <2>3 DEF EraseSector
    <3>. QED
      BY <1>1, <2>1, <2>3, <3>1
  <2>. QED
    BY <2>2, <2>3
<1>5. TypeOK'
  BY <1>1, <1>2, <1>3, <1>4 DEF TypeInv, TypeOK, hostVars, usbVars
<1>6. PauseInv' /\ LinkInv' /\ StepInv'
  <2>1. pc = "erase"
    BY DEF EraseSector
  <2>. QED
    BY <1>1, <1>4, <2>1 DEF TypeInv, PauseInv, LinkInv, Fits, StepInv, hostVars, usbVars
<1>. QED
  BY <1>5, <1>6 DEF TypeInv

LEMMA MainLoopTypeInv ==
  ASSUME TypeInv, MainLoop
  PROVE  TypeInv'
<1>1. CASE NoData \/ NothingToErase
  <2>1. /\ UNCHANGED <<hostVars, disturbed, out, replies, usbVars, dec, cmds, cmdVars, tx>>
        /\ pc' \in {"top", "erase"}
    BY <1>1 DEF NoData, NothingToErase
  <2>. QED
    BY <2>1 DEF TypeInv, TypeOK, PauseInv, LinkInv, Fits, StepInv,
                            hostVars, usbVars, cmdVars
<1>2. CASE Release
  BY <1>2 DEF Release, TypeInv, TypeOK, PauseInv, LinkInv, Fits, StepInv, hostVars, cmdVars
<1>3. CASE Unpause
  BY <1>3 DEF Unpause, TypeInv, TypeOK, PauseInv, LinkInv, Fits, StepInv, hostVars, cmdVars
<1>. QED
  BY <1>1, <1>2, <1>3, DecodeTypeInv, ProcessTypeInv, ResumeTypeInv, EraseTypeInv DEF MainLoop

LEMMA StepTypeInv == TypeInv /\ PathInv /\ [Next]_vars => TypeInv'
<1>. SUFFICES ASSUME TypeInv, PathInv, [Next]_vars PROVE TypeInv'
  OBVIOUS
<1>1. CASE UNCHANGED vars
  BY <1>1 DEF vars, hostVars, usbVars, cmdVars, TypeInv, TypeOK, PauseInv, LinkInv, Fits, StepInv
<1>2. CASE Next
  BY <1>2, StartTypeInv, ReceiveTypeInv, GiveUpTypeInv, PacketTypeInv, LinkTypeInv,
     MainLoopTypeInv DEF Next
<1>. QED
  BY <1>1, <1>2

LEMMA TypeInvariance == Spec => []TypeInv
<1>. QED
  BY InitTypeInv, StepTypeInv, PathInvariance, PTL DEF Spec

(* Type correctness, for any flash, any files, also of more pages than the *)
(* flash has and of pages too long for a buffer, any faults and any number *)
(* of restarts: in particular every reply that the device sends is one of  *)
(* numbers, and it erases the application's sectors only.                  *)
THEOREM TypeCorrect == Spec => []TypeOK
<1>1. TypeInv => TypeOK
  BY DEF TypeInv
<1>. QED
  BY <1>1, TypeInvariance, PTL

(* However often the tool is ended and started again and whatever goes     *)
(* wrong on the link: as long as all that it has been given since it last  *)
(* found the device quiet are files whose pages, stuffed, go into one      *)
(* buffer, the device decodes every transfer as the one command that the   *)
(* tool has put into it, whatever bytes the pages hold and wherever files  *)
(* that did not fit have left the decoder.                                 *)
THEOREM CommandsAreUnderstood == Spec => []CommandsUnderstood
<1>1. TypeInv => CommandsUnderstood
  <2>. SUFFICES ASSUME TypeInv, ~misfit, NEW i \in DOMAIN Coming
                PROVE  unslip(dec, Coming[i]).frames \in {<<c>> : c \in Commands}
    BY DEF CommandsUnderstood
  <2>1. dec \in Decoder /\ out \in Seq(Transfer)
    BY DEF TypeInv, TypeOK, LinkInv
  <2>2. PICK a : a = IF xfer_state # "IDLE" /\ pc # "process" THEN <<rxBuf>> ELSE <<>>
    OBVIOUS
  <2>3. PICK b : b = IF held # <<>> THEN <<held>> ELSE <<>>
    OBVIOUS
  <2>4. a \in Seq(Transfer) /\ b \in Seq(Transfer)
    BY <2>2, <2>3 DEF TypeInv, LinkInv
  <2>5. a \o b \in Seq(Transfer)
    BY <2>4, ConcatProperties
  <2>6. (a \o b) \o out \in Seq(Transfer)
    BY <2>1, <2>5, ConcatProperties
  <2>7. Coming \in Seq(Transfer)
    BY <2>2, <2>3, <2>6 DEF Coming
  <2>8. Coming[i] \in Transfer
    BY <2>7, LenProperties, ElementOfSeq
  <2>. QED
    BY <2>1, <2>8, TransferFacts
<1>. QED
  BY <1>1, TypeInvariance, PTL

-----------------------------------------------------------------------------
(* A run that has found the device quiet: hasty is zero until the tool is  *)
(* started on a busy device again.  Its file fits.                         *)

(* Where the run's command can be, from when the tool sends it until the   *)
(* device processes it: nowhere, or in one place.                          *)
Unseen == xfer_state # "IDLE" /\ pc # "process"

NoCommand == out = <<>> /\ held = <<>> /\ ~Unseen /\ cmds = <<>>

OneCommand(c) ==
  \/ out = <<slip(c)>> /\ held = <<>> /\ ~Unseen /\ cmds = <<>>
  \/ out = <<>> /\ held = slip(c) /\ ~Unseen /\ cmds = <<>>
  \/ out = <<>> /\ held = <<>> /\ Unseen /\ rxBuf = slip(c) /\ cmds = <<>>
  \/ out = <<>> /\ held = <<>> /\ ~Unseen /\ cmds = <<c>>

NoReply == replies = <<>> /\ tx = <<>>

(* The one reply is r.                                                     *)
ReplyIs(r) == \/ replies = <<r>> /\ tx = <<>>
              \/ replies = <<>> /\ tx = <<r>>

(* Messages about sectors before the last, and that about the last.        *)
Interim(s) == \A i \in DOMAIN s : \E k \in 0 .. LastSector - 1 :
                s[i] = <<ERASE_STATUS, k, LastSector>>
Final == <<ERASE_STATUS, LastSector, LastSector>>

Wiped(p) == flash[p] = Blank
ErasedTo(n) == \A p \in 0 .. NumPages - 1 : p \div PagesPerSector < n => Wiped(p)
Written(n) == \A p \in 0 .. n - 1 : flash[p] = file[p + 1]
BlankFrom(n) == \A p \in 0 .. NumPages - 1 : p >= n => Wiped(p)

NopInv == ~erasing /\ \/ OneCommand(<<NOP>>) /\ NoReply
                      \/ NoCommand /\ (NoReply \/ ReplyIs(<<NOP>>))

(* The sectors that have been reported are blank, and the report about the *)
(* last one is the last report.                                            *)
EraseInv ==
  \/ OneCommand(<<ERASE_APPLICATION>>) /\ ~erasing /\ NoReply
  \/ /\ NoCommand /\ erasing /\ ErasedTo(erase_sector)
     /\ Interim(replies) /\ Interim(tx)
  \/ /\ NoCommand /\ ~erasing /\ ErasedTo(Sectors)
     /\ \/ Interim(replies) /\ (Interim(tx) \/ tx = <<Final>>)
        \/ tx = <<>> /\ \E s \in Seq(Seq(Nat)) : Interim(s) /\ replies = Append(s, Final)

ProgramInv ==
  /\ ~erasing /\ Written(progLen) /\ BlankFrom(progLen + 1)
  /\ \/ OneCommand(ProgramFrame(progLen, file[progLen + 1])) /\ NoReply /\ Wiped(progLen)
     \/ /\ NoCommand
        /\ \/ NoReply
           \/ ReplyIs(<<PROGRAM_ACK, progLen, 0>>)
           \/ ReplyIs(<<PROGRAM_ACK, progLen, 1>>) /\ Written(progLen + 1)

SuccessInv == NoCommand /\ ~erasing /\ Written(Len(file))

RunInv == /\ host = "nop" => NopInv
          /\ host = "erase" => EraseInv
          /\ host = "program" => ProgramInv
          /\ host = "success" => SuccessInv

AloneInv == hasty = 0 /\ ~misfit => RunInv

(* Steps that only move a command along, or nothing.                       *)
Carries == \/ PacketArrives \/ TransferComplete \/ DecodeFrame \/ NoData
           \/ Release \/ Unpause \/ Resume \/ NothingToErase

(* The command stays the only one, and where there is none there stays     *)
(* none, until the tool sends or the device processes one.                 *)
LEMMA CommandCarried ==
  ASSUME TypeInv, PathInv, Carries \/ EraseSector \/ ReplyFetched, NEW c \in Commands
  PROVE  /\ NoCommand => NoCommand'
         /\ OneCommand(c) => OneCommand(c)'
<1>. DEFINE Claim == (NoCommand => NoCommand') /\ (OneCommand(c) => OneCommand(c)')
<1>1. PICK x : x = slip(c)
  OBVIOUS
<1>2. x # <<>>
  BY <1>1, TransferMade
<1>3. /\ filling => xfer_state = "ACCEPTED"
      /\ pc = "process" => xfer_state = "DATA_READY"
  BY DEF PathInv, BufferInv
<1>4. CASE PacketArrives
  <2>1. /\ out # <<>> /\ held = <<>> /\ out' = Tail(out) /\ Offer(Head(out))
        /\ UNCHANGED <<cmds, pc>>
    BY <1>4 DEF PacketArrives
  <2>2. SUFFICES ASSUME OneCommand(c) PROVE OneCommand(c)'
    BY <2>1 DEF NoCommand
  <2>3. out = <<x>> /\ held = <<>> /\ ~Unseen /\ cmds = <<>>
    BY <1>1, <2>1, <2>2 DEF OneCommand
  <2>4. Head(out) = x /\ out' = <<>>
    BY <2>1, <2>3
  <2>5. CASE xfer_state = "IDLE"
    <3>1. rxBuf' = x /\ xfer_state' = "ACCEPTED" /\ held' = <<>>
      BY <2>1, <2>4, <2>5 DEF Offer
    <3>2. pc # "process"
      BY <1>3, <2>5
    <3>3. Unseen'
      BY <2>1, <3>1, <3>2 DEF Unseen
    <3>. QED
      BY <1>1, <2>1, <2>3, <2>4, <3>1, <3>3 DEF OneCommand
  <2>6. CASE xfer_state # "IDLE"
    <3>1. held' = x /\ UNCHANGED xfer_state
      BY <2>1, <2>4, <2>6 DEF Offer
    <3>2. ~Unseen'
      BY <2>1, <2>3, <3>1 DEF Unseen
    <3>. QED
      BY <1>1, <2>1, <2>3, <2>4, <3>1, <3>2 DEF OneCommand
  <2>. QED
    BY <2>5, <2>6
<1>5. CASE TransferComplete
  <2>1. /\ xfer_state = "ACCEPTED" /\ xfer_state' \in {"DATA_READY", "ACCEPTED"}
        /\ UNCHANGED <<out, held, rxBuf, cmds, pc>>
    BY <1>3, <1>5 DEF TransferComplete
  <2>2. Unseen' <=> Unseen
    BY <2>1 DEF Unseen
  <2>. QED
    BY <2>1, <2>2 DEF NoCommand, OneCommand
<1>6. CASE DecodeFrame
  <2>1. Unseen /\ pc' = "process" /\ UNCHANGED <<out, held>>
    BY <1>6 DEF DecodeFrame, Unseen, usbVars
  <2>2. SUFFICES ASSUME OneCommand(c) PROVE OneCommand(c)'
    BY <2>1 DEF NoCommand
  <2>3. out = <<>> /\ held = <<>> /\ rxBuf = slip(c)
    BY <2>1, <2>2 DEF OneCommand
  <2>4. PICK d : d = unslip(dec, slip(c))
    OBVIOUS
  <2>5. cmds' = d.frames /\ dec \in Decoder
    BY <1>6, <2>3, <2>4 DEF DecodeFrame, TypeInv, TypeOK
  <2>6. cmds' = <<c>> /\ ~Unseen'
    BY <2>1, <2>4, <2>5, DecodesTo DEF Unseen
  <2>. QED
    BY <2>1, <2>3, <2>6 DEF OneCommand
<1>7. CASE Release
  <2>1. ~Unseen /\ ~Unseen' /\ UNCHANGED <<out, held, cmds>>
    BY <1>7 DEF Release, Unseen
  <2>. QED
    BY <2>1 DEF NoCommand, OneCommand
<1>8. CASE Resume
  <2>1. pc = "resume" /\ held # <<>> /\ Offer(held) /\ pc' = "erase" /\ UNCHANGED <<out, cmds>>
    BY <1>8 DEF Resume, TypeInv, PauseInv
  <2>2. SUFFICES ASSUME OneCommand(c) PROVE OneCommand(c)'
    BY <2>1 DEF NoCommand
  <2>3. out = <<>> /\ held = x /\ ~Unseen /\ cmds = <<>>
    BY <1>1, <2>1, <2>2 DEF OneCommand
  <2>4. xfer_state = "IDLE"
    BY <2>1, <2>3 DEF Unseen
  <2>5. rxBuf' = x /\ xfer_state' = "ACCEPTED" /\ held' = <<>>
    BY <2>1, <2>3, <2>4 DEF Offer
  <2>6. Unseen'
    BY <2>1, <2>5 DEF Unseen
  <2>. QED
    BY <1>1, <2>1, <2>3, <2>5, <2>6 DEF OneCommand
<1>9. CASE NoData \/ Unpause \/ NothingToErase \/ EraseSector \/ ReplyFetched
  <2>1. /\ UNCHANGED <<out, held, rxBuf, xfer_state, cmds>>
        /\ (pc # "process" /\ pc' # "process") \/ pc' = pc
    BY <1>9 DEF NoData, Unpause, NothingToErase, EraseSector, ReplyFetched, usbVars
  <2>2. Unseen' <=> Unseen
    BY <2>1 DEF Unseen
  <2>. QED
    BY <2>1, <2>2 DEF NoCommand, OneCommand
<1>. QED
  BY <1>4, <1>5, <1>6, <1>7, <1>8, <1>9 DEF Carries

(* The page that is programmed, of a file that fits.                       *)
LEMMA PageFacts ==
  ASSUME TypeInv, ~misfit
  PROVE  /\ progLen \in Nat /\ Len(file) \in Nat /\ file \in Files /\ Fits(file)
         /\ Len(file) <= NumPages
         /\ progLen < Len(file) => /\ progLen \in Page /\ progLen \in 0 .. NumPages - 1
                                   /\ ProgramFrame(progLen, file[progLen + 1]) \in Commands
<1>1. /\ file \in Files /\ Len(file) \in Nat /\ Fits(file) /\ Len(file) <= NumPages
      /\ progLen \in 0 .. Len(file)
  BY Geometry DEF TypeInv, TypeOK, LinkInv, Fits
<1>2. NumPages \in Nat /\ ChipPages \in Nat /\ NumPages <= ChipPages
  BY Geometry
<1>3. progLen < Len(file) => progLen \in Page /\ progLen \in 0 .. NumPages - 1
  BY <1>1, <1>2 DEF Page
<1>4. progLen < Len(file) => ProgramFrame(progLen, file[progLen + 1]) \in Commands
  BY <1>1, PageCommand
<1>. QED
  BY <1>1, <1>3, <1>4

LEMMA InterimTyped ==
  ASSUME NEW s \in Seq(Seq(Nat)), NEW t \in Seq(Seq(Nat)), Interim(s), Interim(t)
  PROVE  Interim(s \o t)
<1>1. PICK u : u = s \o t
  OBVIOUS
<1>2. /\ DOMAIN u = 1 .. Len(s) + Len(t)
      /\ \A i \in 1 .. Len(s) : u[i] = s[i]
      /\ \A i \in 1 .. Len(t) : u[Len(s) + i] = t[i]
      /\ Len(s) \in Nat /\ Len(t) \in Nat /\ DOMAIN s = 1 .. Len(s) /\ DOMAIN t = 1 .. Len(t)
  BY <1>1, ConcatProperties, LenProperties
<1>3. ASSUME NEW i \in DOMAIN u
      PROVE  (i \in DOMAIN s /\ u[i] = s[i]) \/ \E j \in DOMAIN t : u[i] = t[j]
  <2>1. i \in Nat /\ i >= 1 /\ i <= Len(s) + Len(t)
    BY <1>2
  <2>2. CASE i <= Len(s)
    BY <1>2, <2>1, <2>2
  <2>3. CASE i > Len(s)
    <3>1. i - Len(s) \in 1 .. Len(t) /\ Len(s) + (i - Len(s)) = i
      BY <1>2, <2>1, <2>3
    <3>. QED
      BY <1>2, <3>1
  <2>. QED
    BY <1>2, <2>1, <2>2, <2>3
<1>4. Interim(u)
  BY <1>3 DEF Interim
<1>. QED
  BY <1>1, <1>4

LEMMA CarryKeepsRun ==
  ASSUME TypeInv, PathInv, Carries, ~misfit, RunInv
  PROVE  RunInv'
<1>1. UNCHANGED <<host, file, progLen, erasing, erase_sector, flash, replies, tx>>
  BY DEF Carries, PacketArrives, TransferComplete, DecodeFrame, NoData, Release, Unpause,
         Resume, NothingToErase, hostVars, cmdVars
<1>2. NoCommand => NoCommand'
  BY CommandCarried, ConstantCommands
<1>3. /\ OneCommand(<<NOP>>) => OneCommand(<<NOP>>)'
      /\ OneCommand(<<ERASE_APPLICATION>>) => OneCommand(<<ERASE_APPLICATION>>)'
  BY CommandCarried, ConstantCommands
<1>4. host = "nop" => NopInv'
  BY <1>1, <1>2, <1>3 DEF RunInv, NopInv, NoReply, ReplyIs
<1>5. host = "erase" => EraseInv'
  BY <1>1, <1>2, <1>3 DEF RunInv, EraseInv, NoReply, Interim, ErasedTo, Wiped
<1>6. host = "program" => ProgramInv'
  <2>. SUFFICES ASSUME host = "program" PROVE ProgramInv'
    OBVIOUS
  <2>1. ProgramInv /\ progLen < Len(file)
    BY DEF RunInv, TypeInv, StepInv
  <2>2. PICK c \in Commands : c = ProgramFrame(progLen, file[progLen + 1])
    BY <2>1, PageFacts
  <2>3. OneCommand(c) => OneCommand(c)'
    BY CommandCarried
  <2>4. c = ProgramFrame(progLen', file'[progLen' + 1])
    BY <1>1, <2>2
  <2>5. OneCommand(ProgramFrame(progLen, file[progLen + 1])) =>
          OneCommand(ProgramFrame(progLen, file[progLen + 1]))'
    BY <2>2, <2>3, <2>4 DEF OneCommand
  <2>6. Written(progLen)' /\ BlankFrom(progLen + 1)' /\ (Wiped(progLen) => Wiped(progLen)')
        /\ (Written(progLen + 1) => Written(progLen + 1)')
    BY <1>1, <2>1 DEF ProgramInv, Written, BlankFrom, Wiped
  <2>. QED
    BY <1>1, <1>2, <2>1, <2>5, <2>6 DEF ProgramInv, NoReply, ReplyIs
<1>7. host = "success" => SuccessInv'
  BY <1>1, <1>2 DEF RunInv, SuccessInv, Written
<1>. QED
  BY <1>1, <1>4, <1>5, <1>6, <1>7 DEF RunInv

LEMMA FetchKeepsRun ==
  ASSUME TypeInv, PathInv, ReplyFetched, RunInv
  PROVE  RunInv'
<1>1. /\ UNCHANGED <<host, file, progLen, erasing, erase_sector, flash>>
      /\ tx # <<>> /\ tx' = <<>>
  BY DEF ReplyFetched, hostVars, cmdVars
<1>2. replies \in Seq(Seq(Nat)) /\ tx \in Seq(Seq(Nat))
  BY DEF TypeInv, TypeOK
<1>3. NoCommand => NoCommand'
  BY CommandCarried, ConstantCommands
<1>4. ASSUME NEW r, ReplyIs(r), Running PROVE replies' = <<r>>
  <2>1. replies = <<>> /\ tx = <<r>>
    BY <1>1, <1>4 DEF ReplyIs
  <2>2. replies' = <<>> \o <<r>>
    BY <1>4, <2>1 DEF ReplyFetched
  <2>. QED
    BY <2>2
<1>5. host = "nop" => NopInv'
  BY <1>1, <1>3, <1>4 DEF RunInv, NopInv, NoReply, ReplyIs, Running
<1>6. host = "erase" => EraseInv'
  <2>. SUFFICES ASSUME host = "erase" PROVE EraseInv'
    OBVIOUS
  <2>1. EraseInv /\ NoCommand'
    BY <1>1, <1>3 DEF RunInv, EraseInv, NoReply
  <2>2. replies' = replies \o tx
    BY DEF ReplyFetched, Running
  <2>3. ErasedTo(erase_sector) => ErasedTo(erase_sector)'
    BY <1>1 DEF ErasedTo, Wiped
  <2>4. ErasedTo(Sectors) => ErasedTo(Sectors)'
    BY <1>1 DEF ErasedTo, Wiped
  <2>5. Interim(tx')
    BY <1>1 DEF Interim
  <2>6. CASE Interim(replies) /\ Interim(tx)
    <3>1. Interim(replies')
      BY <1>2, <2>2, <2>6, InterimTyped
    <3>. QED
      BY <1>1, <2>1, <2>3, <2>4, <2>5, <2>6, <3>1 DEF EraseInv, NoReply
  <2>7. CASE Interim(replies) /\ tx = <<Final>> /\ ~erasing /\ ErasedTo(Sectors)
    <3>1. replies' = Append(replies, Final)
      BY <1>2, <2>2, <2>7
    <3>. QED
      BY <1>1, <1>2, <2>1, <2>4, <2>7, <3>1 DEF EraseInv
  <2>. QED
    BY <1>1, <2>1, <2>6, <2>7 DEF EraseInv, NoReply
<1>7. host = "program" => ProgramInv'
  <2>. SUFFICES ASSUME host = "program" PROVE ProgramInv'
    OBVIOUS
  <2>1. ProgramInv /\ NoCommand'
    BY <1>1, <1>3 DEF RunInv, ProgramInv, NoReply
  <2>2. Written(progLen)' /\ BlankFrom(progLen + 1)'
        /\ (Written(progLen + 1) => Written(progLen + 1)')
    BY <1>1, <2>1 DEF ProgramInv, Written, BlankFrom, Wiped
  <2>3. Running
    BY DEF Running
  <2>4. PICK bad, good : bad = <<PROGRAM_ACK, progLen, 0>> /\ good = <<PROGRAM_ACK, progLen, 1>>
    OBVIOUS
  <2>5. ReplyIs(bad) \/ (ReplyIs(good) /\ Written(progLen + 1))
    BY <1>1, <2>1, <2>4 DEF ProgramInv, NoReply
  <2>6. replies' = <<bad>> \/ (replies' = <<good>> /\ Written(progLen + 1))
    BY <1>4, <2>3, <2>5
  <2>. QED
    BY <1>1, <2>1, <2>2, <2>4, <2>6 DEF ProgramInv, ReplyIs
<1>8. host = "success" => SuccessInv'
  BY <1>1, <1>3 DEF RunInv, SuccessInv, Written
<1>. QED
  BY <1>1, <1>5, <1>6, <1>7, <1>8 DEF RunInv

(* A sector, and the pages before it: n sectors more are n + 1.            *)
LEMMA SectorOf ==
  ASSUME NEW p \in 0 .. NumPages - 1
  PROVE  /\ p \in Page /\ p \div PagesPerSector \in Nat
         /\ p \div PagesPerSector < Sectors
<1>1. PICK q \in Nat, s \in Nat : q = PagesPerSector /\ s = Sectors /\ q > 0
  BY Geometry
<1>2. p \in Nat /\ p < s * q /\ p \in Page
  BY <1>1, Geometry DEF Page, NumPages
<1>3. p \div q \in Nat /\ p \div q < s
  BY <1>1, <1>2
<1>. QED
  BY <1>1, <1>2, <1>3

LEMMA EraseKeepsRun ==
  ASSUME "eraseFails" \notin Faults, TypeInv, PathInv, EraseSector, RunInv
  PROVE  RunInv'
<1>1. UNCHANGED <<host, file, progLen, replies>> /\ erasing
  BY DEF EraseSector, hostVars
<1>2. CASE host # "erase"
  BY <1>1, <1>2 DEF RunInv, NopInv, ProgramInv, SuccessInv
<1>3. CASE host = "erase"
  <2>1. EraseInv /\ NoCommand /\ ErasedTo(erase_sector) /\ Interim(replies) /\ Interim(tx)
    BY <1>1, <1>3 DEF RunInv, EraseInv
  <2>2. NoCommand'
    BY <2>1, CommandCarried, ConstantCommands
  <2>3. /\ erase_sector \in Nat /\ LastSector \in Nat /\ Sectors = LastSector + 1
        /\ max_erase_sector = LastSector /\ erase_sector <= LastSector
        /\ tx \in Seq(Seq(Nat))
    BY <1>1, Geometry DEF TypeInv, TypeOK, StepInv, LastSector
  <2>4. PICK n \in Nat : n = erase_sector + 1
    BY <2>3
  <2>5. ErasedTo(n)'
    <3>1. flash' = [p \in Page |-> IF p \div PagesPerSector = erase_sector
                                   THEN Blank ELSE flash[p]]
      BY DEF EraseSector
    <3>2. ASSUME NEW p \in 0 .. NumPages - 1, p \div PagesPerSector < n
          PROVE  flash'[p] = Blank
      <4>1. PICK k \in Nat : k = p \div PagesPerSector
        BY SectorOf
      <4>2. k = erase_sector \/ k < erase_sector
        BY <2>3, <2>4, <3>2, <4>1
      <4>3. p \in Page
        BY SectorOf
      <4>. QED
        BY <2>1, <3>1, <4>1, <4>2, <4>3 DEF ErasedTo, Wiped
    <3>. QED
      BY <3>2 DEF ErasedTo, Wiped
  <2>6. PICK r : r = <<ERASE_STATUS, erase_sector, LastSector>>
    OBVIOUS
  <2>7. tx' = tx \/ tx' = <<r>>
    BY <2>3, <2>6 DEF EraseSector, Transmit
  <2>8. CASE erase_sector # LastSector
    <3>1. erase_sector' = n /\ erasing'
      BY <1>1, <2>3, <2>4, <2>8 DEF EraseSector
    <3>2. erase_sector \in 0 .. LastSector - 1
      BY <2>3, <2>8
    <3>3. Interim(<<r>>)
      BY <2>6, <3>2 DEF Interim
    <3>4. Interim(tx)' /\ Interim(replies)'
      BY <1>1, <2>1, <2>7, <3>3 DEF Interim
    <3>5. ErasedTo(erase_sector)'
      BY <2>5, <3>1 DEF ErasedTo, Wiped
    <3>. QED
      BY <1>1, <1>3, <2>2, <3>1, <3>4, <3>5 DEF RunInv, EraseInv
  <2>9. CASE erase_sector = LastSector
    <3>1. ~erasing' /\ n = Sectors /\ r = Final
      BY <2>3, <2>4, <2>6, <2>9 DEF EraseSector, Final
    <3>2. ErasedTo(Sectors)'
      BY <2>5, <3>1 DEF ErasedTo, Wiped
    <3>3. Interim(replies)' /\ (Interim(tx)' \/ tx' = <<Final>>)
      BY <1>1, <2>1, <2>7, <3>1 DEF Interim
    <3>. QED
      BY <1>1, <1>3, <2>2, <3>1, <3>2, <3>3 DEF RunInv, EraseInv, Final
  <2>. QED
    BY <2>8, <2>9
<1>. QED
  BY <1>2, <1>3

(* The one command is processed.                                           *)
LEMMA CommandProcessed ==
  ASSUME ProcessCommand, NEW c, OneCommand(c)
  PROVE  Head(cmds) = c /\ NoCommand'
<1>1. cmds = <<c>> /\ out = <<>> /\ held = <<>> /\ ~Unseen
  BY DEF ProcessCommand, OneCommand
<1>2. cmds' = <<>> /\ UNCHANGED <<out, held, xfer_state, pc>>
  BY <1>1 DEF ProcessCommand, usbVars
<1>. QED
  BY <1>1, <1>2 DEF NoCommand, Unseen

LEMMA ProcessKeepsRun ==
  ASSUME TypeInv, ProcessCommand, ~misfit, RunInv
  PROVE  RunInv'
<1>1. UNCHANGED <<host, file, progLen, replies>> /\ ~NoCommand
  BY DEF ProcessCommand, hostVars, NoCommand
<1>2. NOP # ERASE_APPLICATION /\ NOP # PROGRAM /\ ERASE_APPLICATION # PROGRAM
  BY DEF NOP, ERASE_APPLICATION, PROGRAM
<1>3. ASSUME host = "nop" PROVE NopInv'
  <2>1. OneCommand(<<NOP>>) /\ NoReply /\ ~erasing
    BY <1>1, <1>3 DEF RunInv, NopInv
  <2>2. PICK c : c = <<NOP>>
    OBVIOUS
  <2>3. Head(cmds) = c /\ NoCommand' /\ c[1] = NOP
    BY <2>1, <2>2, CommandProcessed
  <2>4. Transmit(<<NOP>>) /\ UNCHANGED cmdVars
    BY <1>2, <2>3 DEF ProcessCommand
  <2>5. tx' = <<<<NOP>>>> /\ replies' = <<>> /\ ~erasing'
    BY <1>1, <2>1, <2>4 DEF Transmit, NoReply, cmdVars
  <2>. QED
    BY <2>3, <2>5 DEF NopInv, ReplyIs
<1>4. ASSUME host = "erase" PROVE EraseInv'
  <2>1. OneCommand(<<ERASE_APPLICATION>>) /\ NoReply
    BY <1>1, <1>4 DEF RunInv, EraseInv
  <2>2. PICK c : c = <<ERASE_APPLICATION>>
    OBVIOUS
  <2>3. Head(cmds) = c /\ NoCommand' /\ c[1] = ERASE_APPLICATION
    BY <2>1, <2>2, CommandProcessed
  <2>4. erase_sector' = 0 /\ erasing' /\ UNCHANGED tx
    BY <1>2, <2>3 DEF ProcessCommand
  <2>5. ASSUME NEW p \in 0 .. NumPages - 1 PROVE ~(p \div PagesPerSector < 0)
    BY SectorOf
  <2>6. ErasedTo(erase_sector)'
    BY <2>4, <2>5 DEF ErasedTo
  <2>7. Interim(replies)' /\ Interim(tx)'
    BY <1>1, <2>1, <2>4 DEF NoReply, Interim
  <2>. QED
    BY <2>3, <2>4, <2>6, <2>7 DEF EraseInv
<1>5. ASSUME host = "program" PROVE ProgramInv'
  <2>1. /\ OneCommand(ProgramFrame(progLen, file[progLen + 1])) /\ NoReply /\ Wiped(progLen)
        /\ ~erasing /\ Written(progLen) /\ BlankFrom(progLen + 1) /\ progLen < Len(file)
    BY <1>1, <1>5 DEF RunInv, ProgramInv, TypeInv, StepInv
  <2>2. /\ progLen \in Nat /\ progLen \in Page /\ progLen \in 0 .. NumPages - 1
        /\ Len(file) \in Nat /\ Len(file) <= NumPages /\ NumPages \in Nat
        /\ NumPages <= ChipPages /\ ChipPages \in Nat
        /\ file \in Files /\ progLen + 1 \in DOMAIN file
    BY <2>1, PageFacts, Geometry
  <2>3. PICK n, v : n = progLen /\ v = file[progLen + 1]
    OBVIOUS
  <2>4. PICK c : c = ProgramFrame(n, v)
    OBVIOUS
  <2>5. /\ Whole(c) /\ c[1] = PROGRAM /\ c[2] = n /\ SubSeq(c, 4, Len(c)) = v
        /\ v \in Value
    <3>1. PICK i \in DOMAIN file : i = progLen + 1
      BY <2>2
    <3>2. c = ProgramFrame(i - 1, file[i]) /\ i - 1 = n /\ file[i] = v
      BY <2>2, <2>3, <2>4, <3>1
    <3>3. v \in Value
      BY <2>2, <3>2 DEF Value
    <3>4. /\ Whole(c) /\ c[1] = PROGRAM /\ c[2] = i - 1 /\ SubSeq(c, 4, Len(c)) = file[i]
      <4>1. PICK f \in Files : f = file
        BY <2>2
      <4>2. PICK j \in DOMAIN f : j = i
        BY <4>1
      <4>3. c = ProgramFrame(j - 1, f[j])
        BY <3>2, <4>1, <4>2
      <4>4. Whole(c) /\ c[1] = PROGRAM /\ c[2] = j - 1 /\ SubSeq(c, 4, Len(c)) = f[j]
        BY ONLY f \in Files, j \in DOMAIN f, <4>3, PageFrame
      <4>. QED
        BY <4>1, <4>2, <4>4
    <3>. QED
      BY <3>2, <3>3, <3>4
  <2>6. Head(cmds) = c /\ NoCommand'
    BY <2>1, <2>3, <2>4, CommandProcessed
  <2>7. ProgramFlash(n, v)
    BY <1>2, <2>2, <2>3, <2>5, <2>6 DEF ProcessCommand
  <2>8. PICK ok \in {1} \cup (IF "programFails" \in Faults THEN {0} ELSE {}) :
          /\ flash' = [flash EXCEPT ![n] = IF ok = 1 THEN Burn(@, v) ELSE Garbage]
          /\ Transmit(<<PROGRAM_ACK, n, ok>>)
          /\ UNCHANGED <<erasing, erase_sector, max_erase_sector>>
    BY <2>7 DEF ProgramFlash
  <2>9. tx' = <<<<PROGRAM_ACK, n, ok>>>> /\ replies' = <<>> /\ (ok = 0 \/ ok = 1)
    BY <1>1, <2>1, <2>8 DEF NoReply, Transmit
  <2>10. flash \in [Page -> Content] /\ n \in Page /\ n \in Nat
    BY <2>2, <2>3 DEF TypeInv, TypeOK
  <2>11. \A p \in Page : p # n => flash'[p] = flash[p]
    BY <2>8, <2>10
  <2>12. ok = 1 => flash'[n] = v
    <3>1. flash[n] = Blank
      BY <2>1, <2>3 DEF Wiped
    <3>2. Burn(flash[n], v) = v
      BY <2>5, <3>1 DEF Burn
    <3>. QED
      BY <2>8, <2>10, <3>2
  <2>13. ASSUME NEW p \in 0 .. n - 1 PROVE flash'[p] = file'[p + 1]
    <3>1. p \in Page /\ p # n
      BY <2>1, <2>2, <2>3, <2>10 DEF Page
    <3>. QED
      BY <1>1, <2>1, <2>3, <2>11, <3>1 DEF Written
  <2>14. Written(progLen)'
    BY <1>1, <2>3, <2>13 DEF Written
  <2>15. ok = 1 => Written(progLen + 1)'
    <3>1. ASSUME ok = 1, NEW p \in 0 .. n PROVE flash'[p] = file'[p + 1]
      <4>1. CASE p = n
        BY <1>1, <2>3, <2>12, <3>1, <4>1
      <4>2. CASE p # n
        <5>1. p \in 0 .. n - 1
          BY <2>10, <4>2
        <5>. QED
          BY <2>13, <5>1
      <4>. QED
        BY <4>1, <4>2
    <3>2. 0 .. (n + 1) - 1 = 0 .. n
      BY <2>10
    <3>. QED
      BY <1>1, <2>3, <3>1, <3>2 DEF Written
  <2>16. BlankFrom(progLen + 1)'
    <3>1. ASSUME NEW p \in 0 .. NumPages - 1, p >= n + 1 PROVE flash'[p] = Blank
      <4>1. p # n /\ p \in Page
        BY <2>2, <2>10, <3>1 DEF Page
      <4>. QED
        BY <2>1, <2>3, <2>11, <3>1, <4>1 DEF BlankFrom, Wiped
    <3>. QED
      BY <1>1, <2>3, <3>1 DEF BlankFrom, Wiped
  <2>17. ReplyIs(<<PROGRAM_ACK, progLen, ok>>)'
    BY <1>1, <2>3, <2>9 DEF ReplyIs
  <2>. QED
    BY <2>1, <2>6, <2>8, <2>9, <2>14, <2>15, <2>16, <2>17 DEF ProgramInv
<1>6. host # "success"
  BY <1>1 DEF RunInv, SuccessInv
<1>. QED
  BY <1>1, <1>3, <1>4, <1>5, <1>6 DEF RunInv

(* The tool has programmed the first n pages, and the rest is blank.       *)
LEMMA NextPageKeepsRun ==
  ASSUME TypeInv, TypeInv', ~misfit, NEW n \in 0 .. Len(file), NextPage(n),
         UNCHANGED <<file, usbVars, cmds, pc, cmdVars, tx>>,
         NoCommand, ~erasing, Written(n), BlankFrom(n), tx = <<>>, replies' = <<>>
  PROVE  RunInv'
<1>1. /\ UNCHANGED <<file, held, xfer_state, cmds, pc, erasing, flash, tx>> /\ progLen' = n
      /\ n \in Nat /\ Len(file) \in Nat /\ Len(file) <= NumPages /\ NumPages \in Nat
  BY PageFacts, Geometry DEF usbVars, cmdVars, NextPage
<1>2. out = <<>> /\ held = <<>> /\ ~Unseen /\ cmds = <<>>
  BY DEF NoCommand
<1>3. CASE n = Len(file)
  <2>1. host' = "success" /\ NoCommand'
    BY <1>1, <1>2, <1>3 DEF NextPage, NoCommand, Unseen
  <2>2. Written(Len(file))'
    BY <1>1, <1>3 DEF Written
  <2>. QED
    BY <1>1, <2>1, <2>2 DEF RunInv, SuccessInv
<1>4. CASE n # Len(file)
  <2>1. PICK c \in Commands : c = ProgramFrame(n, file[n + 1])
    <3>1. n < Len(file) /\ n \in Nat
      BY <1>1, <1>4
    <3>2. file \in Files /\ Fits(file)
      BY PageFacts
    <3>. QED
      BY <3>1, <3>2, PageCommand
  <2>2. PICK x : x = slip(c) /\ Transfers(x) = <<x>>
    BY TransferMade
  <2>3. host' = "program" /\ out' = out \o <<x>>
    BY <1>4, <2>1, <2>2 DEF NextPage, Send
  <2>4. out' = <<x>>
    BY <1>2, <2>3
  <2>5. OneCommand(ProgramFrame(progLen, file[progLen + 1]))'
    BY <1>1, <1>2, <2>1, <2>4, <2>2 DEF OneCommand, Unseen
  <2>6. n \in 0 .. NumPages - 1
    BY <1>1, <1>4
  <2>7. Wiped(progLen)'
    BY <1>1, <2>6 DEF BlankFrom, Wiped
  <2>8. BlankFrom(progLen + 1)'
    <3>1. ASSUME NEW p \in 0 .. NumPages - 1, p >= n + 1 PROVE flash[p] = Blank
      <4>1. p >= n
        BY <1>1, <3>1
      <4>. QED
        BY <4>1 DEF BlankFrom, Wiped
    <3>. QED
      BY <1>1, <3>1 DEF BlankFrom, Wiped
  <2>9. Written(progLen)'
    BY <1>1 DEF Written
  <2>10. NoReply'
    BY <1>1 DEF NoReply
  <2>. QED
    BY <1>1, <2>3, <2>5, <2>7, <2>8, <2>9, <2>10 DEF RunInv, ProgramInv
<1>. QED
  BY <1>3, <1>4

LEMMA ReceiveKeepsRun ==
  ASSUME TypeInv, TypeInv', Receive, ~misfit, RunInv
  PROVE  RunInv'
<1>1. /\ UNCHANGED <<file, usbVars, cmds, pc, cmdVars, tx>>
      /\ Running /\ replies # <<>> /\ replies' = Tail(replies)
  BY DEF Receive
<1>2. /\ replies \in Seq(Seq(Nat)) /\ progLen \in 0 .. Len(file) /\ Len(file) \in Nat
      /\ Len(file) <= NumPages /\ NumPages \in Nat
  BY PageFacts, Geometry DEF TypeInv, TypeOK
<1>3. UNCHANGED <<held, xfer_state, cmds, pc, erasing, erase_sector, flash, tx>>
  BY <1>1 DEF usbVars, cmdVars
<1>4. PICK r : r = Head(replies)
  OBVIOUS
<1>5. CASE ~Expected(r)
  <2>1. host' = "failed"
    BY <1>4, <1>5 DEF Receive, GiveUp
  <2>. QED
    BY <2>1 DEF RunInv
<1>6. CASE Expected(r) /\ host = "nop"
  <2>1. NoCommand /\ ~erasing /\ replies = <<<<NOP>>>> /\ tx = <<>>
    BY <1>1, <1>6 DEF RunInv, NopInv, NoReply, ReplyIs
  <2>2. PICK x : x = slip(<<ERASE_APPLICATION>>) /\ Transfers(x) = <<x>>
    BY TransferMade, ConstantCommands
  <2>3. host' = "erase" /\ out' = out \o <<x>>
    BY <1>4, <1>6, <2>2 DEF Receive, Send
  <2>4. out' = <<x>> /\ replies' = <<>>
    BY <1>1, <2>1, <2>3 DEF NoCommand
  <2>5. OneCommand(<<ERASE_APPLICATION>>)'
    BY <1>3, <2>1, <2>2, <2>4 DEF OneCommand, NoCommand, Unseen
  <2>. QED
    BY <1>3, <2>1, <2>3, <2>4, <2>5 DEF RunInv, EraseInv, NoReply
<1>7. CASE Expected(r) /\ host = "erase"
  <2>1. EraseInv /\ NoCommand
    BY <1>1, <1>7 DEF RunInv, EraseInv, NoReply
  <2>2. ASSUME UNCHANGED <<host, out>> PROVE NoCommand'
    BY <1>3, <2>1, <2>2 DEF NoCommand, Unseen
  <2>3. (ErasedTo(erase_sector) => ErasedTo(erase_sector)') /\ (ErasedTo(Sectors) => ErasedTo(Sectors)')
    BY <1>3 DEF ErasedTo, Wiped
  <2>4. CASE Interim(replies)
    <3>1. PICK k \in 0 .. LastSector - 1 : r = <<ERASE_STATUS, k, LastSector>>
      <4>1. 1 \in DOMAIN replies /\ r = replies[1]
        BY <1>1, <1>2, <1>4, HeadTailProperties, LenProperties
      <4>. QED
        BY <2>4, <4>1 DEF Interim
    <3>2. ~Erased(r)
      BY <3>1, Geometry DEF Erased, LastSector
    <3>3. UNCHANGED <<host, progLen, out>>
      BY <1>4, <1>7, <3>2 DEF Receive
    <3>4. Interim(replies)'
      <4>1. \A i \in DOMAIN replies' : i + 1 \in DOMAIN replies /\ replies'[i] = replies[i + 1]
        BY <1>1, <1>2, HeadTailProperties, LenProperties
      <4>. QED
        BY <2>4, <4>1 DEF Interim
    <3>5. Interim(tx) => Interim(tx)'
      BY <1>3 DEF Interim
    <3>6. tx # <<>> \/ Interim(tx)
      BY DEF Interim
    <3>7. EraseInv'
      BY <1>1, <1>3, <2>1, <2>2, <2>3, <2>4, <3>3, <3>4, <3>5, <3>6 DEF EraseInv, NoReply
    <3>. QED
      BY <1>7, <3>3, <3>7 DEF RunInv
  <2>5. CASE ~Interim(replies)
    <3>1. ~erasing /\ ErasedTo(Sectors) /\ tx = <<>>
      BY <1>1, <2>1, <2>5 DEF EraseInv, NoReply
    <3>2. PICK s \in Seq(Seq(Nat)) : Interim(s) /\ replies = Append(s, Final)
      BY <1>1, <2>1, <2>5 DEF EraseInv, NoReply
    <3>3. CASE s = <<>>
      <4>1. replies = <<Final>> /\ r = Final /\ replies' = <<>>
        BY <1>1, <1>4, <3>2, <3>3
      <4>2. Erased(r)
        BY <4>1 DEF Erased, Final
      <4>3. NextPage(0)
        BY <1>4, <1>7, <4>2 DEF Receive
      <4>4. BlankFrom(0)
        BY <3>1, SectorOf DEF ErasedTo, BlankFrom
      <4>5. Written(0) /\ 0 \in 0 .. Len(file)
        BY <1>2 DEF Written
      <4>. QED
        BY <1>1, <2>1, <3>1, <4>1, <4>3, <4>4, <4>5, NextPageKeepsRun
    <3>4. CASE s # <<>>
      <4>1. Final \in Seq(Nat)
        <5>1. ERASE_STATUS \in Nat /\ LastSector \in Nat
          BY Geometry DEF ERASE_STATUS, LastSector
        <5>. QED
          BY <5>1 DEF Final
      <4>2. r = Head(s) /\ replies' = Append(Tail(s), Final) /\ Tail(s) \in Seq(Seq(Nat))
        BY <1>1, <1>4, <3>2, <3>4, <4>1
      <4>3. PICK k \in 0 .. LastSector - 1 : r = <<ERASE_STATUS, k, LastSector>>
        <5>1. 1 \in DOMAIN s /\ r = s[1]
          BY <3>2, <3>4, <4>2, HeadTailProperties, LenProperties
        <5>. QED
          BY <3>2, <5>1 DEF Interim
      <4>4. ~Erased(r)
        BY <4>3, Geometry DEF Erased, LastSector
      <4>5. UNCHANGED <<host, progLen, out>>
        BY <1>4, <1>7, <4>4 DEF Receive
      <4>6. Interim(Tail(s))
        <5>1. \A i \in DOMAIN Tail(s) : i + 1 \in DOMAIN s /\ Tail(s)[i] = s[i + 1]
          BY <3>2, <3>4, HeadTailProperties, LenProperties
        <5>. QED
          BY <3>2, <5>1 DEF Interim
      <4>7. PICK u \in Seq(Seq(Nat)) : u = Tail(s)
        BY <4>2
      <4>8. Interim(u)
        BY <4>6, <4>7
      <4>9. EraseInv'
        BY <1>3, <2>2, <2>3, <3>1, <4>2, <4>5, <4>7, <4>8 DEF EraseInv, Final, Interim
      <4>. QED
        BY <1>7, <4>5, <4>9 DEF RunInv
    <3>. QED
      BY <3>3, <3>4
  <2>. QED
    BY <2>4, <2>5
<1>8. CASE Expected(r) /\ host = "program"
  <2>1. NoCommand /\ ~erasing /\ tx = <<>> /\ BlankFrom(progLen + 1) /\ progLen < Len(file)
    BY <1>1, <1>8 DEF RunInv, ProgramInv, NoReply, ReplyIs, TypeInv, StepInv
  <2>2. PICK bad, good : bad = <<PROGRAM_ACK, progLen, 0>> /\ good = <<PROGRAM_ACK, progLen, 1>>
    OBVIOUS
  <2>3. replies = <<bad>> \/ (replies = <<good>> /\ Written(progLen + 1))
    BY <1>1, <1>8, <2>2 DEF RunInv, ProgramInv, NoReply, ReplyIs
  <2>4. r[3] = 1
    BY <1>8 DEF Expected
  <2>5. replies = <<good>> /\ Written(progLen + 1) /\ replies' = <<>>
    <3>1. CASE replies = <<bad>>
      BY <1>4, <2>2, <2>4, <3>1
    <3>2. CASE replies = <<good>> /\ Written(progLen + 1)
      BY <1>1, <3>2
    <3>. QED
      BY <2>3, <3>1, <3>2
  <2>6. NextPage(progLen + 1) /\ progLen + 1 \in 0 .. Len(file)
    BY <1>2, <1>4, <1>8, <2>1 DEF Receive
  <2>. QED
    BY <1>1, <2>1, <2>5, <2>6, NextPageKeepsRun
<1>. QED
  BY <1>1, <1>5, <1>6, <1>7, <1>8 DEF Running

(* A start that finds the device quiet is a new beginning.                 *)
LEMMA StartBeginsRun ==
  ASSUME TypeInv, NEW f \in Files, Start(f), hasty' = 0
  PROVE  RunInv'
<1>1. Quiet
  <2>1. hasty \in Nat
    BY Geometry DEF TypeInv, TypeOK
  <2>. QED
    BY <2>1 DEF Start
<1>2. /\ out = <<>> /\ held = <<>> /\ xfer_state = "IDLE" /\ cmds = <<>> /\ ~erasing /\ tx = <<>>
  BY <1>1 DEF Quiet
<1>3. PICK x : x = slip(<<NOP>>) /\ Transfers(x) = <<x>>
  BY TransferMade, ConstantCommands
<1>4. out' = <<x>>
  <2>1. PICK n \in 0 .. Len(out) : out' = SubSeq(out, 1, n) \o <<x>>
    BY <1>3 DEF Start
  <2>2. n = 0
    BY <1>2
  <2>3. PICK s : s = SubSeq(out, 1, n)
    OBVIOUS
  <2>4. s = <<>>
    BY <1>2, <2>2, <2>3
  <2>5. out' = s \o <<x>>
    BY <2>1, <2>3
  <2>. QED
    BY <2>4, <2>5
<1>5. /\ host' = "nop" /\ replies' = <<>> /\ UNCHANGED <<held, xfer_state, cmds, pc, erasing, tx>>
  BY DEF Start, usbVars, cmdVars
<1>6. OneCommand(<<NOP>>)' /\ NoReply'
  BY <1>2, <1>3, <1>4, <1>5 DEF OneCommand, Unseen, NoReply
<1>. QED
  BY <1>2, <1>5, <1>6 DEF RunInv, NopInv

LEMMA StepAloneInv ==
  ASSUME "eraseFails" \notin Faults, TypeInv, TypeInv', PathInv, AloneInv, [Next]_vars
  PROVE  AloneInv'
<1>1. CASE \E f \in Files : Start(f)
  BY <1>1, StartBeginsRun DEF AloneInv
<1>2. CASE Receive
  <2>1. UNCHANGED <<hasty, misfit>>
    BY <1>2 DEF Receive
  <2>. QED
    BY <1>2, <2>1, ReceiveKeepsRun DEF AloneInv
<1>3. CASE Timeout \/ Interrupt
  <2>1. host' = "failed"
    BY <1>3 DEF Timeout, Interrupt, GiveUp
  <2>. QED
    BY <2>1 DEF AloneInv, RunInv
<1>4. CASE ReplyFetched
  <2>1. UNCHANGED <<hasty, misfit>>
    BY <1>4 DEF ReplyFetched, hostVars
  <2>. QED
    BY <1>4, <2>1, FetchKeepsRun DEF AloneInv
<1>5. CASE EraseSector
  <2>1. UNCHANGED <<hasty, misfit>>
    BY <1>5 DEF EraseSector, hostVars
  <2>. QED
    BY <1>5, <2>1, EraseKeepsRun DEF AloneInv
<1>6. CASE ProcessCommand
  <2>1. UNCHANGED <<hasty, misfit>>
    BY <1>6 DEF ProcessCommand, hostVars
  <2>. QED
    BY <1>6, <2>1, ProcessKeepsRun DEF AloneInv
<1>7. CASE Carries
  <2>1. UNCHANGED <<hasty, misfit>>
    BY <1>7 DEF Carries, PacketArrives, TransferComplete, DecodeFrame, NoData, Release, Unpause,
                Resume, NothingToErase, hostVars
  <2>. QED
    BY <1>7, <2>1, CarryKeepsRun DEF AloneInv
<1>8. CASE UNCHANGED vars
  BY <1>8 DEF vars, hostVars, usbVars, cmdVars, AloneInv, RunInv, NopInv, EraseInv, ProgramInv,
              SuccessInv, OneCommand, NoCommand, Unseen, NoReply, ReplyIs, Interim,
              ErasedTo, Wiped, Written, BlankFrom
<1>. QED
  BY <1>1, <1>2, <1>3, <1>4, <1>5, <1>6, <1>7, <1>8 DEF Next, MainLoop, Carries

-----------------------------------------------------------------------------
LEMMA AloneInvariance ==
  ASSUME "eraseFails" \notin Faults
  PROVE  Spec => []AloneInv
<1>1. Init => AloneInv
  BY DEF Init, AloneInv, RunInv
<1>2. TypeInv /\ TypeInv' /\ PathInv /\ AloneInv /\ [Next]_vars => AloneInv'
  BY StepAloneInv
<1>. QED
  BY <1>1, <1>2, TypeInvariance, PathInvariance, PTL DEF Spec

(* As long as sectors can be erased: a run that found the device quiet,    *)
(* for a file that fits, reports success only when the file is in the      *)
(* flash, whatever runs and whatever files have come before, and with any  *)
(* other fault.                                                            *)
THEOREM QuietRunsTellTheTruth ==
  ASSUME "eraseFails" \notin Faults
  PROVE  Spec => []QuietRunTells
<1>1. TypeInv /\ AloneInv => QuietRunTells
  <2>. SUFFICES ASSUME TypeInv, AloneInv, host = "success", hasty = 0, ~misfit,
                       NEW i \in DOMAIN file
                PROVE  flash[i - 1] = file[i]
    BY DEF QuietRunTells
  <2>1. Written(Len(file))
    BY DEF AloneInv, RunInv, SuccessInv
  <2>2. Len(file) \in Nat /\ DOMAIN file = 1 .. Len(file)
    BY Geometry DEF TypeInv, TypeOK
  <2>3. i - 1 \in 0 .. Len(file) - 1 /\ (i - 1) + 1 = i
    BY <2>2
  <2>. QED
    BY <2>1, <2>3 DEF Written
<1>. QED
  BY <1>1, TypeInvariance, AloneInvariance, PTL

-----------------------------------------------------------------------------
(* The refinement: Updater's flash is the device's, its verdict what the   *)
(* tool has come to.                                                       *)

Outcome == IF Running THEN "running" ELSE host

LEMMA OutcomeIs ==
  ASSUME TypeInv
  PROVE  /\ Outcome \in {"off", "running", "success", "failed"}
         /\ Outcome = "running" <=> Running
         /\ Outcome = "success" <=> host = "success"
         /\ Outcome = "failed" <=> host = "failed"
BY DEF TypeInv, TypeOK, Outcome, Running

LEMMA ImageIs ==
  ASSUME NEW f \in Files
  PROVE  /\ DOMAIN Image(f) = 0 .. Len(f) - 1
         /\ \A p \in 0 .. Len(f) - 1 : Image(f)[p] = f[p + 1]
BY DEF Image

LEMMA StepStutters ==
  ASSUME UNCHANGED <<host, file, flash>>
  PROVE  UNCHANGED Update!vars
BY DEF Update!vars, Running

LEMMA StartBegins ==
  ASSUME TypeInv, NEW f \in Files, Start(f)
  PROVE  Update!Begin
<1>1. ~Running /\ host' = "nop" /\ file' = f /\ UNCHANGED flash
  BY DEF Start, cmdVars
<1>2. Outcome # "running" /\ Outcome' = "running"
  BY <1>1, OutcomeIs DEF Outcome, Running
<1>3. Image(file)' \in {Image(g) : g \in Files}
  BY <1>1 DEF Image
<1>. QED
  BY <1>1, <1>2, <1>3 DEF Update!Begin, Outcome

LEMMA FailureFails ==
  ASSUME Running, host' = "failed", UNCHANGED <<file, flash>>
  PROVE  Update!Fail
BY DEF Update!Fail, Running, Image

LEMMA ReceiveTells ==
  ASSUME TypeInv, TypeInv', AloneInv', hasty' = 0, ~misfit', Receive
  PROVE  [Update!Next]_(Update!vars)
<1>1. Running /\ UNCHANGED <<file, flash>>
  BY DEF Receive, cmdVars
<1>2. CASE host' = "failed"
  BY <1>1, <1>2, FailureFails DEF Update!Next
<1>3. CASE host' = "success"
  <2>1. Written(Len(file))'
    BY <1>3 DEF AloneInv, RunInv, SuccessInv
  <2>2. file \in Files
    BY DEF TypeInv, TypeOK
  <2>3. Update!Holds(Image(file))
    BY <1>1, <2>1, <2>2, ImageIs DEF Update!Holds, Written
  <2>4. Update!Succeed
    BY <1>1, <1>3, <2>3 DEF Update!Succeed, Running, Image
  <2>. QED
    BY <2>4 DEF Update!Next
<1>4. CASE host' \in {"nop", "erase", "program"}
  BY <1>1, <1>4 DEF Update!vars, Running, Image
<1>5. host' \in {"nop", "erase", "program", "success", "failed"}
  BY <1>1 DEF Receive, GiveUp, NextPage, Running
<1>. QED
  BY <1>2, <1>3, <1>4, <1>5

(* A page is promised to nobody while the device has something to do.      *)
LEMMA NothingPromised ==
  ASSUME TypeInv, AloneInv, hasty = 0, ~misfit, erasing \/ cmds # <<>>
  PROVE  Update!Promised = {}
<1>1. host # "success"
  BY DEF AloneInv, RunInv, SuccessInv, NoCommand
<1>. QED
  BY <1>1, OutcomeIs DEF Update!Promised, Outcome

LEMMA ProgramPrograms ==
  ASSUME TypeInv, AloneInv, hasty = 0, ~misfit, ProcessCommand
  PROVE  [Update!Next]_(Update!vars)
<1>1. UNCHANGED <<host, file>> /\ cmds # <<>>
  BY DEF ProcessCommand, hostVars
<1>2. NOP # ERASE_APPLICATION /\ NOP # PROGRAM /\ ERASE_APPLICATION # PROGRAM
  BY DEF NOP, ERASE_APPLICATION, PROGRAM
<1>3. PICK c \in Commands : c = Head(cmds)
  BY HeadTailProperties DEF ProcessCommand, TypeInv, LinkInv
<1>4. CASE c[1] # PROGRAM
  <2>1. UNCHANGED flash
    BY <1>2, <1>3, <1>4, CommandFacts DEF ProcessCommand, cmdVars
  <2>. QED
    BY <1>1, <2>1, StepStutters
<1>5. CASE c[1] = PROGRAM
  <2>1. PICK d : d = SubSeq(c, 4, Len(c))
    OBVIOUS
  <2>2. Whole(c) /\ c[2] \in Page /\ d \in Value /\ \E f \in Files : Asks(c, f)
    BY <1>2, <1>5, <2>1, CommandFacts
  <2>3. ProgramFlash(c[2], d)
    BY <1>2, <1>3, <1>5, <2>1, <2>2 DEF ProcessCommand
  <2>4. PICK v \in {d, Garbage} : flash' = [flash EXCEPT ![c[2]] = v]
    BY <2>3 DEF ProgramFlash, Burn
  <2>5. PICK f \in Files : Asks(c, f)
    BY <2>2
  <2>6. v \in Content /\ Garbage \notin Value
    BY <2>2, <2>4, UpdateAssumption DEF Content
  <2>7. ASSUME v \in Value
        PROVE  \E g \in {Image(e) : e \in Files} : c[2] \in DOMAIN g /\ g[c[2]] = v
    <3>1. v = d /\ c[2] \in 0 .. Len(f) - 1 /\ d = f[c[2] + 1]
      BY <2>1, <2>4, <2>5, <2>6, <2>7 DEF Asks
    <3>2. c[2] \in DOMAIN Image(f) /\ Image(f)[c[2]] = v
      BY <3>1, ImageIs
    <3>. QED
      BY <3>2
  <2>8. c[2] \in Page \ Update!Promised
    BY <1>1, <2>2, NothingPromised
  <2>9. UNCHANGED <<Image(file), IF Running THEN "running" ELSE host>>
    BY <1>1 DEF Image, Running
  <2>10. Update!Program
    BY <2>4, <2>6, <2>7, <2>8, <2>9 DEF Update!Program
  <2>. QED
    BY <2>10 DEF Update!Next
<1>. QED
  BY <1>4, <1>5

LEMMA SectorErases ==
  ASSUME TypeInv, AloneInv, hasty = 0, ~misfit, EraseSector
  PROVE  [Update!Next]_(Update!vars)
<1>1. UNCHANGED <<host, file>> /\ erasing
  BY DEF EraseSector, hostVars
<1>2. PICK ok \in BOOLEAN :
        flash' = [p \in Page |-> IF ok /\ p \div PagesPerSector = erase_sector
                                 THEN Blank ELSE flash[p]]
  BY DEF EraseSector
<1>3. PICK S : S = {p \in Page : ok /\ p \div PagesPerSector = erase_sector}
  OBVIOUS
<1>4. S \in SUBSET (Page \ Update!Promised)
  BY <1>1, <1>3, NothingPromised
<1>5. flash' = [p \in Page |-> IF p \in S THEN Blank ELSE flash[p]]
  BY <1>2, <1>3
<1>6. UNCHANGED <<Image(file), IF Running THEN "running" ELSE host>>
  BY <1>1 DEF Image, Running
<1>7. Update!Erase
  BY <1>4, <1>5, <1>6 DEF Update!Erase
<1>. QED
  BY <1>7 DEF Update!Next

LEMMA StepImplements ==
  ASSUME TypeInv, TypeInv', AloneInv, AloneInv', hasty = 0, hasty' = 0, ~misfit', [Next]_vars
  PROVE  [Update!Next]_(Update!vars)
<1>1. CASE \E f \in Files : Start(f)
  BY <1>1, StartBegins DEF Update!Next
<1>2. CASE Receive
  BY <1>2, ReceiveTells
<1>3. CASE Timeout \/ Interrupt
  <2>1. Running /\ host' = "failed" /\ UNCHANGED <<file, flash>>
    BY <1>3 DEF Timeout, Interrupt, GiveUp, cmdVars
  <2>. QED
    BY <2>1, FailureFails DEF Update!Next
<1>4. CASE EraseSector
  <2>1. ~misfit
    BY <1>4 DEF EraseSector, hostVars
  <2>. QED
    BY <1>4, <2>1, SectorErases
<1>5. CASE ProcessCommand
  <2>1. ~misfit
    BY <1>5 DEF ProcessCommand, hostVars
  <2>. QED
    BY <1>5, <2>1, ProgramPrograms
<1>6. CASE Carries \/ ReplyFetched \/ UNCHANGED vars
  <2>1. UNCHANGED <<host, file, flash>>
    BY <1>6 DEF Carries, PacketArrives, TransferComplete, DecodeFrame, NoData, Release, Unpause,
                Resume, NothingToErase, ReplyFetched, vars, hostVars, cmdVars
  <2>. QED
    BY <2>1, StepStutters
<1>. QED
  BY <1>1, <1>2, <1>3, <1>4, <1>5, <1>6 DEF Next, MainLoop, Carries

LEMMA InitImplements == Init => Update!Init
<1>. SUFFICES ASSUME Init PROVE Update!Init
  OBVIOUS
<1>1. flash \in [Page -> Content] /\ file \in Files /\ host = "off"
  BY DEF Init, Content
<1>. QED
  BY <1>1 DEF Update!Init, Running

FoundQuiet == hasty = 0

(* Runs that each find the device quiet update the flash as Updater says,  *)
(* if sectors can be erased and as long as the files fit: success means    *)
(* that the file is there, and nothing of it is touched until the next run *)
(* begins.                                                                 *)
THEOREM QuietRunsImplementUpdater ==
  ASSUME "eraseFails" \notin Faults
  PROVE  Spec /\ []FoundQuiet => ImplementsUpdater
<1>1. TypeInv /\ TypeInv' /\ AloneInv /\ AloneInv' /\ FoundQuiet /\ FoundQuiet' /\ [Next]_vars
        => [misfit' \/ Update!Next]_(Update!vars)
  BY StepImplements DEF FoundQuiet
<1>2. Spec => []AloneInv
  BY AloneInvariance
<1>. QED
  BY <1>1, <1>2, InitImplements, TypeInvariance, PTL DEF Spec, ImplementsUpdater

=============================================================================
