----------------------------- MODULE SimpleUart ------------------------------
(***************************************************************************)
(* One port of the simple UART driver under FreeRTOS (uart_simple.c): a    *)
(* ring of received and a ring of outgoing bytes, both shared between the  *)
(* tasks and the status interrupt handler, blocking reads with a timeout,  *)
(* blocking writes, opening and closing of the port.                       *)
(*                                                                         *)
(* The handler runs to its end as one step: tasks cannot run meanwhile.    *)
(* A task's critical section is one step, and so is each byte it moves;    *)
(* the store of an index at the end of a ring is two steps (increment,     *)
(* then back to zero), because the handler can come in between.            *)
(***************************************************************************)
EXTENDS Naturals, Sequences

CONSTANTS
  Task,      \* the tasks that use the port
  Byte,      \* values of a byte
  None,      \* no byte, no task
  Size,      \* UART_BUFFER_SIZE
  MaxLen,    \* longest read or write, 255
  Quota      \* how many bytes come from the tasks and from the line, in all

(* A write that starts with an empty ring must fit in it: what it puts     *)
(* there before it starts the transmitter is not drained meanwhile.        *)
ASSUME UartAssumption == /\ Size \in Nat \ {0, 1}
                         /\ MaxLen \in Nat \ {0} /\ MaxLen < Size
                         /\ Quota \in Nat
                         /\ None \notin Task \cup Byte

VARIABLES
  open, handler,                \* port open; interrupt handler installed
  timed,                        \* readTimeout is finite
  txBuf, txR, txW,              \* tx_buffer, its read and write index
  rxBuf, rxR, rxW,              \* rx_buffer
  txSleeping, rxSleeping,       \* a task says that it is going to wait
  txBlock, rxBlock,             \* portTxBlock, portRxBlock: tokens
  txLock, rxLock,               \* portTxLock, portRxLock: their holders
  transmitting,                 \* the driver's idea that the transmitter runs
  etbei, thre,                  \* transmit interrupt enabled; THR empty
  rbr,                          \* received byte that waits in the UART
  wire, got,                    \* last byte put on the line, last byte read
  pc, left,                     \* where each task is, and bytes still to move
  quota,
  upset,                        \* the sending side has been upset since the
                                \* port was opened (see Open and Irq)
  late                          \* the token in portRxBlock was given when no
                                \* reader waited

portVars == <<open, handler, timed>>
txRing   == <<txBuf, txR, txW>>
rxRing   == <<rxBuf, rxR, rxW>>
txSync   == <<txSleeping, txBlock>>
rxSync   == <<rxSleeping, rxBlock>>
hwVars   == <<transmitting, etbei, thre, wire>>
taskVars == <<pc, left>>
notes    == <<upset, late>>     \* history, read by no step
vars == <<portVars, txRing, rxRing, txSync, rxSync, txLock, rxLock, hwVars,
          rbr, got, taskVars, quota, notes>>

Pos  == 0 .. Size - 1
Zero == [i \in Pos |-> None]

(* After uart_init.                                                        *)
Init == /\ open = FALSE /\ handler = FALSE /\ timed = FALSE
        /\ txBuf = Zero /\ txR = 0 /\ txW = 0
        /\ rxBuf = Zero /\ rxR = 0 /\ rxW = 0
        /\ txSleeping = FALSE /\ rxSleeping = FALSE
        /\ txBlock = 0 /\ rxBlock = 0
        /\ txLock = None /\ rxLock = None
        /\ transmitting = FALSE /\ etbei = FALSE /\ thre = TRUE
        /\ rbr = None /\ wire = None /\ got = None
        /\ pc = [t \in Task |-> "idle"]
        /\ left = [t \in Task |-> 0]
        /\ quota = Quota
        /\ upset = FALSE /\ late = FALSE

Goto(t, where) == pc' = [pc EXCEPT ![t] = where]

(* The position after i, and a ring that can take no more, where r and w   *)
(* are the positions of the next byte to leave and to enter.               *)
AfterUnwrapped(i) == i + 1
After(i) == (i + 1) % Size

FullAtEnd(r, w) == w + 1 = r
Full(r, w) == After(w) = r

-----------------------------------------------------------------------------
(* Opening and closing.  No task is in the middle of another call: the     *)
(* handle it uses would go away.                                           *)

Quiet == \A t \in Task : pc[t] = "idle"

(* uart_open of a port that is open fails, and takes the handler away.  A  *)
(* port closed while it was sending is opened with `transmitting` set.     *)
Open ==
  /\ IF open
     THEN /\ handler' = FALSE
          /\ UNCHANGED <<open, timed, txRing, rxRing, hwVars, rbr, upset>>
     ELSE /\ open' = TRUE /\ handler' = TRUE /\ timed' = FALSE
          /\ txBuf' = Zero /\ txR' = 0 /\ txW' = 0
          /\ rxBuf' = Zero /\ rxR' = 0 /\ rxW' = 0
          /\ etbei' = FALSE /\ thre' = TRUE /\ rbr' = None
          /\ upset' = transmitting
          /\ UNCHANGED <<transmitting, wire>>
  /\ UNCHANGED <<txSync, rxSync, txLock, rxLock, got, taskVars, quota, late>>

(* The registers are reset, the driver's own state is not.                 *)
Close ==
  /\ open /\ Quiet
  /\ open' = FALSE /\ handler' = FALSE
  /\ etbei' = FALSE /\ thre' = TRUE /\ rbr' = None
  /\ UNCHANGED <<timed, txRing, rxRing, txSync, rxSync, txLock, rxLock,
                 transmitting, wire, got, taskVars, quota, notes>>

(* uart_setTimeouts, the read timeout.                                     *)
SetTimeouts(finite) ==
  /\ open
  /\ finite # timed
  /\ timed' = finite
  /\ UNCHANGED <<open, handler, txRing, rxRing, txSync, rxSync, txLock, rxLock,
                 hwVars, rbr, got, taskVars, quota, notes>>

-----------------------------------------------------------------------------
(* The line.                                                               *)

(* A byte that comes while the last one has not been fetched is lost.      *)
Arrive(b) ==
  /\ open /\ rbr = None /\ quota > 0
  /\ rbr' = b
  /\ quota' = quota - 1
  /\ UNCHANGED <<portVars, notes, txRing, rxRing, txSync, rxSync, txLock, rxLock,
                 hwVars, got, taskVars>>

(* The holding register's byte moves on to the line.                       *)
Shift ==
  /\ ~thre
  /\ thre' = TRUE
  /\ UNCHANGED <<portVars, notes, txRing, rxRing, txSync, rxSync, txLock, rxLock,
                 transmitting, etbei, wire, rbr, got, taskVars, quota>>

-----------------------------------------------------------------------------
(* uart_status_irq.                                                        *)

KeepsUnchecked == rbr # None
Keeps == rbr # None /\ ~Full(rxR, rxW)

WakeReaderSilent == rxSleeping' = FALSE /\ UNCHANGED rxBlock
WakeReader == IF rxSleeping
              THEN rxSleeping' = FALSE /\ rxBlock' = 1
              ELSE UNCHANGED rxSync

IrqReceiveAnyway ==
  /\ rbr' = None
  /\ WakeReader
  /\ IF Keeps
     THEN rxBuf' = [rxBuf EXCEPT ![rxW] = rbr] /\ rxW' = After(rxW)
     ELSE UNCHANGED <<rxBuf, rxW>>
  /\ UNCHANGED rxR

(* A received byte goes into its ring, or is dropped if that is full, and  *)
(* wakes a reader that said it would wait.                                 *)
IrqReceive ==
  /\ rbr' = None
  /\ IF Keeps
     THEN /\ rxBuf' = [rxBuf EXCEPT ![rxW] = rbr]
          /\ rxW' = After(rxW)
          /\ WakeReader
     ELSE UNCHANGED <<rxBuf, rxW, rxSync>>
  /\ UNCHANGED rxR

WakeWriterSilent == txSleeping' = FALSE /\ UNCHANGED txBlock
WakeWriter == IF txSleeping
              THEN txSleeping' = FALSE /\ txBlock' = 1
              ELSE UNCHANGED txSync

TransmitterOffUnnoted == etbei' = FALSE /\ UNCHANGED transmitting
TransmitterOff == etbei' = FALSE /\ transmitting' = FALSE

(* If the transmitter can take a byte it gets the next one, and a waiting  *)
(* writer is woken; with none left the transmit interrupt is turned off.   *)
IrqTransmit ==
  \/ /\ ~thre
     /\ UNCHANGED <<txRing, txSync, hwVars>>
  \/ /\ thre /\ txW # txR
     /\ wire' = txBuf[txR]
     /\ thre' = FALSE
     /\ txR' = After(txR)
     /\ WakeWriter
     /\ UNCHANGED <<txBuf, txW, transmitting, etbei>>
  \/ /\ thre /\ txW = txR
     /\ TransmitterOff
     /\ UNCHANGED <<txRing, txSync, thre, wire>>

(* The handler sends what is not there: a task has moved the write index   *)
(* to the end of the ring and not yet to its start, where the read index   *)
(* is, so the empty ring does not look empty.  Likewise a full one of      *)
(* received bytes does not look full.                                      *)
TxOffEnd == (\E t \in Task : pc[t] = "wrap") /\ txR = 0 /\ thre
RxOffEnd == (\E t \in Task : pc[t] = "rwrap") /\ rxW = Size - 1 /\ rbr # None

Waiting   == {"rtake", "rasleep", "rtimed"}
GivesLate == rxSleeping /\ Keeps /\ \A t \in Task : pc[t] \notin Waiting

(* The handler also runs for line errors and at the end of a transmission, *)
(* so at any time.                                                         *)
Irq ==
  /\ handler
  /\ IrqReceive
  /\ IrqTransmit
  /\ upset' = (upset \/ TxOffEnd)
  /\ late' = (late \/ GivesLate)
  /\ UNCHANGED <<portVars, txLock, rxLock, got, taskVars, quota>>

-----------------------------------------------------------------------------
(* uart_write.                                                             *)

WriteBegin(t, n) ==
  /\ open /\ pc[t] = "idle" /\ n <= quota
  /\ txLock = None
  /\ txLock' = t
  /\ Goto(t, "check")
  /\ left' = [left EXCEPT ![t] = n]
  /\ quota' = quota - n
  /\ UNCHANGED <<portVars, notes, txRing, rxRing, txSync, rxSync, rxLock, hwVars,
                 rbr, got>>

WriteCheckQuiet(t) ==
  /\ pc[t] = "check"
  /\ IF Full(txR, txW)
     THEN UNCHANGED txSleeping /\ Goto(t, "asleep")
     ELSE UNCHANGED txSleeping /\ Goto(t, "put")
  /\ UNCHANGED <<portVars, notes, txRing, rxRing, txBlock, rxSync, txLock, rxLock,
                 hwVars, rbr, got, left, quota>>

WriteCheck(t) ==
  /\ pc[t] = "check"
  /\ IF Full(txR, txW)
     THEN txSleeping' = TRUE /\ Goto(t, "asleep")
     ELSE UNCHANGED txSleeping /\ Goto(t, "put")
  /\ UNCHANGED <<portVars, notes, txRing, rxRing, txBlock, rxSync, txLock, rxLock,
                 hwVars, rbr, got, left, quota>>

WriteWake(t) ==
  /\ pc[t] = "asleep" /\ txBlock = 1
  /\ txBlock' = 0
  /\ Goto(t, "put")
  /\ UNCHANGED <<portVars, notes, txRing, rxRing, txSleeping, rxSync, txLock, rxLock,
                 hwVars, rbr, got, left, quota>>

(* Where a write goes on when k bytes are left to put.                     *)
NextByte(k) == IF k = 0 THEN "kick" ELSE "check"

Put(t, b) ==
  /\ pc[t] = "put"
  /\ txBuf' = [txBuf EXCEPT ![txW] = b]
  /\ txW' = txW + 1
  /\ left' = [left EXCEPT ![t] = @ - 1]
  /\ Goto(t, IF txW + 1 = Size THEN "wrap" ELSE NextByte(left[t] - 1))
  /\ UNCHANGED <<portVars, notes, txR, rxRing, txSync, rxSync, txLock, rxLock,
                 hwVars, rbr, got, quota>>

PutWrap(t) ==
  /\ pc[t] = "wrap"
  /\ txW' = 0
  /\ Goto(t, NextByte(left[t]))
  /\ UNCHANGED <<portVars, notes, txBuf, txR, rxRing, txSync, rxSync, txLock, rxLock,
                 hwVars, rbr, got, left, quota>>

(* Start the transmitter unless it is believed to run, and return.         *)
Kick(t) ==
  /\ pc[t] = "kick"
  /\ transmitting' = TRUE
  /\ etbei' = (etbei \/ ~transmitting)
  /\ txLock' = None
  /\ Goto(t, "idle")
  /\ UNCHANGED <<portVars, notes, txRing, rxRing, txSync, rxSync, rxLock, thre, wire,
                 rbr, got, left, quota>>

-----------------------------------------------------------------------------
(* uart_read.                                                              *)

ReadBegin(t, n) ==
  /\ open /\ pc[t] = "idle"
  /\ rxLock = None
  /\ rxLock' = t
  /\ Goto(t, "rcheck")
  /\ left' = [left EXCEPT ![t] = n]
  /\ UNCHANGED <<portVars, notes, txRing, rxRing, txSync, rxSync, txLock, hwVars,
                 rbr, got, quota>>

ReadCheck(t) ==
  /\ pc[t] = "rcheck"
  /\ IF rxW = rxR
     THEN rxSleeping' = TRUE /\ Goto(t, "rtake")
     ELSE UNCHANGED rxSleeping /\ Goto(t, "copy")
  /\ UNCHANGED <<portVars, notes, txRing, rxRing, txSync, rxBlock, txLock, rxLock,
                 hwVars, rbr, got, left, quota>>

(* The timeout is the one in force when the wait begins.                   *)
ReadWait(t) ==
  /\ pc[t] = "rtake"
  /\ Goto(t, IF timed THEN "rtimed" ELSE "rasleep")
  /\ UNCHANGED <<portVars, notes, txRing, rxRing, txSync, rxSync, txLock, rxLock,
                 hwVars, rbr, got, left, quota>>

ReadWake(t) ==
  /\ pc[t] \in {"rasleep", "rtimed"} /\ rxBlock = 1
  /\ rxBlock' = 0
  /\ Goto(t, "copy")
  /\ late' = FALSE
  /\ UNCHANGED <<portVars, txRing, rxRing, txSync, rxSleeping, txLock, rxLock,
                 hwVars, rbr, got, left, quota, upset>>

(* The wait ends without a token; the flag is taken back a little later.   *)
ReadTimeout(t) ==
  /\ pc[t] = "rtimed" /\ rxBlock = 0
  /\ Goto(t, "expired")
  /\ UNCHANGED <<portVars, notes, txRing, rxRing, txSync, rxSync, txLock, rxLock,
                 hwVars, rbr, got, left, quota>>

ReadExpired(t) ==
  /\ pc[t] = "expired"
  /\ rxSleeping' = FALSE
  /\ Goto(t, "copy")
  /\ UNCHANGED <<portVars, notes, txRing, rxRing, txSync, rxBlock, txLock, rxLock,
                 hwVars, rbr, got, left, quota>>

Copy(t) ==
  /\ pc[t] = "copy" /\ left[t] > 0 /\ rxW # rxR
  /\ got' = rxBuf[rxR]
  /\ rxR' = rxR + 1
  /\ left' = [left EXCEPT ![t] = @ - 1]
  /\ Goto(t, IF rxR + 1 = Size THEN "rwrap" ELSE "copy")
  /\ UNCHANGED <<portVars, notes, txRing, rxBuf, rxW, txSync, rxSync, txLock, rxLock,
                 hwVars, rbr, quota>>

CopyWrap(t) ==
  /\ pc[t] = "rwrap"
  /\ rxR' = 0
  /\ Goto(t, "copy")
  /\ UNCHANGED <<portVars, notes, txRing, rxBuf, rxW, txSync, rxSync, txLock, rxLock,
                 hwVars, rbr, got, left, quota>>

ReadReturn(t) ==
  /\ pc[t] = "copy" /\ (left[t] = 0 \/ rxW = rxR)
  /\ rxLock' = None
  /\ Goto(t, "idle")
  /\ left' = [left EXCEPT ![t] = 0]
  /\ UNCHANGED <<portVars, notes, txRing, rxRing, txSync, rxSync, txLock, hwVars,
                 rbr, got, quota>>

-----------------------------------------------------------------------------
(* What a task does once it is in a call.                                  *)
Advance(t) == \/ WriteCheck(t) \/ WriteWake(t) \/ PutWrap(t) \/ Kick(t)
              \/ \E b \in Byte : Put(t, b)
              \/ ReadCheck(t) \/ ReadWait(t) \/ ReadWake(t)
              \/ ReadTimeout(t) \/ ReadExpired(t)
              \/ Copy(t) \/ CopyWrap(t) \/ ReadReturn(t)

Next == \/ Open \/ Close \/ Shift \/ Irq
        \/ \E finite \in BOOLEAN : SetTimeouts(finite)
        \/ \E b \in Byte : Arrive(b)
        \/ \E t \in Task : \/ Advance(t)
                           \/ \E n \in 1 .. MaxLen : \/ WriteBegin(t, n)
                                                     \/ ReadBegin(t, n)

Spec == Init /\ [][Next]_vars

(* Tasks get the processor, a byte leaves the holding register, and the    *)
(* handler runs if the UART asks for it.                                   *)
Requested == rbr # None \/ (etbei /\ thre)

Fairness == /\ WF_vars(Shift)
            /\ WF_vars(Requested /\ Irq)
            /\ \A t \in Task : WF_vars(Advance(t))

FairSpec == Spec /\ Fairness

-----------------------------------------------------------------------------
WritePcs == {"check", "asleep", "put", "wrap", "kick"}
ReadPcs  == {"rcheck", "expired", "copy", "rwrap"} \cup Waiting

(* Values in range; an index reaches Size only between the two stores of a *)
(* task that wraps it, the handler's own never.                            *)
TypeOK ==
  /\ open \in BOOLEAN /\ handler \in BOOLEAN /\ timed \in BOOLEAN
  /\ txBuf \in [Pos -> Byte \cup {None}] /\ txR \in Pos /\ txW \in 0 .. Size
  /\ rxBuf \in [Pos -> Byte \cup {None}] /\ rxR \in 0 .. Size /\ rxW \in Pos
  /\ txSleeping \in BOOLEAN /\ rxSleeping \in BOOLEAN
  /\ txBlock \in {0, 1} /\ rxBlock \in {0, 1}
  /\ txLock \in Task \cup {None} /\ rxLock \in Task \cup {None}
  /\ transmitting \in BOOLEAN /\ etbei \in BOOLEAN /\ thre \in BOOLEAN
  /\ {rbr, wire, got} \subseteq Byte \cup {None}
  /\ pc \in [Task -> {"idle"} \cup WritePcs \cup ReadPcs]
  /\ left \in [Task -> 0 .. MaxLen]
  /\ quota \in 0 .. Quota
  /\ upset \in BOOLEAN /\ late \in BOOLEAN

(* A task that is going to start the transmitter without waiting first.    *)
Starting(t) == pc[t] \in {"check", "put", "wrap", "kick"}

(* Bytes wait to be sent only while the transmitter runs or a writer is    *)
(* about to start it: no interleaving of the handler turning the           *)
(* transmitter off with a write leaves bytes behind in the ring, unless    *)
(* the port was opened with a stale `transmitting` or the handler has run  *)
(* off the end of the ring.                                                *)
NeverStalled ==
  open /\ ~upset /\ txR # txW % Size =>
    (transmitting /\ etbei) \/ \E t \in Task : Starting(t)

(* A task that waits without a token waits for something that will give it *)
(* one: a writer for the transmitter to take a byte of a full ring (with   *)
(* the same exceptions), a reader for the first byte into an empty one,    *)
(* and the handler knows.                                                  *)
SleepersAwaited ==
  \A t \in Task :
    /\ pc[t] = "asleep" /\ txBlock = 0 =>
         txSleeping /\ Full(txR, txW) /\ (upset \/ (transmitting /\ etbei))
    /\ pc[t] \in Waiting /\ rxBlock = 0 => rxSleeping /\ rxR = rxW

(* The two directions as byte queues: the rings from read to write index.  *)
Count(r, w) == (w + Size - r) % Size
Ring(buf, r, w) == [i \in 1 .. Count(r, w) |-> buf[(r + i - 1) % Size]]

Tx == INSTANCE ByteFifo WITH Capacity <- Size - 1,
                             fifo <- Ring(txBuf, txR, txW), last <- wire
Rx == INSTANCE ByteFifo WITH Capacity <- Size - 1,
                             fifo <- Ring(rxBuf, rxR, rxW), last <- got

(* What uart_write accepts goes out on the line in that order, nothing     *)
(* lost, repeated or made up, whichever tasks write and wherever the       *)
(* handler comes in, but for the one step in which it runs off the end.    *)
SendsInOrder == Tx!Init /\ [][Tx!Next \/ (TxOffEnd /\ Irq)]_(Tx!vars)

(* What the handler accepts is read in that order, with the same exception *)
(* on the receiving side.                                                  *)
ReadsInOrder == Rx!Init /\ [][Rx!Next \/ (RxOffEnd /\ Irq)]_(Rx!vars)

(* The first of the two without its exception.                             *)
AlwaysInOrder == Tx!Spec

(* uart_write comes back, however full the ring was and whoever waits, if  *)
(* no second uart_open takes the handler away and sending is not upset.    *)
WritesReturn ==
  \A t \in Task : pc[t] \in WritePcs ~> pc[t] = "idle" \/ ~handler \/ upset

(* A reader does not wait on with bytes in the ring.                       *)
ReadersWake ==
  \A t \in Task : (pc[t] \in Waiting /\ rxR # rxW) ~> pc[t] \notin Waiting

(* A read that is woken finds a byte, unless the token was given when      *)
(* nobody waited: after the wait before had timed out.                     *)
TokensMeanBytes ==
  [][\A t \in Task : ReadWake(t) /\ ~late => rxR # rxW]_vars

(* A read that waits without a timeout is woken only when there is a byte  *)
(* for it (UART_SIMPLE_TIMEOUT_INF: block infinitely).                     *)
WokenFindsData ==
  [][\A t \in Task : pc[t] = "rasleep" /\ ReadWake(t) => rxR # rxW]_vars

=============================================================================
