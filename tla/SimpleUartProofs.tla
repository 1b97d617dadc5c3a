-------------------------- MODULE SimpleUartProofs ---------------------------
(***************************************************************************)
(* Proofs about SimpleUart, for any number of tasks, any ring size, any    *)
(* length of a read or write below it and any bytes, whatever the          *)
(* application and the handler do.                                         *)
(*                                                                         *)
(* PortInv says who is where, and who holds which lock.  On it rest        *)
(* WriterInv and DrainInv, the two halves of the protocol between          *)
(* uart_write and the handler, and ReaderInv and TokenInv, that between    *)
(* uart_read and the handler.  DrainInv stops holding once sending has     *)
(* been upset, TokenInv is about the tokens that are not late.             *)
(***************************************************************************)
EXTENDS SimpleUart, SequenceTheorems, TLAPS

(* portTxLock is held by the task that is in uart_write, portRxLock by the *)
(* one in uart_read.                                                       *)
Locks == \A t \in Task : /\ pc[t] \in WritePcs <=> txLock = t
                         /\ pc[t] \in ReadPcs <=> rxLock = t

(* No call is under way on a closed port, and no handler is installed.     *)
Shut == ~open => Quiet /\ ~handler

(* An index is at the end of its ring just while a task wraps it.          *)
AtEnd == /\ txW = Size <=> \E t \in Task : pc[t] = "wrap"
         /\ rxR = Size <=> \E t \in Task : pc[t] = "rwrap"

(* A write that is about to put a byte has one left.                       *)
BytesLeft == \A t \in Task : pc[t] \in {"check", "asleep", "put"} => left[t] > 0

PortInv == TypeOK /\ Locks /\ Shut /\ AtEnd /\ BytesLeft

(* A writer sleeps with its flag set or with a token; it has a token only  *)
(* when there is room, and room it has found or been told of stays.        *)
WriterInv ==
  /\ txSleeping => /\ txBlock = 0 /\ Full(txR, txW)
                   /\ \E t \in Task : pc[t] = "asleep"
  /\ txBlock = 1 => /\ ~Full(txR, txW)
                    /\ \E t \in Task : pc[t] = "asleep"
  /\ \A t \in Task : /\ pc[t] = "asleep" => txSleeping \/ txBlock = 1
                     /\ pc[t] = "put" => ~Full(txR, txW)

(* While the transmitter is off the ring is empty, or holds no more than   *)
(* what the write that will start it has put there.                        *)
DrainInv ==
  open /\ ~upset =>
    /\ etbei = transmitting
    /\ txSleeping => transmitting
    /\ ~transmitting =>
         \/ Count(txR, txW) = 0
         \/ \E t \in Task : Starting(t) /\ Count(txR, txW) + left[t] <= MaxLen

(* A reader that waits without a token has said so and the ring is empty.  *)
ReaderInv ==
  \A t \in Task : pc[t] \in Waiting /\ rxBlock = 0 => rxSleeping /\ rxR = rxW

(* A token that is not late is for the reader that waits, and for a byte.  *)
TokenInv ==
  rxBlock = 1 /\ ~late => rxR # rxW /\ \E t \in Task : pc[t] \in Waiting

(* Where a task can be.                                                    *)
Places == {"idle"} \cup WritePcs \cup ReadPcs

LEMMA GotoType ==
  ASSUME TypeOK, NEW t \in Task, NEW where \in Places, Goto(t, where)
  PROVE  pc' \in [Task -> Places]
BY DEF TypeOK, Goto, Places

LEMMA AfterType == \A i \in Nat : After(i) \in Pos
BY UartAssumption DEF After, Pos

LEMMA StepTypeOK == PortInv /\ [Next]_vars => TypeOK'
<1>. SUFFICES ASSUME PortInv, [Next]_vars PROVE TypeOK'
  OBVIOUS
<1>. USE UartAssumption DEF TypeOK, PortInv, portVars, txRing, rxRing, txSync, rxSync,
                           hwVars, taskVars, notes, Pos
<1>1. CASE Open
  <2>1. CASE open
    <3>1. UNCHANGED <<notes, txRing, rxRing, txSync, rxSync, txLock, rxLock, hwVars,
                      rbr, got, taskVars, quota>>
      BY <1>1, <2>1 DEF Open
    <3>2. open' \in BOOLEAN /\ handler' \in BOOLEAN /\ timed' \in BOOLEAN
      BY <1>1, <2>1 DEF Open
    <3>. QED
      BY <3>1, <3>2
  <2>2. CASE ~open
    <3>1. /\ txBuf' = Zero /\ txR' = 0 /\ txW' = 0
          /\ rxBuf' = Zero /\ rxR' = 0 /\ rxW' = 0
      BY <1>1, <2>2 DEF Open
    <3>2. Zero \in [Pos -> Byte \cup {None}]
      BY DEF Zero
    <3>3. 0 \in Pos
      OBVIOUS
    <3>4. /\ txBuf' \in [Pos -> Byte \cup {None}] /\ txR' \in Pos /\ txW' \in 0 .. Size
          /\ rxBuf' \in [Pos -> Byte \cup {None}] /\ rxR' \in 0 .. Size /\ rxW' \in Pos
      BY <3>1, <3>2, <3>3
    <3>. QED
      BY <1>1, <2>2, <3>4 DEF Open
  <2>. QED
    BY <2>1, <2>2
<1>2. CASE Close
  BY <1>2 DEF Close
<1>3. CASE Shift
  BY <1>3 DEF Shift
<1>4. CASE Irq
  <2>1. /\ rxBuf' \in [Pos -> Byte \cup {None}] /\ rxR' = rxR /\ rxW' \in Pos
    <3>1. CASE Keeps
      <4>1. /\ rxBuf' = [rxBuf EXCEPT ![rxW] = rbr]
            /\ rxR' = rxR /\ rxW' = After(rxW)
        BY <3>1, <1>4 DEF Irq, IrqReceive
      <4>. QED
        BY <4>1, AfterType
    <3>2. CASE ~Keeps
      BY <3>2, <1>4 DEF Irq, IrqReceive
    <3>. QED
      BY <3>1, <3>2
  <2>2. rxSleeping' \in BOOLEAN /\ rxBlock' \in {0, 1} /\ rbr' = None
    BY <1>4 DEF Irq, IrqReceive, WakeReader
  <2>3. /\ txBuf' = txBuf /\ txR' \in Pos /\ txW' = txW
    <3>1. /\ txBuf' = txBuf /\ txW' = txW
          /\ txR' = txR \/ txR' = After(txR)
      BY <1>4 DEF Irq, IrqTransmit
    <3>2. After(txR) \in Pos
      <4>1. txR \in Nat
        OBVIOUS
      <4>. QED
        BY <4>1, AfterType
    <3>. QED
      BY <3>1, <3>2
  <2>4. txSleeping' \in BOOLEAN /\ txBlock' \in {0, 1}
    BY <1>4 DEF Irq, IrqTransmit, WakeWriter
  <2>5. /\ transmitting' \in BOOLEAN /\ etbei' \in BOOLEAN /\ thre' \in BOOLEAN
    BY <1>4 DEF Irq, IrqTransmit, TransmitterOff
  <2>6. wire' \in Byte \cup {None}
    <3>1. txW # txR => txBuf[txR] \in Byte \cup {None}
      OBVIOUS
    <3>. QED
      BY <3>1, <1>4 DEF Irq, IrqTransmit
  <2>. QED
    BY <1>4, <2>1, <2>2, <2>6, <2>3, <2>4, <2>5 DEF Irq
<1>5. ASSUME NEW finite \in BOOLEAN, SetTimeouts(finite) PROVE TypeOK'
  BY <1>5 DEF SetTimeouts
<1>6. ASSUME NEW b \in Byte, Arrive(b) PROVE TypeOK'
  BY <1>6 DEF Arrive
<1>7. ASSUME NEW t \in Task, Advance(t) PROVE TypeOK'
  <2>1. CASE WriteCheck(t)
    <3>1. pc' \in [Task -> Places]
      BY <2>1, GotoType DEF WriteCheck, Places, WritePcs, ReadPcs, Waiting, NextByte
    <3>2. txSleeping' \in BOOLEAN
      BY <2>1 DEF WriteCheck
    <3>. QED
      BY <2>1, <3>1, <3>2 DEF WriteCheck, Places
  <2>2. CASE WriteWake(t)
    <3>1. pc' \in [Task -> Places]
      BY <2>2, GotoType DEF WriteWake, Places, WritePcs, ReadPcs, Waiting, NextByte
    <3>. QED
      BY <2>2, <3>1 DEF WriteWake, Places
  <2>3. CASE PutWrap(t)
    <3>1. pc' \in [Task -> Places]
      BY <2>3, GotoType DEF PutWrap, Places, WritePcs, ReadPcs, Waiting, NextByte
    <3>. QED
      BY <2>3, <3>1 DEF PutWrap, Places
  <2>4. CASE Kick(t)
    <3>1. pc' \in [Task -> Places]
      BY <2>4, GotoType DEF Kick, Places, WritePcs, ReadPcs, Waiting, NextByte
    <3>. QED
      BY <2>4, <3>1 DEF Kick, Places
  <2>5. CASE ReadCheck(t)
    <3>1. pc' \in [Task -> Places]
      BY <2>5, GotoType DEF ReadCheck, Places, WritePcs, ReadPcs, Waiting, NextByte
    <3>2. rxSleeping' \in BOOLEAN
      BY <2>5 DEF ReadCheck
    <3>. QED
      BY <2>5, <3>1, <3>2 DEF ReadCheck, Places
  <2>6. CASE ReadWait(t)
    <3>1. pc' \in [Task -> Places]
      BY <2>6, GotoType DEF ReadWait, Places, WritePcs, ReadPcs, Waiting, NextByte
    <3>. QED
      BY <2>6, <3>1 DEF ReadWait, Places
  <2>7. CASE ReadWake(t)
    <3>1. pc' \in [Task -> Places]
      BY <2>7, GotoType DEF ReadWake, Places, WritePcs, ReadPcs, Waiting, NextByte
    <3>2. /\ rxSleeping' \in BOOLEAN /\ rxBlock' \in {0, 1}
          /\ upset' \in BOOLEAN /\ late' \in BOOLEAN
      BY <2>7 DEF ReadWake
    <3>. QED
      BY <2>7, <3>1, <3>2 DEF ReadWake, Places
  <2>8. CASE ReadTimeout(t)
    <3>1. pc' \in [Task -> Places]
      BY <2>8, GotoType DEF ReadTimeout, Places, WritePcs, ReadPcs, Waiting, NextByte
    <3>. QED
      BY <2>8, <3>1 DEF ReadTimeout, Places
  <2>9. CASE ReadExpired(t)
    <3>1. pc' \in [Task -> Places]
      BY <2>9, GotoType DEF ReadExpired, Places, WritePcs, ReadPcs, Waiting, NextByte
    <3>2. /\ rxSleeping' \in BOOLEAN /\ rxBlock' \in {0, 1}
          /\ upset' \in BOOLEAN /\ late' \in BOOLEAN
      BY <2>9 DEF ReadExpired
    <3>. QED
      BY <2>9, <3>1, <3>2 DEF ReadExpired, Places
  <2>10. CASE Copy(t)
    <3>1. pc' \in [Task -> Places]
      BY <2>10, GotoType DEF Copy, Places, WritePcs, ReadPcs, Waiting, NextByte
    <3>2. left' \in [Task -> 0 .. MaxLen]
      BY <2>10 DEF Copy
    <3>3. rxR \in Pos /\ rxR + 1 \in 0 .. Size
      BY <2>10 DEF Copy, AtEnd, Locks, ReadPcs
    <3>4. rxBuf[rxR] \in Byte \cup {None}
      BY <3>3
    <3>. QED
      BY <2>10, <3>1, <3>2, <3>3, <3>4 DEF Copy, Places
  <2>11. CASE CopyWrap(t)
    <3>1. pc' \in [Task -> Places]
      BY <2>11, GotoType DEF CopyWrap, Places, WritePcs, ReadPcs, Waiting, NextByte
    <3>. QED
      BY <2>11, <3>1 DEF CopyWrap, Places
  <2>12. CASE ReadReturn(t)
    <3>1. pc' \in [Task -> Places]
      BY <2>12, GotoType DEF ReadReturn, Places, WritePcs, ReadPcs, Waiting, NextByte
    <3>2. left' \in [Task -> 0 .. MaxLen]
      BY <2>12 DEF ReadReturn
    <3>. QED
      BY <2>12, <3>1, <3>2 DEF ReadReturn, Places
  <2>13. ASSUME NEW b \in Byte, Put(t, b) PROVE TypeOK'
    <3>1. pc' \in [Task -> Places]
      BY <2>13, GotoType DEF Put, Places, WritePcs, NextByte
    <3>2. left' \in [Task -> 0 .. MaxLen]
      BY <2>13 DEF Put, BytesLeft
    <3>3. txW' \in 0 .. Size
      BY <2>13 DEF Put, AtEnd, Locks, WritePcs
    <3>. QED
      BY <2>13, <3>1, <3>2, <3>3 DEF Put, Places
  <2>. QED
    BY <1>7, <2>1, <2>2, <2>3, <2>4, <2>5, <2>6, <2>7, <2>8, <2>9, <2>10, <2>11, <2>12, <2>13 DEF Advance
<1>8. ASSUME NEW t \in Task, NEW n \in 1 .. MaxLen, WriteBegin(t, n) \/ ReadBegin(t, n)
      PROVE TypeOK'
  <2>1. pc' \in [Task -> Places]
    BY <1>8, GotoType DEF WriteBegin, ReadBegin, Places, WritePcs, ReadPcs
  <2>2. left' \in [Task -> 0 .. MaxLen]
    BY <1>8 DEF WriteBegin, ReadBegin
  <2>3. CASE WriteBegin(t, n)
    BY <2>1, <2>2, <2>3 DEF WriteBegin, Places
  <2>4. CASE ReadBegin(t, n)
    BY <2>1, <2>2, <2>4 DEF ReadBegin, Places
  <2>. QED
    BY <1>8, <2>3, <2>4
<1>9. CASE UNCHANGED vars
  BY <1>9 DEF vars
<1>. QED
  BY <1>1, <1>2, <1>3, <1>4, <1>5, <1>6, <1>7, <1>8, <1>9 DEF Next

-----------------------------------------------------------------------------
(* The steps of a call in between its first and its last one.              *)
Writing(t) == \/ WriteCheck(t) \/ WriteWake(t) \/ PutWrap(t)
              \/ \E b \in Byte : Put(t, b)
Reading(t) == \/ ReadCheck(t) \/ ReadWait(t) \/ ReadWake(t)
              \/ ReadTimeout(t) \/ ReadExpired(t)
              \/ Copy(t) \/ CopyWrap(t)

(* The steps that leave the tasks where they are.                          *)
Around == \/ Open \/ Close \/ Shift \/ Irq
          \/ \E finite \in BOOLEAN : SetTimeouts(finite)
          \/ \E b \in Byte : Arrive(b)
          \/ UNCHANGED vars

(* Every step is one around the tasks or one of a task's call.             *)
LEMMA NextCases ==
  ASSUME [Next]_vars
  PROVE  \/ Around
         \/ \E t \in Task : \/ Writing(t) \/ Reading(t) \/ Kick(t) \/ ReadReturn(t)
                            \/ \E n \in 1 .. MaxLen : WriteBegin(t, n) \/ ReadBegin(t, n)
BY DEF Next, Advance, Writing, Reading, Around

(* What the steps do to the locks and to the places of the tasks.          *)
LEMMA AroundTasks ==
  ASSUME Around
  PROVE  UNCHANGED <<txLock, rxLock, pc, left>>
BY DEF Around, Open, Close, Shift, Irq, SetTimeouts, Arrive, vars, taskVars

LEMMA WritingTasks ==
  ASSUME PortInv, NEW t \in Task, Writing(t)
  PROVE  /\ pc[t] \in WritePcs \ {"kick"} /\ UNCHANGED <<txLock, rxLock>>
         /\ \E where \in WritePcs : pc' = [pc EXCEPT ![t] = where]
BY DEF Writing, WriteCheck, WriteWake, PutWrap, Put, WritePcs, Goto, NextByte

LEMMA ReadingTasks ==
  ASSUME PortInv, NEW t \in Task, Reading(t)
  PROVE  /\ pc[t] \in ReadPcs /\ UNCHANGED <<txLock, rxLock>>
         /\ \E where \in ReadPcs : pc' = [pc EXCEPT ![t] = where]
BY DEF Reading, ReadCheck, ReadWait, ReadWake, ReadTimeout, ReadExpired, Copy,
       CopyWrap, ReadPcs, Waiting, Goto

LEMMA StepLocks == PortInv /\ [Next]_vars => Locks'
<1>. SUFFICES ASSUME PortInv, [Next]_vars PROVE Locks'
  OBVIOUS
<1>. USE UartAssumption DEF PortInv, TypeOK, Locks
<1>1. CASE Around
  BY <1>1, AroundTasks
<1>2. ASSUME NEW t \in Task, Writing(t) PROVE Locks'
  BY <1>2, WritingTasks DEF WritePcs, ReadPcs, Waiting
<1>3. ASSUME NEW t \in Task, Reading(t) PROVE Locks'
  BY <1>3, ReadingTasks DEF WritePcs, ReadPcs, Waiting
<1>4. ASSUME NEW t \in Task, Kick(t) PROVE Locks'
  BY <1>4 DEF Kick, Goto, WritePcs, ReadPcs, Waiting
<1>5. ASSUME NEW t \in Task, ReadReturn(t) PROVE Locks'
  BY <1>5 DEF ReadReturn, Goto, WritePcs, ReadPcs, Waiting
<1>6. ASSUME NEW t \in Task, NEW n \in 1 .. MaxLen, WriteBegin(t, n) PROVE Locks'
  BY <1>6 DEF WriteBegin, Goto, WritePcs, ReadPcs, Waiting
<1>7. ASSUME NEW t \in Task, NEW n \in 1 .. MaxLen, ReadBegin(t, n) PROVE Locks'
  BY <1>7 DEF ReadBegin, Goto, WritePcs, ReadPcs, Waiting
<1>. QED
  BY <1>1, <1>2, <1>3, <1>4, <1>5, <1>6, <1>7, NextCases

LEMMA StepShut == PortInv /\ [Next]_vars => Shut'
<1>. SUFFICES ASSUME PortInv, [Next]_vars PROVE Shut'
  OBVIOUS
<1>. USE DEF PortInv, Shut, Quiet
<1>1. CASE Around
  BY <1>1 DEF Around, Open, Close, Shift, Irq, SetTimeouts, Arrive, vars, portVars, taskVars, Quiet
<1>2. ASSUME NEW t \in Task,
             \/ Writing(t) \/ Reading(t) \/ Kick(t) \/ ReadReturn(t)
             \/ \E n \in 1 .. MaxLen : WriteBegin(t, n) \/ ReadBegin(t, n)
      PROVE  Shut'
  <2>1. UNCHANGED portVars
    BY <1>2 DEF Writing, WriteCheck, WriteWake, PutWrap, Put, Reading, ReadCheck,
                ReadWait, ReadWake, ReadTimeout, ReadExpired, Copy, CopyWrap,
                Kick, ReadReturn, WriteBegin, ReadBegin
  <2>2. pc[t] # "idle" \/ open
    BY <1>2, WritingTasks, ReadingTasks DEF Kick, ReadReturn, WriteBegin, ReadBegin,
                WritePcs, ReadPcs, Waiting
  <2>. QED
    BY <2>1, <2>2 DEF portVars
<1>. QED
  BY <1>1, <1>2, NextCases

(* Only a writer's Put and PutWrap move txW, only a reader's Copy and      *)
(* CopyWrap move rxR, and opening the port puts both at zero.              *)
LEMMA AroundAtEnd ==
  ASSUME PortInv, Around
  PROVE  AtEnd'
<1>. USE UartAssumption DEF PortInv, AtEnd
<1>1. UNCHANGED pc
  BY AroundTasks
<1>2. CASE Open
  BY <1>1, <1>2 DEF Open, Shut, Quiet, txRing, rxRing
<1>3. CASE ~Open
  <2>1. UNCHANGED <<txW, rxR>>
    BY <1>3 DEF Around, Close, Shift, Irq, IrqReceive, IrqTransmit, SetTimeouts, Arrive,
                vars, txRing, rxRing
  <2>. QED
    BY <1>1, <2>1
<1>. QED
  BY <1>2, <1>3

LEMMA StepAtEnd == PortInv /\ [Next]_vars => AtEnd'
<1>. SUFFICES ASSUME PortInv, [Next]_vars PROVE AtEnd'
  OBVIOUS
<1>. USE UartAssumption DEF PortInv, TypeOK, AtEnd, Pos
<1>1. CASE Around
  BY <1>1, AroundAtEnd
<1>2. ASSUME NEW t \in Task, NEW b \in Byte, Put(t, b) PROVE AtEnd'
  BY <1>2 DEF Put, Goto, NextByte, Locks, WritePcs, rxRing
<1>3. ASSUME NEW t \in Task, PutWrap(t) PROVE AtEnd'
  BY <1>3 DEF PutWrap, Goto, NextByte, Locks, WritePcs, rxRing
<1>4. ASSUME NEW t \in Task, Copy(t) PROVE AtEnd'
  BY <1>4 DEF Copy, Goto, Locks, ReadPcs, txRing
<1>5. ASSUME NEW t \in Task, CopyWrap(t) PROVE AtEnd'
  BY <1>5 DEF CopyWrap, Goto, Locks, ReadPcs, txRing
<1>6. ASSUME NEW t \in Task,
             \/ WriteCheck(t) \/ WriteWake(t) \/ Kick(t)
             \/ ReadCheck(t) \/ ReadWait(t) \/ ReadWake(t)
             \/ ReadTimeout(t) \/ ReadExpired(t) \/ ReadReturn(t)
             \/ \E n \in 1 .. MaxLen : WriteBegin(t, n) \/ ReadBegin(t, n)
      PROVE  AtEnd'
  <2>1. UNCHANGED <<txW, rxR>>
    BY <1>6 DEF WriteCheck, WriteWake, Kick, ReadCheck, ReadWait, ReadWake, ReadTimeout,
                ReadExpired, ReadReturn, WriteBegin, ReadBegin, txRing, rxRing
  <2>2. /\ pc[t] \notin {"wrap", "rwrap"}
        /\ \E where \in Places \ {"wrap", "rwrap"} : pc' = [pc EXCEPT ![t] = where]
    BY <1>6 DEF WriteCheck, WriteWake, Kick, ReadCheck, ReadWait, ReadWake, ReadTimeout,
                ReadExpired, ReadReturn, WriteBegin, ReadBegin, Goto,
                Places, WritePcs, ReadPcs, Waiting
  <2>. QED
    BY <2>1, <2>2
<1>. QED
  BY <1>1, <1>2, <1>3, <1>4, <1>5, <1>6, NextCases DEF Writing, Reading

LEMMA StepBytesLeft == PortInv /\ [Next]_vars => BytesLeft'
<1>. SUFFICES ASSUME PortInv, [Next]_vars PROVE BytesLeft'
  OBVIOUS
<1>. USE UartAssumption DEF PortInv, TypeOK, BytesLeft
<1>1. CASE Around
  BY <1>1, AroundTasks
<1>2. ASSUME NEW t \in Task, NEW b \in Byte, Put(t, b) PROVE BytesLeft'
  BY <1>2 DEF Put, Goto, NextByte
<1>3. ASSUME NEW t \in Task, WriteCheck(t) \/ WriteWake(t) \/ PutWrap(t) PROVE BytesLeft'
  BY <1>3 DEF WriteCheck, WriteWake, PutWrap, Goto, NextByte
<1>4. ASSUME NEW t \in Task, Kick(t) \/ ReadReturn(t) PROVE BytesLeft'
  BY <1>4 DEF Kick, ReadReturn, Goto
<1>5. ASSUME NEW t \in Task, Reading(t) PROVE BytesLeft'
  <2>1. \A u \in Task \ {t} : left'[u] = left[u]
    BY <1>5 DEF Reading, ReadCheck, ReadWait, ReadWake, ReadTimeout, ReadExpired, Copy, CopyWrap
  <2>. QED
    BY <1>5, <2>1, ReadingTasks DEF ReadPcs, Waiting
<1>6. ASSUME NEW t \in Task, NEW n \in 1 .. MaxLen, WriteBegin(t, n) \/ ReadBegin(t, n)
      PROVE  BytesLeft'
  BY <1>6 DEF WriteBegin, ReadBegin, Goto
<1>. QED
  BY <1>1, <1>2, <1>3, <1>4, <1>5, <1>6, NextCases DEF Writing

LEMMA InitPortInv == Init => PortInv
<1>. SUFFICES ASSUME Init PROVE PortInv
  OBVIOUS
<1>. USE UartAssumption DEF Init
<1>1. Zero \in [Pos -> Byte \cup {None}] /\ 0 \in Pos
  BY DEF Zero, Pos
<1>2. TypeOK
  <2>1. pc \in [Task -> {"idle"} \cup WritePcs \cup ReadPcs] /\ left \in [Task -> 0 .. MaxLen]
    OBVIOUS
  <2>2. 0 \in 0 .. Size /\ Quota \in 0 .. Quota
    OBVIOUS
  <2>. QED
    BY <1>1, <2>1, <2>2 DEF TypeOK
<1>3. Locks
  BY DEF Locks, WritePcs, ReadPcs, Waiting
<1>4. Shut /\ AtEnd /\ BytesLeft
  BY DEF Shut, Quiet, AtEnd, BytesLeft
<1>. QED
  BY <1>2, <1>3, <1>4 DEF PortInv

(* Locks, places and indices fit together.                                 *)
THEOREM PortInvariance == Spec => []PortInv
<1>1. PortInv /\ [Next]_vars => PortInv'
  BY StepTypeOK, StepLocks, StepShut, StepAtEnd, StepBytesLeft DEF PortInv
<1>. QED
  BY <1>1, InitPortInv, PTL DEF Spec

(* Values in range, whatever the application and the build do, and an      *)
(* index at the end of its ring only while a task wraps it.                *)
THEOREM TypeCorrect == Spec => []TypeOK
<1>1. PortInv => TypeOK
  BY DEF PortInv
<1>. QED
  BY <1>1, PortInvariance, PTL

-----------------------------------------------------------------------------
(* Positions in a ring: the remainders of the code, without remainders.    *)

LEMMA AfterIs ==
  ASSUME NEW i \in Pos
  PROVE  After(i) = IF i + 1 = Size THEN 0 ELSE i + 1
<1>1. \A n \in 0 .. Size - 1 : n % Size = n
  BY UartAssumption
<1>2. Size % Size = 0
  BY UartAssumption
<1>. QED
  BY UartAssumption, <1>1, <1>2 DEF After, Pos

LEMMA CountIs ==
  ASSUME NEW r \in 0 .. Size, NEW w \in 0 .. Size
  PROVE  Count(r, w) = IF w < r THEN w + Size - r
                       ELSE IF w = r + Size THEN 0 ELSE w - r
<1>1. \A n \in 0 .. Size - 1 : n % Size = n
  BY UartAssumption
<1>2. \A n \in Size .. 2 * Size - 1 : n % Size = n - Size
  BY UartAssumption
<1>3. (2 * Size) % Size = 0
  BY UartAssumption
<1>4. CASE w < r
  BY <1>1, <1>4, UartAssumption DEF Count
<1>5. CASE w >= r /\ w # r + Size
  BY <1>2, <1>5, UartAssumption DEF Count
<1>6. CASE w = r + Size
  BY <1>3, <1>6, UartAssumption DEF Count
<1>. QED
  BY <1>4, <1>5, <1>6

(* A ring is full when one byte fewer than its size is in it.              *)
LEMMA FullIs ==
  ASSUME NEW r \in Pos, NEW w \in Pos
  PROVE  Full(r, w) <=> Count(r, w) = Size - 1
BY AfterIs, CountIs, UartAssumption DEF Full, Pos

LEMMA CountIn ==
  ASSUME NEW r \in Pos, NEW w \in Pos, ~Full(r, w)
  PROVE  /\ w + 1 \in 0 .. Size /\ Count(r, w + 1) = Count(r, w) + 1
         /\ Count(r, After(w)) = Count(r, w) + 1
BY AfterIs, CountIs, UartAssumption DEF Full, Pos

LEMMA CountOut ==
  ASSUME NEW r \in Pos, NEW w \in Pos, r # w
  PROVE  /\ r + 1 \in 0 .. Size /\ Count(r + 1, w) = Count(r, w) - 1
         /\ Count(After(r), w) = Count(r, w) - 1
         /\ Count(r, w) > 0
BY AfterIs, CountIs, UartAssumption DEF Pos

LEMMA CountWrap ==
  ASSUME NEW i \in Pos
  PROVE  Count(i, 0) = Count(i, Size) /\ Count(0, i) = Count(Size, i)
BY CountIs, UartAssumption DEF Pos

LEMMA CountEmpty ==
  ASSUME NEW r \in Pos, NEW w \in Pos
  PROVE  Count(r, w) \in 0 .. Size - 1 /\ (Count(r, w) = 0 <=> r = w)
BY CountIs, UartAssumption DEF Pos

-----------------------------------------------------------------------------
(* Writers.                                                                *)

(* The three things the handler may do to the transmit ring.               *)
LEMMA IrqSends ==
  ASSUME Irq
  PROVE  \/ UNCHANGED <<txRing, txSync, transmitting, etbei, wire>>
         \/ /\ thre /\ txW # txR
            /\ wire' = txBuf[txR] /\ txR' = After(txR) /\ WakeWriter
            /\ UNCHANGED <<txBuf, txW, transmitting, etbei>>
         \/ /\ txW = txR /\ TransmitterOff
            /\ UNCHANGED <<txRing, txSync, wire>>
BY DEF Irq, IrqTransmit, hwVars

(* The handler makes room in the ring, never the opposite; while a write   *)
(* index is at the end no writer sleeps or is about to put a byte.         *)
LEMMA IrqWriterInv ==
  ASSUME PortInv, WriterInv, Irq
  PROVE  WriterInv'
<1>. USE UartAssumption
<1>1. txR \in Pos /\ txW \in 0 .. Size /\ UNCHANGED pc
  BY AroundTasks DEF Around, PortInv, TypeOK
<1>2. CASE UNCHANGED <<txRing, txSync>>
  BY <1>1, <1>2 DEF WriterInv, txRing, txSync, Full
<1>3. CASE txW # txR /\ txR' = After(txR) /\ WakeWriter /\ UNCHANGED txW /\ txW \in Pos
  <2>1. ~Full(txR, txW)'
    <3>1. After(txR) \in Pos /\ Count(After(txR), txW) = Count(txR, txW) - 1
      BY <1>1, <1>3, CountOut, AfterIs DEF Pos
    <3>2. Count(txR, txW) \in 0 .. Size - 1
      BY <1>1, <1>3, CountEmpty
    <3>3. ~Full(After(txR), txW)
      BY <1>3, <3>1, <3>2, FullIs
    <3>. QED
      BY <1>3, <3>3 DEF Full
  <2>2. CASE txSleeping
    BY <1>1, <1>3, <2>1, <2>2 DEF WakeWriter, WriterInv
  <2>3. CASE ~txSleeping
    BY <1>1, <1>3, <2>1, <2>3 DEF WakeWriter, WriterInv, txSync
  <2>. QED
    BY <2>2, <2>3
<1>4. CASE WakeWriter /\ txW \notin Pos
  <2>1. \E t \in Task : pc[t] = "wrap"
    BY <1>1, <1>4 DEF PortInv, AtEnd, Pos
  <2>2. \A t \in Task : pc[t] \notin {"asleep", "put"}
    BY <2>1 DEF PortInv, Locks, WritePcs
  <2>3. ~txSleeping /\ txBlock # 1
    BY <2>2 DEF WriterInv
  <2>. QED
    BY <1>1, <1>4, <2>2, <2>3 DEF WriterInv, WakeWriter, txSync
<1>. QED
  BY <1>2, <1>3, <1>4, IrqSends

LEMMA StepWriterInv ==
  ASSUME PortInv, WriterInv, [Next]_vars
  PROVE  WriterInv'
<1>. USE UartAssumption DEF PortInv, TypeOK
<1>1. CASE Irq
  BY <1>1, IrqWriterInv
<1>2. CASE Around /\ ~Irq
  <2>1. UNCHANGED <<txSync, pc>>
    BY <1>2, AroundTasks DEF Around, Open, Close, Shift, SetTimeouts, Arrive, vars
  <2>2. CASE Open /\ ~open
    BY <2>1, <2>2 DEF WriterInv, Shut, Quiet, txSync
  <2>3. CASE ~(Open /\ ~open)
    <3>1. UNCHANGED txRing
      BY <1>2, <2>3 DEF Around, Open, Close, Shift, SetTimeouts, Arrive, vars
    <3>. QED
      BY <2>1, <3>1 DEF WriterInv, txSync, txRing, Full
  <2>. QED
    BY <2>2, <2>3
<1>3. ASSUME NEW t \in Task, WriteCheck(t) PROVE WriterInv'
  <2>1. CASE Full(txR, txW)
    BY <1>3, <2>1 DEF WriterInv, WriteCheck, txRing, Goto, Full, Locks, WritePcs
  <2>2. CASE ~Full(txR, txW)
    BY <1>3, <2>2 DEF WriterInv, WriteCheck, txRing, Goto, Full, Locks, WritePcs
  <2>. QED
    BY <2>1, <2>2
<1>4. ASSUME NEW t \in Task, WriteWake(t) PROVE WriterInv'
  BY <1>4 DEF WriterInv, WriteWake, txRing, Goto, Full, Locks, WritePcs
<1>5. ASSUME NEW t \in Task,
             PutWrap(t) \/ Kick(t) \/ (\E b \in Byte : Put(t, b))
             \/ \E n \in 1 .. MaxLen : WriteBegin(t, n)
      PROVE  WriterInv'
  <2>1. ~txSleeping /\ txBlock = 0 /\ \A u \in Task : pc[u] \notin {"asleep", "put"} \/ u = t
    BY <1>5 DEF WriterInv, PutWrap, Kick, Put, WriteBegin, Locks, WritePcs
  <2>2. UNCHANGED txSync /\ \A u \in Task : pc'[u] \notin {"asleep", "put"}
    BY <1>5, <2>1 DEF PutWrap, Kick, Put, WriteBegin, Goto, NextByte
  <2>. QED
    BY <2>1, <2>2 DEF WriterInv, txSync
<1>6. ASSUME NEW t \in Task,
             \/ Reading(t) \/ ReadReturn(t)
             \/ \E n \in 1 .. MaxLen : ReadBegin(t, n)
      PROVE  WriterInv'
  <2>1. UNCHANGED <<txRing, txSync>>
    BY <1>6 DEF Reading, ReadCheck, ReadWait, ReadWake, ReadTimeout, ReadExpired, Copy,
                CopyWrap, ReadReturn, ReadBegin
  <2>2. pc[t] \notin {"asleep", "put"} /\ pc'[t] \notin {"asleep", "put"}
        /\ \A u \in Task \ {t} : pc'[u] = pc[u]
    BY <1>6, ReadingTasks DEF ReadReturn, ReadBegin, Goto, ReadPcs, Waiting
  <2>. QED
    BY <2>1, <2>2 DEF WriterInv, txRing, txSync, Full
<1>. QED
  BY <1>1, <1>2, <1>3, <1>4, <1>5, <1>6, NextCases DEF Writing

(* What is in the transmit ring, and what each step does to it.            *)
Held == Count(txR, txW)

LEMMA IrqHeld ==
  ASSUME PortInv, Irq, ~TxOffEnd, thre, txW # txR, txR' = After(txR), UNCHANGED txW
  PROVE  Held' = Held - 1 /\ Held > 0
<1>. USE UartAssumption
<1>1. txR \in Pos /\ txW \in 0 .. Size
  BY DEF PortInv, TypeOK
<1>2. CASE txW \in Pos
  BY <1>1, <1>2, CountOut DEF Held, Count
<1>3. CASE txW = Size
  <2>1. txR # 0 /\ 0 \in Pos
    BY <1>3 DEF TxOffEnd, PortInv, AtEnd, Pos
  <2>2. Count(After(txR), 0) = Count(txR, 0) - 1 /\ Count(txR, 0) > 0
    BY <1>1, <2>1, CountOut
  <2>3. Count(After(txR), Size) = Count(After(txR), 0) /\ Count(txR, Size) = Count(txR, 0)
    BY <1>1, CountWrap, AfterIs DEF Pos
  <2>. QED
    BY <1>3, <2>2, <2>3 DEF Held, Count
<1>. QED
  BY <1>1, <1>2, <1>3 DEF Pos

LEMMA PutHeld ==
  ASSUME PortInv, WriterInv, NEW t \in Task, NEW b \in Byte, Put(t, b)
  PROVE  txW \in Pos /\ Held' = Held + 1
<1>1. txW # Size
  BY DEF Put, PortInv, AtEnd, Locks, WritePcs
<1>2. txW \in Pos /\ txR \in Pos
  BY <1>1, UartAssumption DEF PortInv, TypeOK, Pos
<1>3. ~Full(txR, txW)
  BY DEF Put, WriterInv
<1>. QED
  BY <1>2, <1>3, CountIn DEF Put, Held, Count

LEMMA WrapHeld ==
  ASSUME PortInv, NEW t \in Task, PutWrap(t)
  PROVE  txW = Size /\ Held' = Held
<1>1. txW = Size /\ txR \in Pos
  BY DEF PutWrap, PortInv, AtEnd, TypeOK
<1>. QED
  BY <1>1, CountWrap DEF PutWrap, Held, Count

LEMMA HeldType ==
  ASSUME PortInv
  PROVE  Held \in 0 .. Size
<1>1. txR \in 0 .. Size /\ txW \in 0 .. Size
  BY UartAssumption DEF PortInv, TypeOK, Pos
<1>. QED
  BY <1>1, CountIs, UartAssumption DEF Held

LEMMA IrqDrainInv ==
  ASSUME PortInv, WriterInv, DrainInv, Irq
  PROVE  DrainInv'
<1>. USE UartAssumption
<1>1. UNCHANGED <<open, pc, left>>
  BY AroundTasks DEF Around, Irq, portVars
<1>2. SUFFICES ASSUME open, ~upset, ~TxOffEnd PROVE DrainInv'
  BY <1>1 DEF Irq, DrainInv
<1>3. txR \in Pos /\ Held \in 0 .. Size
  BY HeldType DEF PortInv, TypeOK
<1>4. CASE UNCHANGED <<txRing, txSync, transmitting, etbei, wire>>
  BY <1>1, <1>2, <1>4 DEF DrainInv, txRing, txSync, Count, Starting
<1>5. CASE /\ thre /\ txW # txR /\ txR' = After(txR) /\ WakeWriter
           /\ UNCHANGED <<txBuf, txW, transmitting, etbei>>
  <2>1. Held' = Held - 1 /\ Held > 0
    BY <1>2, <1>5, IrqHeld
  <2>2. ~txSleeping'
    BY <1>5 DEF WakeWriter, txSync
  <2>. QED
    BY <1>1, <1>2, <1>3, <1>5, <2>1, <2>2 DEF DrainInv, Held, Starting, PortInv, TypeOK
<1>6. CASE txW = txR /\ TransmitterOff /\ UNCHANGED <<txRing, txSync, wire>>
  <2>1. Held = 0 /\ Held' = 0
    BY <1>3, <1>6, CountEmpty DEF Held, txRing, Count
  <2>2. ~Full(txR, txW)
    BY <1>3, <1>6, <2>1, FullIs DEF Held
  <2>. QED
    BY <1>1, <1>6, <2>1, <2>2 DEF DrainInv, Held, TransmitterOff, WriterInv, txSync
<1>. QED
  BY <1>4, <1>5, <1>6, IrqSends

LEMMA StepDrainInv ==
  ASSUME PortInv, WriterInv, WriterInv', DrainInv, [Next]_vars
  PROVE  DrainInv'
<1>. USE UartAssumption DEF PortInv, TypeOK
<1>1. Held \in 0 .. Size
  BY HeldType
<1>2. CASE Irq
  BY <1>2, IrqDrainInv
<1>3. CASE Open
  <2>1. CASE open
    BY <1>3, <2>1 DEF Open, DrainInv, txRing, txSync, hwVars, taskVars, Count, Starting
  <2>2. CASE ~open
    <3>1. Count(txR, txW)' = 0
      BY <1>3, <2>2, CountEmpty DEF Open, Pos, Count
    <3>2. ~txSleeping'
      BY <1>3, <2>2 DEF Open, WriterInv, Shut, Quiet, txSync
    <3>3. ~upset' => (etbei' = transmitting')
      BY <1>3, <2>2 DEF Open
    <3>. QED
      BY <3>1, <3>2, <3>3 DEF DrainInv
  <2>. QED
    BY <2>1, <2>2
<1>4. CASE Close
  BY <1>4 DEF Close, DrainInv
<1>5. CASE \/ Shift \/ UNCHANGED vars
           \/ \E finite \in BOOLEAN : SetTimeouts(finite)
           \/ \E b \in Byte : Arrive(b)
  <2>1. UNCHANGED <<open, upset, txR, txW, txSleeping, etbei, transmitting, pc, left>>
    BY <1>5 DEF Shift, SetTimeouts, Arrive, vars, portVars, notes, txRing, txSync, hwVars, taskVars
  <2>. QED
    BY <2>1 DEF DrainInv, Count, Starting
<1>6. ASSUME NEW t \in Task, WriteCheck(t) PROVE DrainInv'
  <2>1. UNCHANGED <<open, upset, txRing, hwVars, left>>
    BY <1>6 DEF WriteCheck, portVars, notes
  <2>2. CASE Full(txR, txW)
    <3>1. Held = Size - 1
      BY <1>6, <2>2, <1>1, FullIs DEF Held, WriteCheck, AtEnd, Locks, WritePcs, Pos
    <3>2. \A u \in Task : Starting(u) => u = t
      BY <1>6 DEF WriteCheck, Locks, WritePcs, Starting
    <3>3. (open /\ ~upset) => transmitting
      BY <1>6, <3>1, <3>2 DEF DrainInv, Held, WriteCheck, BytesLeft
    <3>. QED
      BY <2>1, <3>3 DEF DrainInv, hwVars
  <2>3. CASE ~Full(txR, txW)
    <3>1. UNCHANGED txSleeping /\ pc' = [pc EXCEPT ![t] = "put"]
      BY <1>6, <2>3 DEF WriteCheck, Goto
    <3>. QED
      BY <1>6, <2>1, <3>1 DEF DrainInv, hwVars, txRing, Count, Starting, WriteCheck
  <2>. QED
    BY <2>2, <2>3
<1>7. ASSUME NEW t \in Task, WriteWake(t) PROVE DrainInv'
  BY <1>7 DEF DrainInv, WriteWake, Goto, portVars, notes, txRing, hwVars, Count, Starting
<1>8. ASSUME NEW t \in Task, NEW b \in Byte, Put(t, b) PROVE DrainInv'
  <2>1. Held' = Held + 1 /\ txW \in Pos
    BY <1>8, <1>1, PutHeld
  <2>2. left'[t] = left[t] - 1 /\ Starting(t)'
    BY <1>8 DEF Put, Goto, NextByte, Starting
  <2>3. \A u \in Task : Starting(u) => u = t
    BY <1>8 DEF Put, Locks, WritePcs, Starting
  <2>4. UNCHANGED <<open, upset, txSleeping, etbei, transmitting>>
    BY <1>8 DEF Put, portVars, notes, txSync, hwVars
  <2>5. (open /\ ~upset /\ ~transmitting) => Held + left[t] <= MaxLen
    BY <1>1, <2>3 DEF DrainInv, Held
  <2>. QED
    BY <1>1, <2>1, <2>2, <2>4, <2>5 DEF DrainInv, Held
<1>9. ASSUME NEW t \in Task, PutWrap(t) PROVE DrainInv'
  <2>1. Held' = Held
    BY <1>9, WrapHeld
  <2>2. UNCHANGED <<open, upset, txSleeping, etbei, transmitting, left>>
    BY <1>9 DEF PutWrap, portVars, notes, txSync, hwVars
  <2>3. \A u \in Task : Starting(u) => Starting(u)'
    BY <1>9 DEF PutWrap, Goto, NextByte, Starting
  <2>. QED
    BY <2>1, <2>2, <2>3 DEF DrainInv, Held
<1>10. ASSUME NEW t \in Task, Kick(t) PROVE DrainInv'
  BY <1>10 DEF Kick, DrainInv, portVars, notes, Shut, Quiet
<1>11. ASSUME NEW t \in Task, NEW n \in 1 .. MaxLen, WriteBegin(t, n) PROVE DrainInv'
  BY <1>11 DEF WriteBegin, DrainInv, Starting, Goto, Locks, WritePcs, portVars, notes, txRing,
               txSync, hwVars, Count
<1>12. ASSUME NEW t \in Task,
              \/ Reading(t) \/ ReadReturn(t)
              \/ \E n \in 1 .. MaxLen : ReadBegin(t, n)
       PROVE  DrainInv'
  <2>1. UNCHANGED <<open, upset, txRing, txSync, hwVars>>
    BY <1>12 DEF Reading, ReadCheck, ReadWait, ReadWake, ReadTimeout, ReadExpired, Copy,
                 CopyWrap, ReadReturn, ReadBegin, portVars, notes
  <2>2. ~Starting(t)
    BY <1>12, ReadingTasks DEF ReadReturn, ReadBegin, ReadPcs, Waiting, Starting
  <2>3. \A u \in Task \ {t} : pc'[u] = pc[u] /\ left'[u] = left[u]
    BY <1>12 DEF Reading, ReadCheck, ReadWait, ReadWake, ReadTimeout, ReadExpired, Copy,
                 CopyWrap, ReadReturn, ReadBegin, Goto
  <2>4. \A u \in Task : Starting(u) => Starting(u)' /\ left'[u] = left[u]
    BY <2>2, <2>3 DEF Starting
  <2>. QED
    BY <2>1, <2>4 DEF DrainInv, txRing, txSync, hwVars, Count
<1>. QED
  BY <1>2, <1>3, <1>4, <1>5, <1>6, <1>7, <1>8, <1>9, <1>10, <1>11, <1>12, NextCases
     DEF Writing, Around

-----------------------------------------------------------------------------
(* Readers.                                                                *)

(* The two things the handler may do to the receive ring.                  *)
LEMMA IrqKeeps ==
  ASSUME Irq
  PROVE  \/ ~Keeps /\ UNCHANGED <<rxBuf, rxR, rxW, rxSync>>
         \/ /\ Keeps /\ rxBuf' = [rxBuf EXCEPT ![rxW] = rbr]
            /\ rxR' = rxR /\ rxW' = After(rxW) /\ WakeReader
BY DEF Irq, IrqReceive

(* The steps that are none of the receive ring's business.                 *)
LEMMA WritersRx ==
  ASSUME PortInv, NEW t \in Task,
         \/ Writing(t) \/ Kick(t)
         \/ \E n \in 1 .. MaxLen : WriteBegin(t, n)
  PROVE  /\ UNCHANGED <<portVars, notes, rxRing, rxSync, got>>
         /\ pc[t] \notin ReadPcs /\ pc'[t] \notin ReadPcs
         /\ \A u \in Task \ {t} : pc'[u] = pc[u]
<1>1. UNCHANGED <<portVars, notes, rxRing, rxSync, got>>
  BY DEF Writing, WriteCheck, WriteWake, PutWrap, Put, Kick, WriteBegin
<1>. QED
  BY <1>1, WritingTasks DEF Kick, WriteBegin, Goto, PortInv, TypeOK, WritePcs, ReadPcs, Waiting

LEMMA ReadersTx ==
  ASSUME PortInv, NEW t \in Task,
         \/ Reading(t) \/ ReadReturn(t)
         \/ \E n \in 1 .. MaxLen : ReadBegin(t, n)
  PROVE  /\ UNCHANGED <<portVars, txRing, txSync, hwVars>>
         /\ pc[t] \notin WritePcs /\ pc'[t] \notin WritePcs
         /\ \A u \in Task \ {t} : pc'[u] = pc[u] /\ left'[u] = left[u]
<1>1. UNCHANGED <<portVars, txRing, txSync, hwVars>>
  BY DEF Reading, ReadCheck, ReadWait, ReadWake, ReadTimeout, ReadExpired, Copy,
         CopyWrap, ReadReturn, ReadBegin
<1>2. \A u \in Task \ {t} : pc'[u] = pc[u] /\ left'[u] = left[u]
  BY DEF PortInv, TypeOK, Reading, ReadCheck, ReadWait, ReadWake, ReadTimeout, ReadExpired, Copy,
         CopyWrap, ReadReturn, ReadBegin, Goto
<1>. QED
  BY <1>1, <1>2, ReadingTasks DEF ReadReturn, ReadBegin, Goto, PortInv, TypeOK,
     WritePcs, ReadPcs, Waiting

LEMMA StepReaderInv ==
  ASSUME PortInv, ReaderInv, [Next]_vars
  PROVE  ReaderInv'
<1>. USE UartAssumption DEF PortInv, TypeOK
<1>1. CASE Irq
  <2>1. UNCHANGED pc
    BY <1>1, AroundTasks DEF Around
  <2>2. CASE UNCHANGED <<rxR, rxW, rxSync>>
    BY <2>1, <2>2 DEF ReaderInv, rxSync
  <2>3. CASE WakeReader
    BY <2>1, <2>3 DEF ReaderInv, WakeReader, rxSync
  <2>. QED
    BY <1>1, <2>2, <2>3, IrqKeeps
<1>2. CASE Around /\ ~Irq
  <2>1. UNCHANGED <<rxSync, pc>>
    BY <1>2, AroundTasks DEF Around, Open, Close, Shift, SetTimeouts, Arrive, vars
  <2>2. CASE Open /\ ~open
    BY <2>1, <2>2 DEF ReaderInv, Shut, Quiet, Waiting
  <2>3. CASE ~(Open /\ ~open)
    <3>1. UNCHANGED rxRing
      BY <1>2, <2>3 DEF Around, Open, Close, Shift, SetTimeouts, Arrive, vars
    <3>. QED
      BY <2>1, <3>1 DEF ReaderInv, rxSync, rxRing
  <2>. QED
    BY <2>2, <2>3
<1>3. ASSUME NEW t \in Task,
             \/ Writing(t) \/ Kick(t)
             \/ \E n \in 1 .. MaxLen : WriteBegin(t, n)
      PROVE  ReaderInv'
  BY <1>3, WritersRx DEF ReaderInv, ReadPcs, rxRing, rxSync
<1>4. ASSUME NEW t \in Task,
             \/ Reading(t) \/ ReadReturn(t)
             \/ \E n \in 1 .. MaxLen : ReadBegin(t, n)
      PROVE  ReaderInv'
  <2>1. \A u \in Task : pc'[u] \in Waiting => u = t
    <3>1. \A u \in Task \ {t} : pc'[u] = pc[u]
      BY <1>4, ReadersTx
    <3>2. rxLock = t \/ rxLock = None
      BY <1>4, ReadingTasks DEF ReadReturn, ReadBegin, Locks, ReadPcs
    <3>3. \A u \in Task : pc[u] \in Waiting => rxLock = u
      BY DEF Locks, ReadPcs
    <3>. QED
      BY <3>1, <3>2, <3>3
  <2>2. (pc[t] \in Waiting /\ rxBlock = 0) => (rxSleeping /\ rxR = rxW)
    BY DEF ReaderInv
  <2>3. (pc'[t] \in Waiting /\ rxBlock' = 0) => (rxSleeping' /\ rxR' = rxW')
    <3>1. CASE ReadCheck(t)
      BY <3>1 DEF ReadCheck, Goto, rxRing, Waiting
    <3>2. CASE ReadWait(t) \/ ReadTimeout(t)
      BY <3>2, <2>2 DEF ReadWait, ReadTimeout, Goto, rxRing, rxSync, Waiting
    <3>3. CASE \/ ReadWake(t) \/ ReadExpired(t) \/ Copy(t) \/ CopyWrap(t) \/ ReadReturn(t)
               \/ \E n \in 1 .. MaxLen : ReadBegin(t, n)
      BY <3>3 DEF ReadWake, ReadExpired, Copy, CopyWrap, ReadReturn, ReadBegin, Goto, Waiting
    <3>. QED
      BY <1>4, <3>1, <3>2, <3>3 DEF Reading
  <2>. QED
    BY <2>1, <2>3 DEF ReaderInv
<1>. QED
  BY <1>1, <1>2, <1>3, <1>4, NextCases

LEMMA IrqTokenInv ==
  ASSUME PortInv, TokenInv, Irq
  PROVE  TokenInv'
<1>. USE UartAssumption DEF PortInv, TypeOK
<1>1. UNCHANGED pc /\ (~late' => ~late /\ ~GivesLate)
  BY AroundTasks DEF Around, Irq
<1>2. CASE UNCHANGED <<rxR, rxW, rxSync>>
  BY <1>1, <1>2 DEF TokenInv, rxSync
<1>3. CASE Keeps /\ rxR' = rxR /\ rxW' = After(rxW) /\ WakeReader
  <2>1. rxR' # rxW'
    BY <1>3 DEF Keeps, Full
  <2>2. CASE rxSleeping
    BY <1>1, <1>3, <2>1, <2>2 DEF TokenInv, GivesLate
  <2>3. CASE ~rxSleeping
    BY <1>1, <1>3, <2>1, <2>3 DEF TokenInv, WakeReader, rxSync
  <2>. QED
    BY <2>2, <2>3
<1>. QED
  BY <1>2, <1>3, IrqKeeps

LEMMA StepTokenInv ==
  ASSUME PortInv, TokenInv, [Next]_vars
  PROVE  TokenInv'
<1>. USE UartAssumption DEF PortInv, TypeOK
<1>1. CASE Irq
  BY <1>1, IrqTokenInv
<1>2. CASE Around /\ ~Irq
  <2>1. UNCHANGED <<rxSync, pc, late>>
    BY <1>2, AroundTasks DEF Around, Open, Close, Shift, SetTimeouts, Arrive, vars, notes
  <2>2. CASE Open /\ ~open
    <3>1. \A t \in Task : pc[t] \notin Waiting
      BY <2>2 DEF Shut, Quiet, Waiting
    <3>. QED
      BY <2>1, <3>1 DEF TokenInv, rxSync
  <2>3. CASE ~(Open /\ ~open)
    <3>1. UNCHANGED rxRing
      BY <1>2, <2>3 DEF Around, Open, Close, Shift, SetTimeouts, Arrive, vars
    <3>. QED
      BY <2>1, <3>1 DEF TokenInv, rxSync, rxRing
  <2>. QED
    BY <2>2, <2>3
<1>3. ASSUME NEW t \in Task,
             \/ Writing(t) \/ Kick(t)
             \/ \E n \in 1 .. MaxLen : WriteBegin(t, n)
      PROVE  TokenInv'
  <2>1. /\ UNCHANGED <<late, rxR, rxW, rxBlock>>
        /\ \A u \in Task : pc[u] \in ReadPcs \/ pc'[u] \in ReadPcs => pc'[u] = pc[u]
    BY <1>3, WritersRx DEF notes, rxRing, rxSync
  <2>. QED
    BY <2>1 DEF TokenInv, ReadPcs
<1>4. ASSUME NEW t \in Task,
             \/ Reading(t) \/ ReadReturn(t)
             \/ \E n \in 1 .. MaxLen : ReadBegin(t, n)
      PROVE  TokenInv'
  <2>1. \A u \in Task : pc[u] \in Waiting => u = t
    BY <1>4, ReadingTasks DEF Locks, ReadReturn, ReadBegin, ReadPcs
  <2>2. CASE ReadWake(t)
    BY <2>2 DEF ReadWake, TokenInv
  <2>3. CASE ReadTimeout(t)
    BY <2>3 DEF ReadTimeout, TokenInv, rxSync
  <2>4. CASE ReadWait(t)
    <3>1. UNCHANGED <<late, rxBlock, rxR, rxW>> /\ pc'[t] \in Waiting
      BY <2>4 DEF ReadWait, Goto, notes, rxRing, rxSync, Waiting
    <3>. QED
      BY <3>1, <2>4 DEF TokenInv
  <2>5. CASE \/ ReadCheck(t) \/ ReadExpired(t)
             \/ Copy(t) \/ CopyWrap(t) \/ ReadReturn(t)
             \/ \E n \in 1 .. MaxLen : ReadBegin(t, n)
    <3>1. UNCHANGED <<late, rxBlock>> /\ pc[t] \notin Waiting
      BY <2>5 DEF ReadCheck, ReadExpired, Copy, CopyWrap, ReadReturn, ReadBegin, notes,
                  rxSync, Waiting
    <3>. QED
      BY <2>1, <3>1 DEF TokenInv
  <2>. QED
    BY <1>4, <2>2, <2>3, <2>4, <2>5 DEF Reading
<1>. QED
  BY <1>1, <1>2, <1>3, <1>4, NextCases

(* A reader is woken for a byte, unless by a token that was given when     *)
(* nobody waited: only a wait that has timed out leaves one.               *)
THEOREM TokensForBytes == Spec => TokensMeanBytes
<1>1. Init => TokenInv
  BY DEF Init, TokenInv
<1>2. PortInv /\ TokenInv /\ [Next]_vars => TokenInv'
  BY StepTokenInv
<1>3. TokenInv => \A t \in Task : (ReadWake(t) /\ ~late) => rxR # rxW
  BY DEF TokenInv, ReadWake
<1>4. PortInv /\ TokenInv /\ [Next]_vars =>
        [\A t \in Task : (ReadWake(t) /\ ~late) => rxR # rxW]_vars
  BY <1>3
<1>. QED
  BY <1>1, <1>2, <1>4, PortInvariance, PTL DEF Spec, TokensMeanBytes

-----------------------------------------------------------------------------
(* Nobody sleeps for ever, nothing is left behind.                         *)

SyncInv == PortInv /\ WriterInv /\ DrainInv /\ ReaderInv

(* The protocol of uart_read and uart_write with the handler.              *)
THEOREM SyncInvariance == Spec => []SyncInv
<1>1. Init => WriterInv /\ ReaderInv /\ DrainInv
  <2>. SUFFICES ASSUME Init PROVE WriterInv /\ ReaderInv /\ DrainInv
    OBVIOUS
  <2>1. Count(txR, txW) = 0
    BY CountEmpty, UartAssumption DEF Init, Pos
  <2>2. WriterInv /\ ReaderInv
    BY DEF Init, WriterInv, ReaderInv, Waiting
  <2>3. DrainInv
    BY <2>1 DEF Init, DrainInv
  <2>. QED
    BY <2>2, <2>3
<1>3. PortInv /\ PortInv' /\ WriterInv /\ DrainInv /\ ReaderInv /\ [Next]_vars
        => WriterInv' /\ DrainInv' /\ ReaderInv'
  BY StepWriterInv, StepDrainInv, StepReaderInv
<1>. QED
  BY <1>1, <1>3, PortInvariance, PTL DEF Spec, SyncInv

(* A writer that waits without a token waits for a transmitter that runs   *)
(* to take a byte of a full ring (unless sending was upset), a reader for  *)
(* the first byte into an empty one, and the handler knows of both.        *)
THEOREM SleepersAreAwaited == Spec => []SleepersAwaited
<1>1. SyncInv => SleepersAwaited
  <2>. SUFFICES ASSUME SyncInv, NEW t \in Task
                PROVE  /\ (pc[t] = "asleep" /\ txBlock = 0) =>
                             (txSleeping /\ Full(txR, txW) /\ (upset \/ (transmitting /\ etbei)))
                       /\ (pc[t] \in Waiting /\ rxBlock = 0) => (rxSleeping /\ rxR = rxW)
    BY DEF SleepersAwaited
  <2>1. (pc[t] = "asleep" /\ txBlock = 0) => (txSleeping /\ Full(txR, txW))
    BY DEF SyncInv, WriterInv
  <2>2. (open /\ txSleeping) => (upset \/ (transmitting /\ etbei))
    BY DEF SyncInv, DrainInv
  <2>3. (pc[t] \in Waiting /\ rxBlock = 0) => (rxSleeping /\ rxR = rxW)
    BY DEF SyncInv, ReaderInv
  <2>4. pc[t] = "asleep" => open
    BY DEF SyncInv, PortInv, Shut, Quiet
  <2>. QED
    BY <2>1, <2>2, <2>3, <2>4
<1>. QED
  BY <1>1, SyncInvariance, PTL

(* No interleaving of writes with the handler turning the transmitter off  *)
(* leaves bytes in the ring with nobody to send them, in a port that was   *)
(* opened with the transmitter off and whose handler has not run off the   *)
(* end of the ring.                                                        *)
THEOREM BytesGetSent == Spec => []NeverStalled
<1>1. PortInv /\ DrainInv => NeverStalled
  <2>. SUFFICES ASSUME PortInv, DrainInv, open, ~upset, txR # txW % Size,
                       \A t \in Task : ~Starting(t)
                PROVE  transmitting /\ etbei
    BY DEF NeverStalled
  <2>1. Count(txR, txW) # 0
    <3>1. txW # Size
      BY DEF PortInv, AtEnd, Starting
    <3>2. txW \in Pos /\ txR \in Pos
      BY <3>1, UartAssumption DEF PortInv, TypeOK, Pos
    <3>3. txW % Size = txW
      BY <3>2, UartAssumption DEF Pos
    <3>. QED
      BY <3>2, <3>3, CountEmpty
  <2>. QED
    BY <2>1 DEF DrainInv
<1>. QED
  BY <1>1, SyncInvariance, PTL DEF SyncInv

-----------------------------------------------------------------------------
(* The rings as sequences.                                                 *)

Values == Byte \cup {None}

(* The position of the i-th byte from r on.                                *)
Slot(r, i) == (r + i - 1) % Size

LEMMA SlotIs ==
  ASSUME NEW r \in 0 .. Size, NEW i \in 1 .. Size - 1
  PROVE  /\ Slot(r, i) \in Pos
         /\ Slot(r, i) = IF r + i - 1 < Size THEN r + i - 1 ELSE r + i - 1 - Size
<1>1. \A n \in 0 .. Size - 1 : n % Size = n
  BY UartAssumption
<1>2. \A n \in Size .. 2 * Size - 1 : n % Size = n - Size
  BY UartAssumption
<1>. QED
  BY <1>1, <1>2, UartAssumption DEF Slot, Pos

LEMMA RingIs ==
  ASSUME NEW buf \in [Pos -> Values], NEW r \in 0 .. Size, NEW w \in 0 .. Size,
         Count(r, w) < Size
  PROVE  /\ Ring(buf, r, w) \in Seq(Values)
         /\ Len(Ring(buf, r, w)) = Count(r, w) /\ Count(r, w) \in 0 .. Size - 1
         /\ \A i \in 1 .. Count(r, w) : Ring(buf, r, w)[i] = buf[Slot(r, i)]
<1>1. Count(r, w) \in 0 .. Size - 1
  BY CountIs, UartAssumption
<1>2. \A i \in 1 .. Count(r, w) : buf[Slot(r, i)] \in Values
  BY <1>1, SlotIs, UartAssumption
<1>3. Ring(buf, r, w) = [i \in 1 .. Count(r, w) |-> buf[Slot(r, i)]]
  BY DEF Ring, Slot
<1>4. Ring(buf, r, w) \in [1 .. Count(r, w) -> Values]
  BY <1>2, <1>3
<1>. QED
  BY <1>1, <1>3, <1>4

(* A byte stored at the write index is the last one of the ring.           *)
LEMMA RingIn ==
  ASSUME NEW buf \in [Pos -> Values], NEW r \in Pos, NEW w \in Pos, ~Full(r, w),
         NEW b \in Values, NEW v \in {w + 1, After(w)}
  PROVE  /\ Ring([buf EXCEPT ![w] = b], r, v) = Append(Ring(buf, r, w), b)
         /\ Len(Ring(buf, r, w)) < Size - 1
<1>. DEFINE new == [buf EXCEPT ![w] = b]
            n == Count(r, w)
<1>. USE UartAssumption
<1>1. r \in 0 .. Size /\ w \in 0 .. Size /\ v \in 0 .. Size
  BY AfterIs DEF Pos
<1>2. Count(r, v) = n + 1 /\ n + 1 < Size /\ n \in Nat
  <2>1. n \in 0 .. Size - 1 /\ n # Size - 1
    BY FullIs, CountEmpty
  <2>. QED
    BY <2>1, CountIn
<1>3. new \in [Pos -> Values]
  OBVIOUS
<1>. HIDE DEF n
<1>4. n = IF w < r THEN w + Size - r ELSE w - r
  BY <1>1, CountIs DEF n, Pos
<1>5. ASSUME NEW i \in 1 .. n PROVE Slot(r, i) \in Pos /\ Slot(r, i) # w
  <2>1. i \in 1 .. Size - 1
    BY <1>2, <1>5
  <2>2. Slot(r, i) \in Pos /\ Slot(r, i) = IF r + i - 1 < Size THEN r + i - 1 ELSE r + i - 1 - Size
    BY <1>1, <2>1, SlotIs
  <2>. QED
    BY <1>4, <1>5, <2>1, <2>2 DEF Pos
<1>6. Slot(r, n + 1) = w
  <2>1. n + 1 \in 1 .. Size - 1
    BY <1>2
  <2>2. Slot(r, n + 1) = IF r + (n + 1) - 1 < Size THEN r + (n + 1) - 1
                         ELSE r + (n + 1) - 1 - Size
    BY <1>1, <2>1, SlotIs
  <2>. QED
    BY <1>4, <2>1, <2>2 DEF Pos
<1>7. /\ Ring(buf, r, w) \in Seq(Values) /\ Len(Ring(buf, r, w)) = n
      /\ \A i \in 1 .. n : Ring(buf, r, w)[i] = buf[Slot(r, i)]
  BY <1>1, <1>2, RingIs DEF n
<1>8. /\ Ring(new, r, v) \in Seq(Values) /\ Len(Ring(new, r, v)) = n + 1
      /\ \A i \in 1 .. n + 1 : Ring(new, r, v)[i] = new[Slot(r, i)]
  <2>. HIDE DEF new
  <2>1. Count(r, v) < Size
    BY <1>2
  <2>2. /\ Ring(new, r, v) \in Seq(Values) /\ Len(Ring(new, r, v)) = Count(r, v)
        /\ \A i \in 1 .. Count(r, v) : Ring(new, r, v)[i] = new[Slot(r, i)]
    BY <1>1, <1>3, <2>1, RingIs
  <2>. QED
    BY <1>2, <2>2
<1>9. /\ Append(Ring(buf, r, w), b) \in Seq(Values)
      /\ Len(Append(Ring(buf, r, w), b)) = n + 1
      /\ \A i \in 1 .. n : Append(Ring(buf, r, w), b)[i] = Ring(buf, r, w)[i]
      /\ Append(Ring(buf, r, w), b)[n + 1] = b
  BY <1>7, AppendProperties
<1>10. \A i \in 1 .. n + 1 : Ring(new, r, v)[i] = Append(Ring(buf, r, w), b)[i]
  <2>1. \A i \in 1 .. n : new[Slot(r, i)] = buf[Slot(r, i)]
    BY <1>5
  <2>2. new[Slot(r, n + 1)] = b
    BY <1>6
  <2>. HIDE DEF new
  <2>3. \A i \in 1 .. n + 1 : i \in 1 .. n \/ i = n + 1
    BY <1>2
  <2>. QED
    BY <1>2, <1>7, <1>8, <1>9, <2>1, <2>2, <2>3
<1>11. Ring(new, r, v) = Append(Ring(buf, r, w), b)
  <2>. HIDE DEF new
  <2>. QED
    BY <1>8, <1>9, <1>10, SeqEqual
<1>12. Len(Ring(buf, r, w)) < Size - 1
  BY <1>2, <1>7
<1>. QED
  BY <1>11, <1>12

(* The byte at the read index is the first one of the ring.                *)
LEMMA RingOut ==
  ASSUME NEW buf \in [Pos -> Values], NEW r \in Pos, NEW w \in Pos, r # w,
         NEW q \in {r + 1, After(r)}
  PROVE  /\ Ring(buf, r, w) # <<>>
         /\ Head(Ring(buf, r, w)) = buf[r]
         /\ Tail(Ring(buf, r, w)) = Ring(buf, q, w)
<1>. DEFINE n == Count(r, w)
            old == Ring(buf, r, w)
            rest == Ring(buf, q, w)
<1>. USE UartAssumption
<1>1. r \in 0 .. Size /\ w \in 0 .. Size /\ q \in 0 .. Size
  BY AfterIs DEF Pos
<1>2. n \in 1 .. Size - 1 /\ Count(q, w) = n - 1
  BY CountOut, CountEmpty
<1>3. /\ old \in Seq(Values) /\ Len(old) = n
      /\ \A i \in 1 .. n : old[i] = buf[Slot(r, i)]
  BY <1>1, <1>2, RingIs
<1>4. /\ rest \in Seq(Values) /\ Len(rest) = n - 1
      /\ \A i \in 1 .. n - 1 : rest[i] = buf[Slot(q, i)]
  BY <1>1, <1>2, RingIs
<1>5. Slot(r, 1) = r
  BY <1>1, <1>2, SlotIs DEF Pos
<1>6. ASSUME NEW i \in 1 .. n - 1 PROVE Slot(q, i) = Slot(r, i + 1)
  <2>. HIDE DEF n
  <2>1. i \in 1 .. Size - 1 /\ i + 1 \in 1 .. Size - 1
    BY <1>2, <1>6
  <2>2. Slot(q, i) = IF q + i - 1 < Size THEN q + i - 1 ELSE q + i - 1 - Size
    BY <1>1, <2>1, SlotIs
  <2>3. Slot(r, i + 1) = IF r + i < Size THEN r + i ELSE r + i - Size
    BY <1>1, <2>1, SlotIs
  <2>4. q = r + 1 \/ (q = 0 /\ r + 1 = Size)
    BY AfterIs
  <2>. QED
    BY <1>1, <2>1, <2>2, <2>3, <2>4
<1>. HIDE DEF n, old, rest
<1>7. old # <<>>
  BY <1>2, <1>3
<1>8. Head(old) = old[1]
  BY <1>3, <1>7
<1>9. /\ Tail(old) \in Seq(Values) /\ Len(Tail(old)) = n - 1
      /\ \A i \in 1 .. n - 1 : Tail(old)[i] = old[i + 1]
  BY <1>2, <1>3, <1>7, HeadTailProperties
<1>10. ASSUME NEW i \in 1 .. n - 1 PROVE Tail(old)[i] = rest[i]
  <2>1. old[i + 1] = buf[Slot(r, i + 1)]
    BY <1>2, <1>3, <1>10
  <2>. QED
    BY <1>4, <1>6, <1>9, <1>10, <2>1
<1>11. Tail(old) = rest
  BY <1>4, <1>9, <1>10, SeqEqual
<1>12. Head(old) = buf[r]
  BY <1>2, <1>3, <1>5, <1>8
<1>. QED
  BY <1>7, <1>11, <1>12 DEF old, rest

(* An index at the end stands for one at the start.                        *)
LEMMA RingWrap ==
  ASSUME NEW buf, NEW i \in Pos
  PROVE  /\ Ring(buf, i, Size) = Ring(buf, i, 0)
         /\ Ring(buf, Size, i) = Ring(buf, 0, i)
<1>. USE UartAssumption
<1>1. Count(i, Size) = Count(i, 0) /\ Count(Size, i) = Count(0, i)
  BY CountWrap
<1>2. \A j \in 1 .. Count(0, i) : (Size + j - 1) % Size = (0 + j - 1) % Size
  <2>1. Count(0, i) \in 0 .. Size - 1
    BY CountEmpty DEF Pos
  <2>. QED
    BY <2>1, SlotIs DEF Slot
<1>. QED
  BY <1>1, <1>2 DEF Ring

LEMMA RingEmpty ==
  ASSUME NEW buf
  PROVE  Ring(buf, 0, 0) = <<>>
<1>1. Count(0, 0) = 0
  BY CountEmpty, UartAssumption DEF Pos
<1>. QED
  BY <1>1 DEF Ring

-----------------------------------------------------------------------------
(* What uart_write accepts goes out in that order.                         *)

LEMMA StepTx ==
  ASSUME PortInv, WriterInv, [Next]_vars
  PROVE  [Tx!Next \/ (TxOffEnd /\ Irq)]_(Tx!vars)
<1>. USE UartAssumption
<1>1. txR \in Pos /\ txBuf \in [Pos -> Values]
  BY DEF PortInv, TypeOK, Values
<1>2. ASSUME UNCHANGED <<open, txBuf, txR, txW, wire>> PROVE UNCHANGED Tx!vars
  BY <1>2 DEF Tx!vars, Ring, Count
<1>3. CASE Irq /\ ~TxOffEnd
  <2>1. open' = open /\ open
    BY <1>3 DEF Irq, portVars, PortInv, Shut
  <2>2. CASE UNCHANGED <<txRing, wire>>
    BY <1>2, <2>1, <2>2 DEF txRing
  <2>3. CASE thre /\ txW # txR /\ wire' = txBuf[txR] /\ txR' = After(txR) /\ UNCHANGED <<txBuf, txW>>
    <3>1. Ring(txBuf, txR, txW)' = Ring(txBuf, After(txR), txW)
      BY <2>3 DEF Ring, Count
    <3>2. /\ Ring(txBuf, txR, txW) # <<>>
          /\ Head(Ring(txBuf, txR, txW)) = txBuf[txR]
          /\ Tail(Ring(txBuf, txR, txW)) = Ring(txBuf, After(txR), txW)
      <4>1. CASE txW \in Pos
        BY <1>1, <2>3, <4>1, RingOut
      <4>2. CASE txW = Size
        <5>1. txR # 0 /\ 0 \in Pos
          BY <1>3, <2>3, <4>2 DEF TxOffEnd, PortInv, AtEnd, Pos
        <5>2. /\ Ring(txBuf, txR, 0) # <<>>
              /\ Head(Ring(txBuf, txR, 0)) = txBuf[txR]
              /\ Tail(Ring(txBuf, txR, 0)) = Ring(txBuf, After(txR), 0)
          BY <1>1, <5>1, RingOut
        <5>3. /\ Ring(txBuf, txR, Size) = Ring(txBuf, txR, 0)
              /\ Ring(txBuf, After(txR), Size) = Ring(txBuf, After(txR), 0)
          BY <1>1, RingWrap, AfterType DEF Pos
        <5>. QED
          BY <4>2, <5>2, <5>3
      <4>. QED
        BY <4>1, <4>2 DEF PortInv, TypeOK, Pos
    <3>. QED
      BY <2>1, <2>3, <3>1, <3>2 DEF Tx!Next, Tx!Leave
  <2>. QED
    BY <1>3, <2>2, <2>3, IrqSends
<1>4. CASE Open
  <2>1. CASE open
    BY <1>2, <1>4, <2>1 DEF Open, txRing, hwVars
  <2>2. CASE ~open
    <3>1. Ring(txBuf, txR, txW)' = Ring(Zero, 0, 0)
      BY <1>4, <2>2 DEF Open, Ring, Count
    <3>. QED
      BY <1>4, <2>2, <3>1, RingEmpty DEF Open, Tx!Next, Tx!Open
  <2>. QED
    BY <2>1, <2>2
<1>5. CASE Close
  <2>1. Ring(txBuf, txR, txW)' = Ring(txBuf, txR, txW)
    BY <1>5 DEF Close, txRing, Ring, Count
  <2>. QED
    BY <1>5, <2>1 DEF Close, Tx!Next, Tx!Close
<1>6. CASE \/ Shift \/ UNCHANGED vars
           \/ \E finite \in BOOLEAN : SetTimeouts(finite)
           \/ \E b \in Byte : Arrive(b)
  <2>1. UNCHANGED <<open, txRing, wire>>
    BY <1>6 DEF Shift, SetTimeouts, Arrive, vars, portVars, hwVars
  <2>. QED
    BY <1>2, <2>1 DEF txRing
<1>7. ASSUME NEW t \in Task, NEW b \in Byte, Put(t, b) PROVE Tx!Next
  <2>1. txW \in Pos /\ ~Full(txR, txW) /\ b \in Values
    BY <1>7, PutHeld DEF Put, WriterInv, Values
  <2>2. open /\ open' = open /\ wire' = wire
    BY <1>7 DEF Put, portVars, hwVars, PortInv, Shut, Quiet
  <2>3. Ring(txBuf, txR, txW)' = Ring([txBuf EXCEPT ![txW] = b], txR, txW + 1)
    BY <1>7 DEF Put, Ring, Count
  <2>4. /\ Ring([txBuf EXCEPT ![txW] = b], txR, txW + 1) = Append(Ring(txBuf, txR, txW), b)
        /\ Len(Ring(txBuf, txR, txW)) < Size - 1
    BY <1>1, <2>1, RingIn
  <2>5. Tx!Accept(b)
    BY <2>2, <2>3, <2>4 DEF Tx!Accept
  <2>. QED
    BY <2>5 DEF Tx!Next
<1>8. ASSUME NEW t \in Task, PutWrap(t) PROVE UNCHANGED Tx!vars
  <2>1. txW = Size
    BY <1>8, WrapHeld
  <2>2. /\ Ring(txBuf, txR, txW)' = Ring(txBuf, txR, 0)
        /\ Ring(txBuf, txR, txW) = Ring(txBuf, txR, Size)
    BY <1>8, <2>1 DEF PutWrap, Ring, Count
  <2>3. Ring(txBuf, txR, Size) = Ring(txBuf, txR, 0)
    BY <1>1, RingWrap
  <2>. QED
    BY <1>8, <2>2, <2>3 DEF PutWrap, portVars, hwVars, Tx!vars
<1>9. ASSUME NEW t \in Task,
             \/ WriteCheck(t) \/ WriteWake(t) \/ Kick(t)
             \/ \E n \in 1 .. MaxLen : WriteBegin(t, n)
      PROVE  UNCHANGED Tx!vars
  <2>1. UNCHANGED <<open, txRing, wire>>
    BY <1>9 DEF WriteCheck, WriteWake, Kick, WriteBegin, portVars, hwVars
  <2>. QED
    BY <1>2, <2>1 DEF txRing
<1>10. ASSUME NEW t \in Task,
             \/ Reading(t) \/ ReadReturn(t)
             \/ \E n \in 1 .. MaxLen : ReadBegin(t, n)
      PROVE  UNCHANGED Tx!vars
  BY <1>2, <1>10, ReadersTx DEF txRing, portVars, hwVars
<1>. QED
  BY <1>3, <1>4, <1>5, <1>6, <1>7, <1>8, <1>9, <1>10, NextCases DEF Writing, Around

(* Bytes written go out once and in order, whichever tasks write and       *)
(* wherever the handler comes in, but for the step in which it runs off    *)
(* the end of the ring (the run with a slow wrap shows that step).         *)
THEOREM WritesKeepOrder == Spec => SendsInOrder
<1>1. Init => Tx!Init
  <2>1. Init => Ring(txBuf, txR, txW) = <<>>
    BY RingEmpty DEF Init
  <2>. QED
    BY <2>1 DEF Init, Tx!Init
<1>2. Init => WriterInv
  BY DEF Init, WriterInv
<1>3. PortInv /\ WriterInv /\ [Next]_vars =>
        WriterInv' /\ [Tx!Next \/ (TxOffEnd /\ Irq)]_(Tx!vars)
  BY StepWriterInv, StepTx
<1>. QED
  BY <1>1, <1>2, <1>3, PortInvariance, PTL DEF Spec, SendsInOrder

(* What the handler accepts is read in that order.                         *)
LEMMA StepRx ==
  ASSUME PortInv, [Next]_vars
  PROVE  [Rx!Next \/ (RxOffEnd /\ Irq)]_(Rx!vars)
<1>. USE UartAssumption
<1>1. rxW \in Pos /\ rxBuf \in [Pos -> Values]
  BY DEF PortInv, TypeOK, Values
<1>2. ASSUME UNCHANGED <<open, rxBuf, rxR, rxW, got>> PROVE UNCHANGED Rx!vars
  BY <1>2 DEF Rx!vars, Ring, Count
<1>3. CASE Irq /\ ~RxOffEnd
  <2>1. open' = open /\ open /\ got' = got
    BY <1>3 DEF Irq, portVars, PortInv, Shut
  <2>2. CASE UNCHANGED <<rxBuf, rxR, rxW>>
    BY <1>2, <2>1, <2>2
  <2>3. CASE Keeps /\ rxBuf' = [rxBuf EXCEPT ![rxW] = rbr] /\ rxR' = rxR /\ rxW' = After(rxW)
    <3>1. ~Full(rxR, rxW) /\ rbr \in Byte /\ rbr \in Values /\ rbr # None
      BY <1>3, <2>3 DEF Keeps, PortInv, TypeOK, Values
    <3>2. Ring(rxBuf, rxR, rxW)' = Ring([rxBuf EXCEPT ![rxW] = rbr], rxR, After(rxW))
      BY <2>3 DEF Ring, Count
    <3>3. /\ Ring([rxBuf EXCEPT ![rxW] = rbr], rxR, After(rxW)) = Append(Ring(rxBuf, rxR, rxW), rbr)
          /\ Len(Ring(rxBuf, rxR, rxW)) < Size - 1
      <4>1. CASE rxR \in Pos
        BY <1>1, <3>1, <4>1, RingIn
      <4>2. CASE rxR = Size
        <5>1. rxW # Size - 1 /\ 0 \in Pos
          BY <1>3, <3>1, <4>2 DEF RxOffEnd, PortInv, AtEnd, Pos
        <5>2. ~Full(0, rxW) /\ After(rxW) \in Pos
          BY <1>1, <5>1, AfterIs DEF Full, Pos
        <5>3. /\ Ring([rxBuf EXCEPT ![rxW] = rbr], 0, After(rxW)) = Append(Ring(rxBuf, 0, rxW), rbr)
              /\ Len(Ring(rxBuf, 0, rxW)) < Size - 1
          BY <1>1, <3>1, <5>1, <5>2, RingIn
        <5>4. /\ Ring([rxBuf EXCEPT ![rxW] = rbr], Size, After(rxW))
                    = Ring([rxBuf EXCEPT ![rxW] = rbr], 0, After(rxW))
              /\ Ring(rxBuf, Size, rxW) = Ring(rxBuf, 0, rxW)
          BY <1>1, <5>2, RingWrap
        <5>. QED
          BY <4>2, <5>3, <5>4
      <4>. QED
        <5>1. rxR \in Pos \/ rxR = Size
          BY DEF PortInv, TypeOK, Pos
        <5>. QED
          BY <4>1, <4>2, <5>1
    <3>4. Rx!Accept(rbr)
      BY <2>1, <3>2, <3>3 DEF Rx!Accept
    <3>. QED
      BY <3>1, <3>4 DEF Rx!Next
  <2>. QED
    BY <1>3, <2>2, <2>3, IrqKeeps
<1>4. CASE Open
  <2>1. CASE open
    BY <1>2, <1>4, <2>1 DEF Open, rxRing
  <2>2. CASE ~open
    <3>1. Ring(rxBuf, rxR, rxW)' = Ring(Zero, 0, 0)
      BY <1>4, <2>2 DEF Open, Ring, Count
    <3>. QED
      BY <1>4, <2>2, <3>1, RingEmpty DEF Open, Rx!Next, Rx!Open
  <2>. QED
    BY <2>1, <2>2
<1>5. CASE Close
  <2>1. Ring(rxBuf, rxR, rxW)' = Ring(rxBuf, rxR, rxW)
    BY <1>5 DEF Close, rxRing, Ring, Count
  <2>. QED
    BY <1>5, <2>1 DEF Close, Rx!Next, Rx!Close
<1>6. CASE \/ Shift \/ UNCHANGED vars
           \/ \E finite \in BOOLEAN : SetTimeouts(finite)
           \/ \E b \in Byte : Arrive(b)
  <2>1. UNCHANGED <<open, rxRing, got>>
    BY <1>6 DEF Shift, SetTimeouts, Arrive, vars, portVars
  <2>. QED
    BY <1>2, <2>1 DEF rxRing
<1>7. ASSUME NEW t \in Task, Copy(t) PROVE Rx!Next
  <2>1. rxR \in Pos /\ rxR # rxW
    BY <1>7 DEF Copy, PortInv, TypeOK, AtEnd, Locks, ReadPcs, Pos
  <2>2. open /\ open' = open /\ got' = rxBuf[rxR]
    BY <1>7 DEF Copy, portVars, PortInv, Shut, Quiet
  <2>3. Ring(rxBuf, rxR, rxW)' = Ring(rxBuf, rxR + 1, rxW)
    BY <1>7 DEF Copy, Ring, Count
  <2>4. /\ Ring(rxBuf, rxR, rxW) # <<>>
        /\ Head(Ring(rxBuf, rxR, rxW)) = rxBuf[rxR]
        /\ Tail(Ring(rxBuf, rxR, rxW)) = Ring(rxBuf, rxR + 1, rxW)
    BY <1>1, <2>1, RingOut
  <2>. QED
    BY <2>2, <2>3, <2>4 DEF Rx!Next, Rx!Leave
<1>8. ASSUME NEW t \in Task, CopyWrap(t) PROVE UNCHANGED Rx!vars
  <2>1. rxR = Size
    BY <1>8 DEF CopyWrap, PortInv, AtEnd
  <2>2. /\ Ring(rxBuf, rxR, rxW)' = Ring(rxBuf, 0, rxW)
        /\ Ring(rxBuf, rxR, rxW) = Ring(rxBuf, Size, rxW)
    BY <1>8, <2>1 DEF CopyWrap, Ring, Count
  <2>3. Ring(rxBuf, Size, rxW) = Ring(rxBuf, 0, rxW)
    BY <1>1, RingWrap
  <2>. QED
    BY <1>8, <2>2, <2>3 DEF CopyWrap, portVars, Rx!vars
<1>9. ASSUME NEW t \in Task,
             \/ ReadCheck(t) \/ ReadWait(t) \/ ReadWake(t) \/ ReadTimeout(t)
             \/ ReadExpired(t) \/ ReadReturn(t)
             \/ \E n \in 1 .. MaxLen : ReadBegin(t, n)
      PROVE  UNCHANGED Rx!vars
  <2>1. UNCHANGED <<open, rxRing, got>>
    BY <1>9 DEF ReadCheck, ReadWait, ReadWake, ReadTimeout, ReadExpired, ReadReturn,
                ReadBegin, portVars
  <2>. QED
    BY <1>2, <2>1 DEF rxRing
<1>10. ASSUME NEW t \in Task,
             \/ Writing(t) \/ Kick(t)
             \/ \E n \in 1 .. MaxLen : WriteBegin(t, n)
      PROVE  UNCHANGED Rx!vars
  BY <1>2, <1>10, WritersRx DEF rxRing, portVars
<1>. QED
  BY <1>3, <1>4, <1>5, <1>6, <1>7, <1>8, <1>9, <1>10, NextCases DEF Reading, Around

(* Bytes the handler has accepted are read once and in order, but for the *)
(* step in which it takes a full ring for one with room.                   *)
THEOREM ReadsKeepOrder == Spec => ReadsInOrder
<1>1. Init => Rx!Init
  <2>1. Init => Ring(rxBuf, rxR, rxW) = <<>>
    BY RingEmpty DEF Init
  <2>. QED
    BY <2>1 DEF Init, Rx!Init
<1>2. PortInv /\ [Next]_vars =>
        [Rx!Next \/ (RxOffEnd /\ Irq)]_(Rx!vars)
  BY StepRx
<1>. QED
  BY <1>1, <1>2, PortInvariance, PTL DEF Spec, ReadsInOrder

=============================================================================
