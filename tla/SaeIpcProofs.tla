---------------------------- MODULE SaeIpcProofs ----------------------------
(***************************************************************************)
(* Proofs about SaeIpc, for any number of cores, tasks, messages and any   *)
(* queue size: type correctness, exact reference counts, no use of a freed *)
(* message, no leak, no lost wake-up, and that the rings with the counted  *)
(* buffers implement SaeMailbox.                                           *)
(*                                                                         *)
(* Two things are asked of the application: its callbacks are registered   *)
(* before the SAE interrupt of a core is taken (BootMasked), and fewer     *)
(* references can exist than the 8-bit count can represent (RefRoom).      *)
(* MCSaeIpcUnregistered and MCSaeIpcWrap show what happens otherwise.      *)
(***************************************************************************)
EXTENDS SaeIpc, TLAPS, FiniteSetTheorems, SequenceTheorems

Hands == Context \X Slot
Rings == Core \X Pos

RefRoom == /\ IsFiniteSet(Hands) /\ IsFiniteSet(Rings)
           /\ Cardinality(Hands) + Cardinality(Rings) <= RefMax

-----------------------------------------------------------------------------
(* Arithmetic modulo a power of two, as the code uses it.                  *)

(* The ring index after i.                                                 *)
LEMMA NextIndex ==
  ASSUME NEW i \in Pos
  PROVE  /\ (i + 1) % QSize \in Pos
         /\ (i + 1) % QSize = IF i + 1 = QSize THEN 0 ELSE i + 1
BY SizeAssumption, SMT DEF Pos

(* Increment and decrement of the count, away from its ends.               *)
LEMMA CountUp ==
  ASSUME NEW r \in Nat, r < RefMax
  PROVE  (r + 1) % (RefMax + 1) = r + 1
BY SizeAssumption, SMT

LEMMA CountDown ==
  ASSUME NEW r \in 1 .. RefMax
  PROVE  (r + RefMax) % (RefMax + 1) = r - 1
BY SizeAssumption, SMT

LEMMA CountRange ==
  ASSUME NEW r \in Nat
  PROVE  r % (RefMax + 1) \in 0 .. RefMax
BY SizeAssumption, SMT

-----------------------------------------------------------------------------
(* A handler has pointers only while it dispatches a message or runs a     *)
(* callback, and makes calls only then.                                    *)
HandlerHand ==
  \A c \in Core : \A s \in Slot :
     hand[Handler(c)][s] # None =>
        isr[c] \in {"callback", "unref"} \/ (isr[c] = "dispatch" /\ s = 1)

HandlerCalls ==
  \A c \in Core : /\ pc[Handler(c)] # "idle" => isr[c] \in {"callback", "unref"}
                  /\ bstep[Handler(c)] # "none" => isr[c] = "callback"

(* A call that holds up the lock has the pointer it was given.             *)
CallHasMsg ==
  \A x \in Context : pc[x] \in {"ref", "unref"} => hand[x][slot[x]] # None

(* A core that has not initialised has no interrupt.                       *)
QuietBeforeBoot ==
  \A c \in Core : ~trigger[c] => isr[c] = "idle" /\ ~pending[c]

CallbacksSet ==
  BootMasked => \A c \in Core : isr[c] # "idle" => userCB[c] /\ streamCB[c]

(* Between tail and head a ring has messages, not null pointers.           *)
RingFilled ==
  \A c \in Core : \A i \in Pos : Occupied(c, i) => queue[c][i] \in Msg

ControlInv == /\ TypeOK
              /\ HandlerHand
              /\ HandlerCalls
              /\ CallHasMsg
              /\ QuietBeforeBoot
              /\ CallbacksSet
              /\ RingFilled

LEMMA TupleTypes ==
  /\ \A x \in Context : x[2] \in Core /\ x = <<x[1], x[2]>>
  /\ \A c \in Core : Handler(c) \in Context
  /\ 1 \in Slot /\ 2 \in Slot /\ 0 \in Core /\ 0 \in Pos
BY SizeAssumption DEF Context, Handler, Core, Slot, Pos

LEMMA InitControl == Init => ControlInv
<1>. SUFFICES ASSUME Init PROVE ControlInv
  OBVIOUS
<1>1. TypeOK
  BY SizeAssumption, TupleTypes DEF Init, TypeOK
<1>2. HandlerHand /\ HandlerCalls /\ CallHasMsg
  BY TupleTypes DEF Init, HandlerHand, HandlerCalls, CallHasMsg
<1>3. QuietBeforeBoot /\ CallbacksSet
  BY DEF Init, QuietBeforeBoot, CallbacksSet
<1>4. RingFilled
  BY DEF Init, RingFilled, Occupied, Pos
<1>. QED
  BY <1>1, <1>2, <1>3, <1>4 DEF ControlInv

-----------------------------------------------------------------------------
(* Writing one pointer variable, one ring slot.                            *)
LEMMA HandWrite ==
  ASSUME TypeOK, NEW x \in Context, NEW s \in Slot, NEW v \in Msg \cup {None}
  PROVE  [hand EXCEPT ![x][s] = v] \in [Context -> [Slot -> Msg \cup {None}]]
BY DEF TypeOK

LEMMA HandRead ==
  ASSUME TypeOK, NEW x \in Context, NEW s \in Slot, NEW v \in Msg \cup {None},
         hand' = [hand EXCEPT ![x][s] = v]
  PROVE  \A y \in Context : \A t \in Slot :
            hand'[y][t] = IF y = x /\ t = s THEN v ELSE hand[y][t]
BY DEF TypeOK

LEMMA RingWrite ==
  ASSUME TypeOK, NEW c \in Core, NEW i \in Pos, NEW m \in Msg
  PROVE  [queue EXCEPT ![c][i] = m] \in [Core -> [Pos -> Msg \cup {None}]]
BY DEF TypeOK

LEMMA CountWrite ==
  ASSUME TypeOK, NEW m \in Msg
  PROVE  /\ [ref EXCEPT ![m] = (@ + 1) % (RefMax + 1)] \in [Msg -> 0 .. RefMax]
         /\ (ref[m] + RefMax) % (RefMax + 1) \in 0 .. RefMax
<1>1. ref[m] \in Nat /\ ref[m] + 1 \in Nat /\ ref[m] + RefMax \in Nat
  BY SizeAssumption DEF TypeOK
<1>2. (ref[m] + 1) % (RefMax + 1) \in 0 .. RefMax
  BY <1>1, CountRange
<1>3. (ref[m] + RefMax) % (RefMax + 1) \in 0 .. RefMax
  BY <1>1, CountRange
<1>. QED
  BY <1>2, <1>3 DEF TypeOK

LEMMA IndexWrite ==
  ASSUME TypeOK, NEW c \in Core
  PROVE  /\ [head EXCEPT ![c] = (@ + 1) % QSize] \in [Core -> Pos]
         /\ [tail EXCEPT ![c] = (@ + 1) % QSize] \in [Core -> Pos]
<1>1. (head[c] + 1) % QSize \in Pos /\ (tail[c] + 1) % QSize \in Pos
  BY NextIndex DEF TypeOK
<1>. QED
  BY <1>1 DEF TypeOK

LEMMA ReturnTypes ==
  ASSUME TypeOK, NEW x \in Context, Return(x)
  PROVE  /\ pc' \in [Context -> {"idle", "ref", "unref", "raise"}]
         /\ slot' \in [Context -> Slot] /\ dst' \in [Context -> Core]
BY TupleTypes DEF TypeOK, Return

LEMMA NextCoreTypes ==
  ASSUME TypeOK, NEW x \in Context, NextCore(x)
  PROVE  /\ bstep' \in [Context -> {"none", "ref", "send", "undo", "done"}]
         /\ bidx' \in [Context -> Core]
<1>1. CASE bidx[x] = NumCores - 1
  BY <1>1 DEF TypeOK, NextCore
<1>2. CASE bidx[x] # NumCores - 1
  <2>1. bidx[x] + 1 \in Core
    BY <1>2, SizeAssumption DEF TypeOK, Core
  <2>. QED
    BY <1>2, <2>1 DEF TypeOK, NextCore
<1>. QED
  BY <1>1, <1>2

LEMMA StepTypeOK == TypeOK /\ [Next]_vars => TypeOK'
<1>. SUFFICES ASSUME TypeOK, [Next]_vars PROVE TypeOK'
  OBVIOUS
<1>. USE DEF memVars, ringVars, coreVars, irqVars, callVars, bcastVars
<1>1. ASSUME NEW c \in Core,
             \/ Initialize(c) \/ RegisterMsgReceivedCallback(c) \/ InitStream(c)
             \/ IsrEnter(c) \/ IsrLoop(c) \/ IsrExit(c)
      PROVE  TypeOK'
  BY <1>1 DEF TypeOK, Initialize, RegisterMsgReceivedCallback, InitStream,
              IsrEnter, IsrLoop, IsrExit
<1>2. ASSUME NEW c \in Core, IsrReceive(c) PROVE TypeOK'
  <2>1. queue[c][tail[c]] \in Msg \cup {None} /\ Handler(c) \in Context /\ 1 \in Slot
    BY TupleTypes DEF TypeOK
  <2>2. CASE QueueEmpty(c)
    BY <1>2, <2>2 DEF IsrReceive, TypeOK
  <2>3. CASE ~QueueEmpty(c)
    <3>1. hand' \in [Context -> [Slot -> Msg \cup {None}]]
      BY <1>2, <2>1, <2>3, HandWrite DEF IsrReceive
    <3>2. tail' \in [Core -> Pos] /\ UNCHANGED <<queue, head>>
      BY <1>2, <2>3, IndexWrite DEF IsrReceive, DequeueMsg
    <3>. QED
      BY <1>2, <2>3, <3>1, <3>2 DEF IsrReceive, TypeOK
  <2>. QED
    BY <2>2, <2>3
<1>3. ASSUME NEW c \in Core, IsrDispatch(c) PROVE TypeOK'
  <2>1. Handler(c) \in Context /\ 1 \in Slot /\ None \in Msg \cup {None}
    BY TupleTypes
  <2>2. \/ hand' = hand
        \/ hand' = [hand EXCEPT ![Handler(c)][1] = None]
    BY <1>3 DEF IsrDispatch
  <2>3. hand' \in [Context -> [Slot -> Msg \cup {None}]]
    <3>1. CASE hand' = hand
      BY <3>1 DEF TypeOK
    <3>2. CASE hand' = [hand EXCEPT ![Handler(c)][1] = None]
      BY <2>1, <3>2, HandWrite
    <3>. QED
      BY <2>2, <3>1, <3>2
  <2>4. \E p \in {"callback", "unref", "receive"} : isr' = [isr EXCEPT ![c] = p]
    BY <1>3 DEF IsrDispatch
  <2>. QED
    BY <1>3, <2>3, <2>4 DEF IsrDispatch, TypeOK
<1>4. ASSUME NEW x \in Context, NEW m \in Msg, BroadcastEvent(x, m) PROVE TypeOK'
  <2>1. hand' \in [Context -> [Slot -> Msg \cup {None}]]
    BY <1>4, HandWrite, TupleTypes DEF BroadcastEvent, NewMsg
  <2>2. /\ ref' \in [Msg -> 0 .. RefMax] /\ type' \in [Msg -> {"USER", "STREAM", "OTHER"}]
        /\ live' \subseteq Msg
    BY <1>4, SizeAssumption DEF BroadcastEvent, NewMsg, TypeOK
  <2>3. /\ bstep' \in [Context -> {"none", "ref", "send", "undo", "done"}]
        /\ bidx' \in [Context -> Core]
    BY <1>4, TupleTypes DEF BroadcastEvent, TypeOK
  <2>. QED
    BY <1>4, <2>1, <2>2, <2>3 DEF BroadcastEvent, TypeOK
<1>5. ASSUME NEW x \in Context, NEW s \in Slot, NEW m \in Msg, CreateMsgBuffer(x, s, m)
      PROVE  TypeOK'
  <2>1. hand' \in [Context -> [Slot -> Msg \cup {None}]]
    BY <1>5, HandWrite DEF CreateMsgBuffer, NewMsg
  <2>. QED
    BY <1>5, <2>1, SizeAssumption DEF CreateMsgBuffer, NewMsg, TypeOK
<1>6. ASSUME NEW x \in Context, NEW s \in Slot,
             SetMsgBufferType(x, s) \/ RefCheck(x, s) \/ UnRefCheck(x, s)
      PROVE  TypeOK'
  <2>1. CASE SetMsgBufferType(x, s)
    BY <2>1 DEF SetMsgBufferType, TypeOK
  <2>2. CASE RefCheck(x, s)
    BY <2>2 DEF RefCheck, TypeOK
  <2>3. CASE UnRefCheck(x, s)
    BY <2>3 DEF UnRefCheck, TypeOK
  <2>. QED
    BY <1>6, <2>1, <2>2, <2>3
<1>7. ASSUME NEW x \in Context, NEW t \in Slot, RefLocked(x, t) PROVE TypeOK'
  <2>. DEFINE m == hand[x][slot[x]]
  <2>1. m \in Msg \cup {None}
    BY DEF TypeOK
  <2>2. hand' \in [Context -> [Slot -> Msg \cup {None}]]
    BY <1>7, <2>1, HandWrite DEF RefLocked
  <2>3. ref' \in [Msg -> 0 .. RefMax]
    <3>1. CASE m \in Msg
      BY <1>7, <3>1, CountWrite DEF RefLocked
    <3>2. CASE m \notin Msg
      BY <1>7, <3>2 DEF RefLocked, TypeOK
    <3>. QED
      BY <3>1, <3>2
  <2>4. /\ pc' \in [Context -> {"idle", "ref", "unref", "raise"}]
        /\ slot' \in [Context -> Slot] /\ dst' \in [Context -> Core]
    BY <1>7, ReturnTypes DEF RefLocked
  <2>. QED
    BY <1>7, <2>2, <2>3, <2>4 DEF RefLocked, TypeOK
<1>8. ASSUME NEW x \in Context, UnRefLocked(x) PROVE TypeOK'
  <2>. DEFINE m == hand[x][slot[x]]
  <2>1. hand' \in [Context -> [Slot -> Msg \cup {None}]]
    <3>1. slot[x] \in Slot
      BY DEF TypeOK
    <3>. QED
      BY <1>8, <3>1, HandWrite DEF UnRefLocked
  <2>2. ref' \in [Msg -> 0 .. RefMax]
    <3>1. CASE m \in Msg
      BY <1>8, <3>1, CountWrite DEF UnRefLocked, TypeOK
    <3>2. CASE m \notin Msg
      BY <1>8, <3>2 DEF UnRefLocked, TypeOK
    <3>. QED
      BY <3>1, <3>2
  <2>3. live' \subseteq Msg
    BY <1>8 DEF UnRefLocked, TypeOK
  <2>4. /\ pc' \in [Context -> {"idle", "ref", "unref", "raise"}]
        /\ slot' \in [Context -> Slot] /\ dst' \in [Context -> Core]
    BY <1>8, ReturnTypes DEF UnRefLocked
  <2>5. /\ bstep' \in [Context -> {"none", "ref", "send", "undo", "done"}]
        /\ bidx' \in [Context -> Core]
    BY <1>8, NextCoreTypes DEF UnRefLocked, AfterUnRef, TypeOK
  <2>. QED
    BY <1>8, <2>1, <2>2, <2>3, <2>4, <2>5 DEF UnRefLocked, TypeOK
<1>9. ASSUME NEW x \in Context, NEW s \in Slot, NEW c \in Core, NEW signal \in BOOLEAN,
             SendLocked(x, s, c, signal)
      PROVE  TypeOK'
  <2>1. hand[x][s] \in Msg /\ head[c] \in Pos
    BY <1>9 DEF SendLocked, TypeOK
  <2>2. hand' \in [Context -> [Slot -> Msg \cup {None}]]
    BY <1>9, HandWrite DEF SendLocked
  <2>3. queue' \in [Core -> [Pos -> Msg \cup {None}]] /\ head' \in [Core -> Pos]
    BY <1>9, <2>1, RingWrite, IndexWrite DEF SendLocked, QueueMsg
  <2>4. /\ pc' \in [Context -> {"idle", "ref", "unref", "raise"}]
        /\ dst' \in [Context -> Core]
    BY <1>9 DEF SendLocked, TypeOK
  <2>. QED
    BY <1>9, <2>2, <2>3, <2>4 DEF SendLocked, QueueMsg, TypeOK
<1>10. ASSUME NEW x \in Context, SendFails(x) PROVE TypeOK'
  BY <1>10 DEF SendFails, TypeOK
<1>11. ASSUME NEW x \in Context, RaiseInterrupt(x) PROVE TypeOK'
  <2>1. /\ pc' \in [Context -> {"idle", "ref", "unref", "raise"}]
        /\ slot' \in [Context -> Slot] /\ dst' \in [Context -> Core]
    BY <1>11, ReturnTypes DEF RaiseInterrupt
  <2>2. /\ bstep' \in [Context -> {"none", "ref", "send", "undo", "done"}]
        /\ bidx' \in [Context -> Core]
    BY <1>11, NextCoreTypes DEF RaiseInterrupt, TypeOK
  <2>. QED
    BY <1>11, <2>1, <2>2 DEF RaiseInterrupt, TypeOK
<1>12. ASSUME NEW x \in Context, NEW s \in Slot, ReceiveMsgBuffer(x, s) PROVE TypeOK'
  <2>1. x[2] \in Core /\ queue[x[2]][tail[x[2]]] \in Msg \cup {None}
    BY TupleTypes DEF TypeOK
  <2>2. hand' \in [Context -> [Slot -> Msg \cup {None}]]
    BY <1>12, <2>1, HandWrite DEF ReceiveMsgBuffer
  <2>3. tail' \in [Core -> Pos]
    BY <1>12, <2>1, IndexWrite DEF ReceiveMsgBuffer, DequeueMsg
  <2>. QED
    BY <1>12, <2>2, <2>3 DEF ReceiveMsgBuffer, DequeueMsg, TypeOK
<1>13. CASE UNCHANGED vars
  BY <1>13 DEF vars, TypeOK
<1>. QED
  <2>1. ASSUME NEW c \in Core, CoreStep(c) PROVE TypeOK'
    BY <1>1, <1>2, <1>3, <2>1 DEF CoreStep
  <2>2. ASSUME NEW x \in Context, ContextStep(x) PROVE TypeOK'
    BY <1>4, <1>5, <1>6, <1>7, <1>8, <1>9, <1>10, <1>11, <1>12, <2>2 DEF ContextStep
  <2>. QED
    BY <1>13, <2>1, <2>2 DEF Next

-----------------------------------------------------------------------------
(* Putting a message into a ring occupies one slot more, taking one out    *)
(* one less.                                                               *)
LEMMA RingPut ==
  ASSUME TypeOK, NEW c \in Core, NEW m \in Msg, ~QueueFull(c), QueueMsg(m, c)
  PROVE  /\ head[c] \in Pos
         /\ ~Occupied(c, head[c])
         /\ \A d \in Core, i \in Pos :
              Occupied(d, i)' <=> (Occupied(d, i) \/ (d = c /\ i = head[c]))
<1>1. head[c] \in Pos /\ tail[c] \in Pos /\ head \in [Core -> Pos]
  BY DEF TypeOK
<1>2. (head[c] + 1) % QSize = IF head[c] + 1 = QSize THEN 0 ELSE head[c] + 1
  BY <1>1, NextIndex
<1>3. /\ head'[c] = (head[c] + 1) % QSize /\ tail' = tail
      /\ \A d \in Core : d # c => head'[d] = head[d]
  BY <1>1 DEF QueueMsg
<1>4. (head[c] + 1) % QSize # tail[c]
  BY DEF QueueFull
<1>5. ~Occupied(c, head[c])
  BY <1>1 DEF Occupied, Pos
<1>6. ASSUME NEW i \in Pos
      PROVE  Occupied(c, i)' <=> (Occupied(c, i) \/ i = head[c])
  BY <1>1, <1>2, <1>3, <1>4, <1>6, SizeAssumption DEF Occupied, Pos
<1>7. ASSUME NEW d \in Core, NEW i \in Pos, d # c
      PROVE  Occupied(d, i)' <=> Occupied(d, i)
  BY <1>3, <1>7 DEF Occupied
<1>. QED
  BY <1>1, <1>5, <1>6, <1>7

LEMMA RingTake ==
  ASSUME TypeOK, NEW c \in Core, ~QueueEmpty(c), DequeueMsg(c)
  PROVE  /\ tail[c] \in Pos
         /\ Occupied(c, tail[c])
         /\ \A d \in Core, i \in Pos :
              Occupied(d, i)' <=> (Occupied(d, i) /\ ~(d = c /\ i = tail[c]))
<1>1. head[c] \in Pos /\ tail[c] \in Pos /\ tail \in [Core -> Pos]
  BY DEF TypeOK
<1>2. (tail[c] + 1) % QSize = IF tail[c] + 1 = QSize THEN 0 ELSE tail[c] + 1
  BY <1>1, NextIndex
<1>3. /\ tail'[c] = (tail[c] + 1) % QSize /\ head' = head
      /\ \A d \in Core : d # c => tail'[d] = tail[d]
  BY <1>1 DEF DequeueMsg
<1>4. head[c] # tail[c]
  BY DEF QueueEmpty
<1>5. Occupied(c, tail[c])
  BY <1>1, <1>4 DEF Occupied, Pos
<1>6. ASSUME NEW i \in Pos
      PROVE  Occupied(c, i)' <=> (Occupied(c, i) /\ i # tail[c])
  BY <1>1, <1>2, <1>3, <1>4, <1>6, SizeAssumption DEF Occupied, Pos
<1>7. ASSUME NEW d \in Core, NEW i \in Pos, d # c
      PROVE  Occupied(d, i)' <=> Occupied(d, i)
  BY <1>3, <1>7 DEF Occupied
<1>. QED
  BY <1>1, <1>5, <1>6, <1>7

(* What a ring gives out is a message.                                     *)
LEMMA TakenIsMsg ==
  ASSUME ControlInv, NEW c \in Core, ~QueueEmpty(c), DequeueMsg(c)
  PROVE  queue[c][tail[c]] \in Msg
BY RingTake DEF ControlInv, RingFilled

-----------------------------------------------------------------------------
(* The control invariant is inductive.  A conjunct is disturbed by few of  *)
(* the actions.                                                            *)

(* The steps of the handler and of start-up.                               *)
LEMMA CoreStepControl ==
  ASSUME ControlInv, TypeOK', NEW c \in Core, CoreStep(c)
  PROVE  ControlInv'
<1>. USE DEF memVars, ringVars, coreVars, irqVars, callVars, bcastVars
<1>. /\ TypeOK /\ HandlerHand /\ HandlerCalls /\ CallHasMsg
     /\ QuietBeforeBoot /\ CallbacksSet /\ RingFilled
  BY DEF ControlInv
<1>1. CASE \/ Initialize(c) \/ RegisterMsgReceivedCallback(c) \/ InitStream(c)
           \/ IsrEnter(c) \/ IsrLoop(c) \/ IsrExit(c)
  <2>1. UNCHANGED <<hand, pc, slot, bstep, queue, head, tail>>
    BY <1>1 DEF Initialize, RegisterMsgReceivedCallback, InitStream, IsrEnter, IsrLoop, IsrExit
  <2>2. HandlerHand' /\ HandlerCalls'
    <3>1. CASE Initialize(c) \/ RegisterMsgReceivedCallback(c) \/ InitStream(c)
      BY <2>1, <3>1 DEF HandlerHand, HandlerCalls, Initialize,
         RegisterMsgReceivedCallback, InitStream
    <3>2. CASE IsrEnter(c) \/ IsrLoop(c) \/ IsrExit(c)
      <4>1. \A d \in Core : d # c => isr'[d] = isr[d]
        BY <3>2 DEF IsrEnter, IsrLoop, IsrExit, TypeOK
      <4>2. /\ \A s \in Slot : hand[Handler(c)][s] = None
            /\ pc[Handler(c)] = "idle" /\ bstep[Handler(c)] = "none"
        BY <3>2 DEF IsrEnter, IsrLoop, IsrExit, HandlerHand, HandlerCalls
      <4>. QED
        BY <2>1, <4>1, <4>2 DEF HandlerHand, HandlerCalls
    <3>. QED
      BY <1>1, <3>1, <3>2
  <2>3. CallHasMsg' /\ RingFilled'
    BY <2>1 DEF CallHasMsg, RingFilled, Occupied
  <2>4. QuietBeforeBoot' /\ CallbacksSet'
    BY <1>1 DEF QuietBeforeBoot, CallbacksSet, TypeOK, Initialize,
       RegisterMsgReceivedCallback, InitStream, IsrEnter, IsrLoop, IsrExit
  <2>. QED
    BY <2>2, <2>3, <2>4 DEF ControlInv
<1>2. CASE IsrReceive(c) \/ IsrDispatch(c)
  <2>1. /\ UNCHANGED <<pc, slot, bstep, trigger, userCB, streamCB, pending>>
        /\ isr[c] \in {"receive", "dispatch"}
        /\ \E p \in {"exit", "dispatch", "callback", "unref", "receive"} :
             isr' = [isr EXCEPT ![c] = p]
    BY <1>2 DEF IsrReceive, IsrDispatch
  <2>2. pc[Handler(c)] = "idle" /\ bstep[Handler(c)] = "none"
    BY <2>1 DEF HandlerCalls
  <2>3. \A d \in Core : d # c => isr'[d] = isr[d]
    BY <2>1 DEF TypeOK
  <2>4. \A x \in Context : x # Handler(c) => hand'[x] = hand[x]
    BY <1>2 DEF IsrReceive, IsrDispatch, TypeOK
  <2>5. \A d \in Core : d # c => Handler(d) # Handler(c)
    BY DEF Handler
  <2>6. HandlerHand'
    <3>1. ASSUME NEW s \in Slot, hand'[Handler(c)][s] # None
          PROVE  isr'[c] \in {"callback", "unref"} \/ (isr'[c] = "dispatch" /\ s = 1)
      <4>1. CASE IsrReceive(c)
        <5>1. CASE QueueEmpty(c)
          BY <3>1, <4>1, <5>1 DEF IsrReceive, HandlerHand
        <5>2. CASE ~QueueEmpty(c)
          <6>1. isr'[c] = "dispatch" /\ isr[c] = "receive"
            BY <4>1, <5>2 DEF IsrReceive, TypeOK
          <6>2. hand' = [hand EXCEPT ![Handler(c)][1] = queue[c][tail[c]]]
            BY <4>1, <5>2 DEF IsrReceive
          <6>3. s # 1 => hand'[Handler(c)][s] = hand[Handler(c)][s]
            BY <6>2, HandRead, TupleTypes
          <6>. QED
            BY <3>1, <6>1, <6>3 DEF HandlerHand
        <5>. QED
          BY <5>1, <5>2
      <4>2. CASE IsrDispatch(c)
        <5>1. isr[c] = "dispatch"
          BY <4>2 DEF IsrDispatch
        <5>2. \/ hand' = hand /\ isr'[c] \in {"callback", "unref"}
              \/ hand' = [hand EXCEPT ![Handler(c)][1] = None]
          BY <4>2 DEF IsrDispatch, TypeOK
        <5>3. CASE hand' = [hand EXCEPT ![Handler(c)][1] = None]
          <6>1. \A t \in Slot :
                   hand'[Handler(c)][t] = IF t = 1 THEN None ELSE hand[Handler(c)][t]
            <7>1. Handler(c) \in Context /\ 1 \in Slot /\ None \in Msg \cup {None}
              BY TupleTypes
            <7>2. \A y \in Context : \A t \in Slot :
                     hand'[y][t] = IF y = Handler(c) /\ t = 1 THEN None ELSE hand[y][t]
              BY <5>3, <7>1, HandRead
            <7>. QED
              BY <7>1, <7>2
          <6>. QED
            BY <3>1, <5>1, <6>1 DEF HandlerHand
        <5>. QED
          BY <5>2, <5>3
      <4>. QED
        BY <1>2, <4>1, <4>2
    <3>. QED
      BY <2>3, <2>4, <2>5, <3>1, TupleTypes DEF HandlerHand
  <2>7. HandlerCalls'
    BY <2>1, <2>2, <2>3 DEF HandlerCalls
  <2>8. CallHasMsg'
    BY <2>1, <2>2, <2>4 DEF CallHasMsg
  <2>9. QuietBeforeBoot' /\ CallbacksSet'
    BY <2>1 DEF QuietBeforeBoot, CallbacksSet, TypeOK
  <2>10. RingFilled'
    <3>1. CASE IsrReceive(c) /\ ~QueueEmpty(c)
      BY <3>1, RingTake DEF IsrReceive, RingFilled, DequeueMsg
    <3>2. CASE UNCHANGED <<queue, head, tail>>
      BY <3>2 DEF RingFilled, Occupied
    <3>. QED
      BY <1>2, <3>1, <3>2 DEF IsrReceive, IsrDispatch
  <2>. QED
    BY <2>6, <2>7, <2>8, <2>9, <2>10 DEF ControlInv
<1>. QED
  BY <1>1, <1>2 DEF CoreStep

(* A context that starts or continues a call in its handler is the         *)
(* message callback.                                                       *)
LEMMA CallsFromCallback ==
  ASSUME ControlInv, NEW c \in Core
  PROVE  /\ \A call \in ApiCalls : MayCall(Handler(c), call) => isr[c] = "callback"
         /\ pc[Handler(c)] # "idle" => isr[c] \in {"callback", "unref"}
         /\ bstep[Handler(c)] # "none" => isr[c] = "callback"
BY DEF ControlInv, HandlerCalls, MayCall, Handler

(* The steps of a call.                                                    *)
LEMMA ContextStepControl ==
  ASSUME ControlInv, TypeOK', NEW x \in Context, ContextStep(x)
  PROVE  ControlInv'
<1>. USE DEF memVars, ringVars, coreVars, irqVars, callVars, bcastVars
<1>. /\ TypeOK /\ HandlerHand /\ HandlerCalls /\ CallHasMsg
     /\ QuietBeforeBoot /\ CallbacksSet /\ RingFilled
  BY DEF ControlInv
<1>. DEFINE Frame == \A y \in Context : y # x =>
                      /\ hand'[y] = hand[y] /\ pc'[y] = pc[y]
                      /\ slot'[y] = slot[y] /\ bstep'[y] = bstep[y]
             Called == \A c \in Core : x = Handler(c) =>
                         /\ isr[c] \in {"callback", "unref"}
                         /\ bstep'[x] # "none" => isr[c] = "callback"
<1>1. Frame /\ Called
  <2>1. ASSUME NEW s \in Slot, NEW m \in Msg,
               BroadcastEvent(x, m) \/ CreateMsgBuffer(x, s, m)
        PROVE  Frame /\ Called
    <3>1. Frame
      BY <2>1 DEF BroadcastEvent, CreateMsgBuffer, NewMsg, TypeOK
    <3>2. Called
      BY <2>1, CallsFromCallback DEF BroadcastEvent, CreateMsgBuffer, ApiCalls
    <3>. QED
      BY <3>1, <3>2
  <2>2. ASSUME NEW s \in Slot, SetMsgBufferType(x, s) \/ ReceiveMsgBuffer(x, s)
        PROVE  Frame /\ Called
    <3>1. Frame
      BY <2>2 DEF SetMsgBufferType, ReceiveMsgBuffer, TypeOK
    <3>2. Called
      BY <2>2, CallsFromCallback DEF SetMsgBufferType, ReceiveMsgBuffer, ApiCalls
    <3>. QED
      BY <3>1, <3>2
  <2>3. ASSUME NEW s \in Slot, RefCheck(x, s) \/ UnRefCheck(x, s)
        PROVE  Frame /\ Called
    <3>1. Frame
      BY <2>3 DEF RefCheck, UnRefCheck, TypeOK
    <3>2. bstep' = bstep
      BY <2>3 DEF RefCheck, UnRefCheck
    <3>3. ASSUME NEW c \in Core, x = Handler(c)
          PROVE  isr[c] \in {"callback", "unref"}
      <4>1. \/ MayCall(x, "ref") \/ MayCall(x, "unref")
            \/ bstep[x] \in {"ref", "undo", "done"}
            \/ isr[c] = "unref"
        BY <2>3, <3>3 DEF RefCheck, UnRefCheck, Turn, Handler
      <4>. QED
        BY <3>3, <4>1, CallsFromCallback DEF ApiCalls
    <3>. QED
      BY <3>1, <3>2, <3>3, CallsFromCallback
  <2>4. ASSUME NEW s \in Slot, NEW c \in Core, NEW signal \in BOOLEAN,
               SendLocked(x, s, c, signal) \/ SendFails(x)
        PROVE  Frame /\ Called
    <3>1. Frame
      BY <2>4 DEF SendLocked, SendFails, TypeOK
    <3>2. MayCall(x, "send") \/ bstep[x] = "send"
      BY <2>4 DEF SendLocked, SendFails, Turn
    <3>3. bstep'[x] # "none" => bstep[x] # "none"
      BY <2>4 DEF SendLocked, SendFails
    <3>. QED
      BY <3>1, <3>2, <3>3, CallsFromCallback DEF ApiCalls
  <2>5. ASSUME NEW s \in Slot, RefLocked(x, s) \/ UnRefLocked(x) \/ RaiseInterrupt(x)
        PROVE  Frame /\ Called
    <3>1. Return(x) /\ pc[x] # "idle"
      BY <2>5 DEF RefLocked, UnRefLocked, RaiseInterrupt
    <3>2. Frame
      BY <2>5, <3>1 DEF RefLocked, UnRefLocked, AfterUnRef, RaiseInterrupt, Return,
                       NextCore, TypeOK
    <3>3. bstep'[x] # "none" => bstep[x] # "none"
      BY <2>5 DEF RefLocked, UnRefLocked, AfterUnRef, RaiseInterrupt, NextCore, TypeOK
    <3>. QED
      BY <3>1, <3>2, <3>3, CallsFromCallback
  <2>. QED
    BY <2>1, <2>2, <2>3, <2>4, <2>5, TupleTypes DEF ContextStep
<1>2. UNCHANGED <<userCB, streamCB, isr>>
  BY DEF ContextStep, BroadcastEvent, CreateMsgBuffer, SetMsgBufferType, RefCheck,
     RefLocked, UnRefCheck, UnRefLocked, SendLocked, SendFails, RaiseInterrupt,
     ReceiveMsgBuffer
<1>3. HandlerHand' /\ HandlerCalls'
  <2>1. ASSUME NEW c \in Core, x = Handler(c)
        PROVE  /\ isr'[c] \in {"callback", "unref"}
               /\ bstep'[x] # "none" => isr'[c] = "callback"
    BY <1>1, <1>2, <2>1
  <2>2. ASSUME NEW c \in Core, x # Handler(c)
        PROVE  /\ hand'[Handler(c)] = hand[Handler(c)]
               /\ pc'[Handler(c)] = pc[Handler(c)]
               /\ bstep'[Handler(c)] = bstep[Handler(c)]
    BY <1>1, <2>2, TupleTypes
  <2>. QED
    BY <1>2, <2>1, <2>2 DEF HandlerHand, HandlerCalls
<1>4. pc'[x] \in {"ref", "unref"} => hand'[x][slot'[x]] # None
  <2>1. CASE UnRefLocked(x) \/ RaiseInterrupt(x) \/ (\E t \in Slot : RefLocked(x, t))
    BY <2>1 DEF UnRefLocked, RaiseInterrupt, RefLocked, Return, TypeOK
  <2>2. CASE \E s \in Slot : RefCheck(x, s) \/ UnRefCheck(x, s)
    BY <2>2 DEF RefCheck, UnRefCheck, TypeOK
  <2>3. ASSUME NEW s \in Slot, NEW c \in Core, NEW signal \in BOOLEAN,
               SendLocked(x, s, c, signal)
        PROVE  pc'[x] \notin {"ref", "unref"}
    BY <2>3 DEF SendLocked, Turn, MayCall, TypeOK
  <2>4. ASSUME NEW s \in Slot, NEW m \in Msg,
               BroadcastEvent(x, m) \/ CreateMsgBuffer(x, s, m)
        PROVE  pc'[x] \notin {"ref", "unref"}
    BY <2>4 DEF BroadcastEvent, CreateMsgBuffer, MayCall
  <2>5. ASSUME NEW s \in Slot, ReceiveMsgBuffer(x, s) \/ SetMsgBufferType(x, s) \/ SendFails(x)
        PROVE  pc'[x] \notin {"ref", "unref"}
    BY <2>5 DEF ReceiveMsgBuffer, SetMsgBufferType, SendFails, MayCall
  <2>. QED
    BY <2>1, <2>2, <2>3, <2>4, <2>5, TupleTypes DEF ContextStep
<1>5. CallHasMsg'
  BY <1>1, <1>4 DEF CallHasMsg
<1>6. QuietBeforeBoot'
  BY <1>2 DEF QuietBeforeBoot, ContextStep, BroadcastEvent, CreateMsgBuffer,
     SetMsgBufferType, RefCheck, RefLocked, UnRefCheck, UnRefLocked, SendLocked,
     SendFails, RaiseInterrupt, ReceiveMsgBuffer, TypeOK
<1>7. CallbacksSet'
  BY <1>2 DEF CallbacksSet
<1>8. RingFilled'
  <2>1. ASSUME NEW s \in Slot, NEW c \in Core, NEW signal \in BOOLEAN,
               SendLocked(x, s, c, signal)
        PROVE  RingFilled'
    <3>1. hand[x][s] \in Msg
      BY <2>1 DEF SendLocked, TypeOK
    <3>2. QueueMsg(hand[x][s], c) /\ ~QueueFull(c)
      BY <2>1 DEF SendLocked, Accepts
    <3>3. /\ ~Occupied(c, head[c]) /\ head[c] \in Pos
          /\ \A d \in Core, i \in Pos :
               Occupied(d, i)' <=> (Occupied(d, i) \/ (d = c /\ i = head[c]))
      BY <3>1, <3>2, RingPut
    <3>4. \A d \in Core, i \in Pos :
             queue'[d][i] = IF d = c /\ i = head[c] THEN hand[x][s] ELSE queue[d][i]
      BY <3>2, <3>3 DEF QueueMsg, TypeOK
    <3>. QED
      BY <3>1, <3>3, <3>4 DEF RingFilled
  <2>2. ASSUME NEW s \in Slot, ReceiveMsgBuffer(x, s) PROVE RingFilled'
    BY <2>2, RingTake, TupleTypes DEF ReceiveMsgBuffer, RingFilled, DequeueMsg
  <2>3. CASE UNCHANGED <<queue, head, tail>>
    BY <2>3 DEF RingFilled, Occupied
  <2>. QED
    BY <2>1, <2>2, <2>3 DEF ContextStep, BroadcastEvent, CreateMsgBuffer, SetMsgBufferType,
       RefCheck, RefLocked, UnRefCheck, UnRefLocked, SendFails, RaiseInterrupt
<1>. QED
  BY <1>3, <1>5, <1>6, <1>7, <1>8 DEF ControlInv

LEMMA StepControl == ControlInv /\ [Next]_vars => ControlInv'
<1>. SUFFICES ASSUME ControlInv, [Next]_vars PROVE ControlInv'
  OBVIOUS
<1>1. TypeOK'
  BY StepTypeOK DEF ControlInv
<1>2. CASE Next
  BY <1>1, <1>2, CoreStepControl, ContextStepControl DEF Next
<1>3. CASE UNCHANGED vars
  BY <1>1, <1>3 DEF vars, memVars, ringVars, coreVars, irqVars, callVars, bcastVars,
     ControlInv, HandlerHand, HandlerCalls, CallHasMsg, QuietBeforeBoot, CallbacksSet,
     RingFilled, Occupied
<1>. QED
  BY <1>2, <1>3

LEMMA Control == Spec => []ControlInv
BY InitControl, StepControl, PTL DEF Spec

(* Every variable keeps its type.                                          *)
THEOREM TypeCorrect == Spec => []TypeOK
<1>1. ControlInv => TypeOK
  BY DEF ControlInv
<1>. QED
  BY <1>1, Control, PTL

-----------------------------------------------------------------------------
(* How one write changes the references to a message.                      *)
LEMMA HandGain ==
  ASSUME TypeOK, NEW x \in Context, NEW s \in Slot, NEW m \in Msg,
         hand[x][s] = None, hand' = [hand EXCEPT ![x][s] = m]
  PROVE  /\ <<x, s>> \notin HandRefs(m)
         /\ HandRefs(m)' = HandRefs(m) \cup {<<x, s>>}
         /\ \A n \in Msg : n # m => HandRefs(n)' = HandRefs(n)
<1>1. \A y \in Context : \A t \in Slot :
         hand'[y][t] = IF y = x /\ t = s THEN m ELSE hand[y][t]
  BY DEF TypeOK
<1>2. <<x, s>> \notin HandRefs(m)
  BY NameAssumption DEF HandRefs
<1>3. HandRefs(m)' = HandRefs(m) \cup {<<x, s>>}
  BY <1>1 DEF HandRefs
<1>4. \A n \in Msg : n # m => HandRefs(n)' = HandRefs(n)
  BY <1>1, NameAssumption DEF HandRefs
<1>. QED
  BY <1>2, <1>3, <1>4

LEMMA HandLose ==
  ASSUME TypeOK, NEW x \in Context, NEW s \in Slot, NEW m \in Msg,
         hand[x][s] = m, hand' = [hand EXCEPT ![x][s] = None]
  PROVE  /\ <<x, s>> \in HandRefs(m)
         /\ HandRefs(m)' = HandRefs(m) \ {<<x, s>>}
         /\ \A n \in Msg : n # m => HandRefs(n)' = HandRefs(n)
<1>1. None \in Msg \cup {None}
  OBVIOUS
<1>2. \A y \in Context : \A t \in Slot :
         hand'[y][t] = IF y = x /\ t = s THEN None ELSE hand[y][t]
  BY <1>1, HandRead
<1>. QED
  BY <1>2, NameAssumption DEF HandRefs

LEMMA RingGain ==
  ASSUME TypeOK, NEW c \in Core, NEW m \in Msg, ~QueueFull(c), QueueMsg(m, c)
  PROVE  /\ <<c, head[c]>> \notin QueueRefs(m)
         /\ QueueRefs(m)' = QueueRefs(m) \cup {<<c, head[c]>>}
         /\ \A n \in Msg : n # m => QueueRefs(n)' = QueueRefs(n)
<1>1. /\ head[c] \in Pos /\ ~Occupied(c, head[c])
      /\ \A d \in Core, i \in Pos :
           Occupied(d, i)' <=> (Occupied(d, i) \/ (d = c /\ i = head[c]))
  BY RingPut
<1>2. \A d \in Core, i \in Pos :
         queue'[d][i] = IF d = c /\ i = head[c] THEN m ELSE queue[d][i]
  BY <1>1 DEF QueueMsg, TypeOK
<1>. QED
  BY <1>1, <1>2 DEF QueueRefs

LEMMA RingLose ==
  ASSUME TypeOK, NEW c \in Core, NEW m \in Msg, ~QueueEmpty(c), DequeueMsg(c),
         queue[c][tail[c]] = m
  PROVE  /\ <<c, tail[c]>> \in QueueRefs(m)
         /\ QueueRefs(m)' = QueueRefs(m) \ {<<c, tail[c]>>}
         /\ \A n \in Msg : n # m => QueueRefs(n)' = QueueRefs(n)
<1>1. /\ tail[c] \in Pos /\ Occupied(c, tail[c])
      /\ \A d \in Core, i \in Pos :
           Occupied(d, i)' <=> (Occupied(d, i) /\ ~(d = c /\ i = tail[c]))
  BY RingTake
<1>2. queue' = queue
  BY DEF DequeueMsg
<1>. QED
  BY <1>1, <1>2 DEF QueueRefs

-----------------------------------------------------------------------------
(* Counting them.                                                          *)
Refs(m) == Cardinality(HandRefs(m)) + Cardinality(QueueRefs(m))

LEMMA RefsFinite ==
  ASSUME RefRoom, NEW m
  PROVE  /\ HandRefs(m) \subseteq Hands /\ QueueRefs(m) \subseteq Rings
         /\ IsFiniteSet(HandRefs(m)) /\ IsFiniteSet(QueueRefs(m))
         /\ Cardinality(HandRefs(m)) \in Nat /\ Cardinality(QueueRefs(m)) \in Nat
         /\ Refs(m) \in 0 .. RefMax
<1>1. HandRefs(m) \subseteq Hands /\ QueueRefs(m) \subseteq Rings
  BY DEF HandRefs, QueueRefs, Hands, Rings
<1>2. /\ IsFiniteSet(HandRefs(m)) /\ Cardinality(HandRefs(m)) <= Cardinality(Hands)
      /\ IsFiniteSet(QueueRefs(m)) /\ Cardinality(QueueRefs(m)) <= Cardinality(Rings)
  BY <1>1, FS_Subset DEF RefRoom
<1>3. /\ Cardinality(HandRefs(m)) \in Nat /\ Cardinality(QueueRefs(m)) \in Nat
      /\ Cardinality(Hands) \in Nat /\ Cardinality(Rings) \in Nat
  BY <1>2, FS_CardinalityType DEF RefRoom
<1>4. Refs(m) \in 0 .. RefMax
  BY <1>2, <1>3, SizeAssumption DEF Refs, RefRoom
<1>. QED
  BY <1>1, <1>2, <1>3, <1>4

(* A message somebody points to has a reference, one nobody points to none. *)
LEMMA RefsPositive ==
  ASSUME RefRoom, NEW m
  PROVE  Refs(m) # 0 <=> HandRefs(m) # {} \/ QueueRefs(m) # {}
<1>1. /\ Cardinality(HandRefs(m)) = 0 <=> HandRefs(m) = {}
      /\ Cardinality(QueueRefs(m)) = 0 <=> QueueRefs(m) = {}
  BY RefsFinite, FS_EmptySet
<1>2. Cardinality(HandRefs(m)) \in Nat /\ Cardinality(QueueRefs(m)) \in Nat
  BY RefsFinite
<1>. QED
  BY <1>1, <1>2 DEF Refs

LEMMA OneMore ==
  ASSUME NEW S, NEW T, NEW e, IsFiniteSet(S), e \notin S, T = S \cup {e}
  PROVE  Cardinality(T) = Cardinality(S) + 1
BY FS_AddElement

LEMMA OneLess ==
  ASSUME NEW S, NEW T, NEW e, IsFiniteSet(S), e \in S, T = S \ {e}
  PROVE  Cardinality(T) = Cardinality(S) - 1
BY FS_RemoveElement

(* The five ways in which the pointers change.                             *)
LEMMA GainInHand ==
  ASSUME RefRoom, TypeOK, NEW x \in Context, NEW s \in Slot, NEW m \in Msg,
         hand[x][s] = None, hand' = [hand EXCEPT ![x][s] = m],
         UNCHANGED <<queue, head, tail>>
  PROVE  /\ Refs(m)' = Refs(m) + 1
         /\ \A n \in Msg : n # m => Refs(n)' = Refs(n)
<1>1. \A n \in Msg : QueueRefs(n)' = QueueRefs(n)
  BY DEF QueueRefs, Occupied
<1>2. Cardinality(HandRefs(m)') = Cardinality(HandRefs(m)) + 1
  <2>1. /\ IsFiniteSet(HandRefs(m)) /\ <<x, s>> \notin HandRefs(m)
        /\ HandRefs(m)' = HandRefs(m) \cup {<<x, s>>}
    BY HandGain, RefsFinite
  <2>. QED
    BY <2>1, OneMore
<1>3. Cardinality(HandRefs(m)) \in Nat /\ Cardinality(QueueRefs(m)) \in Nat
  BY RefsFinite
<1>4. \A n \in Msg : n # m => HandRefs(n)' = HandRefs(n)
  BY HandGain
<1>. QED
  BY <1>1, <1>2, <1>3, <1>4 DEF Refs

LEMMA LoseFromHand ==
  ASSUME RefRoom, TypeOK, NEW x \in Context, NEW s \in Slot, NEW m \in Msg,
         hand[x][s] = m, hand' = [hand EXCEPT ![x][s] = None],
         UNCHANGED <<queue, head, tail>>
  PROVE  /\ Refs(m)' = Refs(m) - 1
         /\ \A n \in Msg : n # m => Refs(n)' = Refs(n)
<1>1. \A n \in Msg : QueueRefs(n)' = QueueRefs(n)
  BY DEF QueueRefs, Occupied
<1>2. Cardinality(HandRefs(m)') = Cardinality(HandRefs(m)) - 1
  <2>1. /\ IsFiniteSet(HandRefs(m)) /\ <<x, s>> \in HandRefs(m)
        /\ HandRefs(m)' = HandRefs(m) \ {<<x, s>>}
    BY HandLose, RefsFinite
  <2>. QED
    BY <2>1, OneLess
<1>3. Cardinality(HandRefs(m)) \in Nat /\ Cardinality(QueueRefs(m)) \in Nat
  BY RefsFinite
<1>4. \A n \in Msg : n # m => HandRefs(n)' = HandRefs(n)
  BY HandLose
<1>. QED
  BY <1>1, <1>2, <1>3, <1>4 DEF Refs

LEMMA FromHandToRing ==
  ASSUME RefRoom, TypeOK, NEW x \in Context, NEW s \in Slot, NEW c \in Core, NEW m \in Msg,
         hand[x][s] = m, hand' = [hand EXCEPT ![x][s] = None],
         ~QueueFull(c), QueueMsg(m, c)
  PROVE  \A n \in Msg : Refs(n)' = Refs(n)
<1>1. Cardinality(HandRefs(m)') = Cardinality(HandRefs(m)) - 1
  <2>1. /\ IsFiniteSet(HandRefs(m)) /\ <<x, s>> \in HandRefs(m)
        /\ HandRefs(m)' = HandRefs(m) \ {<<x, s>>}
    BY HandLose, RefsFinite
  <2>. QED
    BY <2>1, OneLess
<1>2. Cardinality(QueueRefs(m)') = Cardinality(QueueRefs(m)) + 1
  <2>1. /\ IsFiniteSet(QueueRefs(m)) /\ <<c, head[c]>> \notin QueueRefs(m)
        /\ QueueRefs(m)' = QueueRefs(m) \cup {<<c, head[c]>>}
    BY RingGain, RefsFinite
  <2>. QED
    BY <2>1, OneMore
<1>3. Cardinality(HandRefs(m)) \in Nat /\ Cardinality(QueueRefs(m)) \in Nat
  BY RefsFinite
<1>4. \A n \in Msg : n # m => HandRefs(n)' = HandRefs(n) /\ QueueRefs(n)' = QueueRefs(n)
  BY HandLose, RingGain
<1>. QED
  BY <1>1, <1>2, <1>3, <1>4 DEF Refs

LEMMA FromRingToHand ==
  ASSUME RefRoom, TypeOK, NEW x \in Context, NEW s \in Slot, NEW c \in Core, NEW m \in Msg,
         hand[x][s] = None, hand' = [hand EXCEPT ![x][s] = m],
         ~QueueEmpty(c), DequeueMsg(c), queue[c][tail[c]] = m
  PROVE  \A n \in Msg : Refs(n)' = Refs(n)
<1>1. Cardinality(HandRefs(m)') = Cardinality(HandRefs(m)) + 1
  <2>1. /\ IsFiniteSet(HandRefs(m)) /\ <<x, s>> \notin HandRefs(m)
        /\ HandRefs(m)' = HandRefs(m) \cup {<<x, s>>}
    BY HandGain, RefsFinite
  <2>. QED
    BY <2>1, OneMore
<1>2. Cardinality(QueueRefs(m)') = Cardinality(QueueRefs(m)) - 1
  <2>1. /\ IsFiniteSet(QueueRefs(m)) /\ <<c, tail[c]>> \in QueueRefs(m)
        /\ QueueRefs(m)' = QueueRefs(m) \ {<<c, tail[c]>>}
    BY RingLose, RefsFinite
  <2>. QED
    BY <2>1, OneLess
<1>3. Cardinality(HandRefs(m)) \in Nat /\ Cardinality(QueueRefs(m)) \in Nat
  BY RefsFinite
<1>4. \A n \in Msg : n # m => HandRefs(n)' = HandRefs(n) /\ QueueRefs(n)' = QueueRefs(n)
  BY HandGain, RingLose
<1>. QED
  BY <1>1, <1>2, <1>3, <1>4 DEF Refs

LEMMA PointersKept ==
  ASSUME UNCHANGED <<hand, queue, head, tail>>
  PROVE  \A n \in Msg : Refs(n)' = Refs(n)
BY DEF Refs, HandRefs, QueueRefs, Occupied

-----------------------------------------------------------------------------
(* The reference counts.  Exactness alone is not inductive: that an        *)
(* allocated message has a count above zero is what makes the last unref   *)
(* free it, and that a count of zero is free what makes a new one start    *)
(* from nothing.                                                           *)
RefInv == /\ \A m \in Msg : Refs(m) = IF m \in live THEN ref[m] ELSE 0
          /\ \A m \in live : ref[m] # 0

LEMMA InitRefs == Init => RefInv
<1>. SUFFICES ASSUME Init PROVE RefInv
  OBVIOUS
<1>1. ASSUME NEW m \in Msg PROVE Refs(m) = 0
  <2>1. HandRefs(m) = {}
    BY NameAssumption DEF Init, HandRefs
  <2>2. QueueRefs(m) = {}
    BY DEF Init, QueueRefs, Occupied, Pos
  <2>. QED
    BY <2>1, <2>2, FS_EmptySet DEF Refs
<1>. QED
  BY <1>1 DEF Init, RefInv

(* What somebody points to is allocated, and its count is the number of    *)
(* pointers.                                                               *)
LEMMA PointedTo ==
  ASSUME RefRoom, TypeOK, RefInv, NEW x \in Context, NEW s \in Slot, hand[x][s] # None
  PROVE  /\ hand[x][s] \in Msg /\ hand[x][s] \in live
         /\ Refs(hand[x][s]) = ref[hand[x][s]] /\ ref[hand[x][s]] \in 1 .. RefMax
<1>. DEFINE m == hand[x][s]
<1>1. m \in Msg
  BY DEF TypeOK
<1>2. <<x, s>> \in HandRefs(m)
  BY DEF HandRefs
<1>3. Refs(m) # 0
  BY <1>2, RefsPositive
<1>4. m \in live /\ Refs(m) = ref[m]
  BY <1>1, <1>3 DEF RefInv
<1>5. ref[m] \in 1 .. RefMax
  BY <1>1, <1>3, <1>4, SizeAssumption DEF TypeOK
<1>. QED
  BY <1>1, <1>4, <1>5

LEMMA NewRefs ==
  ASSUME RefRoom, TypeOK, RefInv, NEW x \in Context, NEW s \in Slot, NEW m \in Msg, NEW t,
         NewMsg(x, s, m, t), UNCHANGED ringVars
  PROVE  RefInv'
<1>1. /\ Refs(m)' = Refs(m) + 1
      /\ \A n \in Msg : n # m => Refs(n)' = Refs(n)
  <2>1. /\ hand[x][s] = None /\ hand' = [hand EXCEPT ![x][s] = m]
        /\ UNCHANGED <<queue, head, tail>>
    BY DEF NewMsg, FreeSlot, ringVars
  <2>. QED
    BY <2>1, GainInHand
<1>2. Refs(m) = 0
  BY DEF NewMsg, RefInv
<1>3. live' = live \cup {m} /\ ref'[m] = 1 /\ \A n \in Msg : n # m => ref'[n] = ref[n]
  BY DEF NewMsg, TypeOK
<1>4. live \subseteq Msg
  BY DEF TypeOK
<1>. QED
  BY <1>1, <1>2, <1>3, <1>4 DEF RefInv

LEMMA RefLockedRefs ==
  ASSUME RefRoom, ControlInv, RefInv, NEW x \in Context, NEW t \in Slot, RefLocked(x, t)
  PROVE  RefInv'
<1>. TypeOK
  BY DEF ControlInv
<1>1. slot[x] \in Slot /\ hand[x][slot[x]] # None
  BY DEF ControlInv, TypeOK, CallHasMsg, RefLocked
<1>2. PICK m \in Msg : m = hand[x][slot[x]]
  BY <1>1 DEF TypeOK
<1>3. m \in live /\ Refs(m) = ref[m] /\ ref[m] \in 1 .. RefMax
  BY <1>1, <1>2, PointedTo
<1>4. hand[x][t] = None /\ hand' = [hand EXCEPT ![x][t] = m]
  BY <1>2 DEF RefLocked, FreeSlot
<1>5. /\ Refs(m)' = Refs(m) + 1
      /\ \A n \in Msg : n # m => Refs(n)' = Refs(n)
  BY <1>3, <1>4, GainInHand DEF RefLocked, ringVars
\* There is a free slot, so not every slot is a reference to m: the count has room.
<1>6. ref[m] < RefMax
  <2>1. /\ IsFiniteSet(Hands) /\ IsFiniteSet(Rings)
        /\ HandRefs(m) \in SUBSET Hands /\ QueueRefs(m) \in SUBSET Rings
    BY RefsFinite DEF RefRoom
  <2>2. HandRefs(m) # Hands
    <3>1. <<x, t>> \in Hands /\ <<x, t>> \notin HandRefs(m)
      BY <1>4, NameAssumption DEF HandRefs, Hands
    <3>. QED
      BY <3>1
  <2>3. /\ Cardinality(HandRefs(m)) <= Cardinality(Hands)
        /\ Cardinality(HandRefs(m)) # Cardinality(Hands)
        /\ Cardinality(QueueRefs(m)) <= Cardinality(Rings)
    BY <2>1, <2>2, FS_Subset
  <2>4. /\ Cardinality(HandRefs(m)) \in Nat /\ Cardinality(QueueRefs(m)) \in Nat
        /\ Cardinality(Hands) \in Nat /\ Cardinality(Rings) \in Nat
    BY <2>1, RefsFinite, FS_CardinalityType
  <2>. QED
    BY <1>3, <2>3, <2>4, SizeAssumption DEF Refs, RefRoom
<1>7. /\ live' = live /\ ref'[m] = ref[m] + 1
      /\ \A n \in Msg : n # m => ref'[n] = ref[n]
  <2>1. (ref[m] + 1) % (RefMax + 1) = ref[m] + 1
    BY <1>3, <1>6, CountUp
  <2>2. ref' = [ref EXCEPT ![m] = (@ + 1) % (RefMax + 1)] /\ live' = live
    BY <1>2 DEF RefLocked
  <2>. QED
    BY <1>3, <2>1, <2>2 DEF TypeOK
<1>8. live \subseteq Msg
  BY DEF TypeOK
<1>. QED
  BY <1>3, <1>5, <1>7, <1>8 DEF RefInv

LEMMA UnRefLockedRefs ==
  ASSUME RefRoom, ControlInv, RefInv, NEW x \in Context, UnRefLocked(x)
  PROVE  RefInv'
<1>. TypeOK
  BY DEF ControlInv
<1>1. slot[x] \in Slot /\ hand[x][slot[x]] # None
  BY DEF ControlInv, TypeOK, CallHasMsg, UnRefLocked
<1>2. PICK m \in Msg : m = hand[x][slot[x]]
  BY <1>1 DEF TypeOK
<1>3. m \in live /\ Refs(m) = ref[m] /\ ref[m] \in 1 .. RefMax
  BY <1>1, <1>2, PointedTo
<1>4. /\ Refs(m)' = Refs(m) - 1
      /\ \A n \in Msg : n # m => Refs(n)' = Refs(n)
  <2>1. hand' = [hand EXCEPT ![x][slot[x]] = None] /\ UNCHANGED <<queue, head, tail>>
    BY DEF UnRefLocked, ringVars
  <2>. QED
    BY <1>1, <1>2, <2>1, LoseFromHand
<1>5. (ref[m] + RefMax) % (RefMax + 1) = ref[m] - 1
  BY <1>3, CountDown
<1>6. /\ ref'[m] = ref[m] - 1
      /\ \A n \in Msg : n # m => ref'[n] = ref[n]
      /\ live' = IF ref[m] - 1 = 0 THEN live \ {m} ELSE live
  BY <1>2, <1>5 DEF UnRefLocked, TypeOK
<1>7. live \subseteq Msg
  BY DEF TypeOK
<1>. QED
  BY <1>3, <1>4, <1>6, <1>7 DEF RefInv

LEMMA StepRefs ==
  ASSUME RefRoom, BootMasked, ControlInv, RefInv, [Next]_vars
  PROVE  RefInv'
<1>. USE DEF memVars, ringVars, coreVars, irqVars, callVars, bcastVars
<1>. TypeOK
  BY DEF ControlInv
<1>1. ASSUME UNCHANGED <<hand, queue, head, tail, ref, live>>
      PROVE  RefInv'
  BY <1>1, PointersKept, Zenon DEF RefInv
<1>2. ASSUME UNCHANGED <<ref, live>>, \A n \in Msg : Refs(n)' = Refs(n)
      PROVE  RefInv'
  BY <1>2 DEF RefInv
<1>3. ASSUME NEW c \in Core, CoreStep(c) PROVE RefInv'
  <2>1. CASE IsrReceive(c) /\ ~QueueEmpty(c)
    <3>. DEFINE m == queue[c][tail[c]]
    <3>1. /\ isr[c] = "receive" /\ hand' = [hand EXCEPT ![Handler(c)][1] = m]
          /\ DequeueMsg(c) /\ UNCHANGED <<ref, live>>
      BY <2>1 DEF IsrReceive
    <3>2. Handler(c) \in Context /\ 1 \in Slot
      BY TupleTypes
    <3>3. hand[Handler(c)][1] = None
      BY <3>1, <3>2 DEF ControlInv, HandlerHand
    <3>4. m \in Msg
      BY <2>1, <3>1, TakenIsMsg
    <3>5. \A n \in Msg : Refs(n)' = Refs(n)
      BY <2>1, <3>1, <3>2, <3>3, <3>4, FromRingToHand
    <3>. QED
      BY <1>2, <3>1, <3>5
  <2>2. CASE IsrDispatch(c)
    <3>1. userCB[c] /\ streamCB[c]
      BY <2>2 DEF ControlInv, CallbacksSet, IsrDispatch
    <3>2. UNCHANGED <<hand, queue, head, tail, ref, live>>
      BY <2>2, <3>1 DEF IsrDispatch
    <3>. QED
      BY <1>1, <3>2
  <2>3. CASE \/ Initialize(c) \/ RegisterMsgReceivedCallback(c) \/ InitStream(c)
             \/ IsrEnter(c) \/ IsrLoop(c) \/ IsrExit(c)
             \/ IsrReceive(c) /\ QueueEmpty(c)
    <3>1. UNCHANGED <<hand, queue, head, tail, ref, live>>
      BY <2>3 DEF Initialize, RegisterMsgReceivedCallback, InitStream, IsrEnter, IsrLoop,
         IsrExit, IsrReceive
    <3>. QED
      BY <1>1, <3>1
  <2>. QED
    BY <1>3, <2>1, <2>2, <2>3 DEF CoreStep
<1>4. ASSUME NEW x \in Context, ContextStep(x) PROVE RefInv'
  <2>1. ASSUME NEW m \in Msg, BroadcastEvent(x, m) PROVE RefInv'
    BY <2>1, NewRefs, TupleTypes DEF BroadcastEvent
  <2>2. ASSUME NEW s \in Slot, NEW m \in Msg, CreateMsgBuffer(x, s, m) PROVE RefInv'
    BY <2>2, NewRefs DEF CreateMsgBuffer
  <2>3. ASSUME NEW s \in Slot,
               \/ SetMsgBufferType(x, s) \/ RefCheck(x, s) \/ UnRefCheck(x, s)
               \/ SendFails(x) \/ RaiseInterrupt(x)
        PROVE  RefInv'
    <3>1. UNCHANGED <<hand, queue, head, tail, ref, live>>
      BY <2>3 DEF SetMsgBufferType, RefCheck, UnRefCheck, SendFails, RaiseInterrupt
    <3>. QED
      BY <1>1, <3>1
  <2>4. ASSUME NEW s \in Slot, RefLocked(x, s) PROVE RefInv'
    BY <2>4, RefLockedRefs
  <2>5. CASE UnRefLocked(x)
    BY <2>5, UnRefLockedRefs
  <2>6. ASSUME NEW s \in Slot, NEW c \in Core, NEW signal \in BOOLEAN,
               SendLocked(x, s, c, signal)
        PROVE  RefInv'
    <3>. DEFINE m == hand[x][s]
    <3>1. m \in Msg /\ ~QueueFull(c)
      BY <2>6 DEF SendLocked, Accepts, TypeOK
    <3>2. /\ hand' = [hand EXCEPT ![x][s] = None] /\ QueueMsg(m, c)
          /\ UNCHANGED <<ref, live>>
      BY <2>6 DEF SendLocked
    <3>3. \A n \in Msg : Refs(n)' = Refs(n)
      BY <3>1, <3>2, FromHandToRing
    <3>. QED
      BY <1>2, <3>2, <3>3
  <2>7. ASSUME NEW s \in Slot, ReceiveMsgBuffer(x, s) PROVE RefInv'
    <3>. DEFINE c == x[2]
                m == queue[c][tail[c]]
    <3>1. /\ c \in Core /\ hand[x][s] = None /\ ~QueueEmpty(c)
          /\ hand' = [hand EXCEPT ![x][s] = m] /\ DequeueMsg(c)
          /\ UNCHANGED <<ref, live>>
      BY <2>7, TupleTypes DEF ReceiveMsgBuffer, FreeSlot
    <3>2. m \in Msg
      BY <3>1, TakenIsMsg
    <3>3. \A n \in Msg : Refs(n)' = Refs(n)
      BY <3>1, <3>2, FromRingToHand
    <3>. QED
      BY <1>2, <3>1, <3>3
  <2>. QED
    BY <1>4, <2>1, <2>2, <2>3, <2>4, <2>5, <2>6, <2>7, TupleTypes DEF ContextStep
<1>5. CASE UNCHANGED vars
  BY <1>1, <1>5 DEF vars
<1>. QED
  BY <1>3, <1>4, <1>5 DEF Next

LEMMA Counted ==
  ASSUME RefRoom, BootMasked
  PROVE  Spec => [](ControlInv /\ RefInv)
<1>1. ControlInv /\ RefInv /\ [Next]_vars => RefInv'
  BY StepRefs
<1>. QED
  BY <1>1, InitRefs, Control, PTL DEF Spec

(* The count of a message is the number of references to it.               *)
THEOREM CountsExact ==
  ASSUME RefRoom, BootMasked
  PROVE  Spec => []RefCountExact
<1>1. RefInv => RefCountExact
  BY DEF RefInv, RefCountExact, Refs
<1>. QED
  BY <1>1, Counted, PTL

(* No hand and no ring points to a freed message.                          *)
THEOREM OnlyLiveReferenced ==
  ASSUME RefRoom, BootMasked
  PROVE  Spec => []NoUseAfterFree
<1>1. ASSUME ControlInv, RefInv PROVE NoUseAfterFree
  <2>1. ASSUME NEW x \in Context, NEW s \in Slot, hand[x][s] # None
        PROVE  hand[x][s] \in live
    BY <1>1, <2>1, PointedTo DEF ControlInv
  <2>2. ASSUME NEW c \in Core, NEW i \in Pos, Occupied(c, i)
        PROVE  queue[c][i] \in live
    <3>. DEFINE m == queue[c][i]
    <3>1. m \in Msg
      BY <1>1, <2>2 DEF ControlInv, RingFilled
    <3>2. <<c, i>> \in QueueRefs(m)
      BY <2>2 DEF QueueRefs
    <3>3. Refs(m) # 0
      BY <3>2, RefsPositive
    <3>. QED
      BY <1>1, <3>1, <3>3 DEF RefInv
  <2>. QED
    BY <2>1, <2>2 DEF NoUseAfterFree
<1>. QED
  BY <1>1, Counted, PTL

(* An allocated message is reachable from a hand or a ring.                *)
THEOREM LiveReachable ==
  ASSUME RefRoom, BootMasked
  PROVE  Spec => []NoLeak
<1>1. ASSUME TypeOK, RefInv PROVE NoLeak
  <2>1. ASSUME NEW m \in live PROVE Refs(m) # 0
    BY <1>1, <2>1 DEF TypeOK, RefInv
  <2>. QED
    BY <2>1, RefsPositive DEF NoLeak
<1>2. ControlInv => TypeOK
  BY DEF ControlInv
<1>. QED
  BY <1>1, <1>2, Counted, PTL

-----------------------------------------------------------------------------
(* The wake-ups.  A core with mail is in its handler's loop, has its       *)
(* interrupt latched, or has a sender about to latch it; each step gives   *)
(* one of them up only for another.                                        *)
InLoop(c) == isr[c] \notin {"idle", "exit"}
Raiser(c) == \E x \in Context : pc[x] = "raise" /\ dst[x] = c

(* A core that has mail after a step that is neither a send nor a receive  *)
(* had it before.                                                          *)
LEMMA CoreStepServes ==
  ASSUME TypeOK, NoLostWakeup, NEW c \in Core, CoreStep(c)
  PROVE  NoLostWakeup'
<1>. USE DEF memVars, ringVars, coreVars, irqVars, callVars, bcastVars
<1>1. UNCHANGED <<pc, dst, head>>
  BY DEF CoreStep, Initialize, RegisterMsgReceivedCallback, InitStream, IsrEnter,
     IsrReceive, IsrDispatch, IsrLoop, IsrExit, DequeueMsg
<1>2. ASSUME NEW d \in Core, d # c PROVE isr'[d] = isr[d] /\ pending'[d] = pending[d] /\ tail'[d] = tail[d]
  BY <1>2 DEF CoreStep, Initialize, RegisterMsgReceivedCallback, InitStream, IsrEnter,
     IsrReceive, IsrDispatch, IsrLoop, IsrExit, DequeueMsg, TypeOK
<1>3. \/ QueueEmpty(c) /\ tail' = tail
      \/ InLoop(c)'
      \/ UNCHANGED <<pending, isr, tail>>
      \/ isr[c] = "exit" /\ UNCHANGED <<pending, tail>>
  <2>1. CASE Initialize(c) \/ RegisterMsgReceivedCallback(c) \/ InitStream(c)
    BY <2>1 DEF Initialize, RegisterMsgReceivedCallback, InitStream
  <2>2. CASE IsrEnter(c) \/ IsrDispatch(c) \/ IsrLoop(c)
    BY <2>2 DEF IsrEnter, IsrDispatch, IsrLoop, InLoop, TypeOK
  <2>3. CASE IsrReceive(c)
    BY <2>3 DEF IsrReceive, InLoop, TypeOK
  <2>4. CASE IsrExit(c)
    BY <2>4 DEF IsrExit
  <2>. QED
    BY <2>1, <2>2, <2>3, <2>4 DEF CoreStep
<1>4. ~QueueEmpty(c)' => InLoop(c)' \/ pending'[c] \/ Raiser(c)'
  BY <1>1, <1>3 DEF NoLostWakeup, QueueEmpty, InLoop, Raiser
<1>5. \A d \in Core : d # c => (~QueueEmpty(d)' => InLoop(d)' \/ pending'[d] \/ Raiser(d)')
  BY <1>1, <1>2 DEF NoLostWakeup, QueueEmpty, InLoop, Raiser
<1>. QED
  BY <1>4, <1>5 DEF NoLostWakeup, InLoop, Raiser

LEMMA ContextStepServes ==
  ASSUME Signals \subseteq {TRUE}, TypeOK, NoLostWakeup, NEW x \in Context, ContextStep(x)
  PROVE  NoLostWakeup'
<1>. USE DEF memVars, ringVars, coreVars, irqVars, callVars, bcastVars
<1>1. isr' = isr
  BY DEF ContextStep, BroadcastEvent, CreateMsgBuffer, SetMsgBufferType, RefCheck,
     RefLocked, UnRefCheck, UnRefLocked, SendLocked, SendFails, RaiseInterrupt,
     ReceiveMsgBuffer
<1>2. ASSUME UNCHANGED <<head, pending>>, pc[x] # "raise",
             \A d \in Core : ~QueueEmpty(d)' => ~QueueEmpty(d),
             \A y \in Context : y # x => pc'[y] = pc[y] /\ dst'[y] = dst[y]
      PROVE  NoLostWakeup'
  BY <1>1, <1>2 DEF NoLostWakeup
<1>3. ASSUME NEW s \in Slot, NEW m \in Msg,
             \/ BroadcastEvent(x, m) \/ CreateMsgBuffer(x, s, m)
      PROVE  NoLostWakeup'
  BY <1>2, <1>3 DEF BroadcastEvent, CreateMsgBuffer, MayCall, QueueEmpty
<1>4. ASSUME NEW s \in Slot,
             \/ SetMsgBufferType(x, s) \/ RefCheck(x, s) \/ UnRefCheck(x, s) \/ SendFails(x)
             \/ RefLocked(x, s) \/ UnRefLocked(x)
      PROVE  NoLostWakeup'
  <2>1. UNCHANGED <<head, tail, pending>> /\ pc[x] # "raise"
    BY <1>4 DEF SetMsgBufferType, RefCheck, UnRefCheck, SendFails, RefLocked, UnRefLocked,
       Turn, MayCall
  <2>2. \A y \in Context : y # x => pc'[y] = pc[y] /\ dst'[y] = dst[y]
    BY <1>4 DEF SetMsgBufferType, RefCheck, UnRefCheck, SendFails, RefLocked, UnRefLocked,
       Return, TypeOK
  <2>. QED
    BY <1>2, <2>1, <2>2 DEF QueueEmpty
<1>5. ASSUME NEW s \in Slot, ReceiveMsgBuffer(x, s) PROVE NoLostWakeup'
  <2>1. x[2] \in Core /\ ~QueueEmpty(x[2]) /\ DequeueMsg(x[2])
    BY <1>5, TupleTypes DEF ReceiveMsgBuffer
  <2>2. \A d \in Core : ~QueueEmpty(d)' => ~QueueEmpty(d)
    BY <2>1 DEF QueueEmpty, DequeueMsg, TypeOK
  <2>. QED
    BY <1>2, <1>5, <2>2 DEF ReceiveMsgBuffer, DequeueMsg, MayCall
<1>6. ASSUME NEW s \in Slot, NEW c \in Core, NEW signal \in BOOLEAN,
             SendLocked(x, s, c, signal)
      PROVE  NoLostWakeup'
  <2>1. signal = TRUE
    BY <1>6 DEF SendLocked
  <2>2. /\ pc[x] = "idle" /\ pc' = [pc EXCEPT ![x] = "raise"]
        /\ dst' = [dst EXCEPT ![x] = c] /\ pending' = pending
        /\ tail' = tail /\ head' = [head EXCEPT ![c] = (@ + 1) % QSize]
    BY <1>6, <2>1 DEF SendLocked, Turn, MayCall, QueueMsg
  <2>3. pc'[x] = "raise" /\ dst'[x] = c
    BY <2>2 DEF TypeOK
  <2>4. \A y \in Context : y # x => pc'[y] = pc[y] /\ dst'[y] = dst[y]
    BY <2>2 DEF TypeOK
  <2>5. \A d \in Core : d # c => (~QueueEmpty(d)' => ~QueueEmpty(d))
    BY <2>2 DEF QueueEmpty, TypeOK
  <2>. QED
    BY <1>1, <2>2, <2>3, <2>4, <2>5 DEF NoLostWakeup
<1>7. CASE RaiseInterrupt(x)
  <2>1. /\ pending' = [pending EXCEPT ![dst[x]] = TRUE] /\ dst[x] \in Core
        /\ UNCHANGED <<head, tail>>
    BY <1>7 DEF RaiseInterrupt, TypeOK
  <2>2. \A y \in Context : y # x => pc'[y] = pc[y] /\ dst'[y] = dst[y]
    BY <1>7 DEF RaiseInterrupt, Return, TypeOK
  <2>3. pending'[dst[x]] /\ \A d \in Core : pending[d] => pending'[d]
    BY <2>1 DEF TypeOK
  <2>4. \A d \in Core : ~QueueEmpty(d)' => ~QueueEmpty(d)
    BY <2>1 DEF QueueEmpty
  <2>. QED
    BY <1>1, <2>2, <2>3, <2>4 DEF NoLostWakeup
<1>. QED
  BY <1>3, <1>4, <1>5, <1>6, <1>7, TupleTypes DEF ContextStep

(* If every send signals, a core with mail is in its handler's loop, has   *)
(* its interrupt latched, or has a sender about to latch it.               *)
THEOREM WakeupsKept ==
  ASSUME Signals \subseteq {TRUE}
  PROVE  Spec => []NoLostWakeup
<1>1. Init => NoLostWakeup
  BY DEF Init, NoLostWakeup, QueueEmpty
<1>2. TypeOK /\ NoLostWakeup /\ [Next]_vars => NoLostWakeup'
  <2>. SUFFICES ASSUME TypeOK, NoLostWakeup, [Next]_vars PROVE NoLostWakeup'
    OBVIOUS
  <2>1. CASE Next
    BY <2>1, CoreStepServes, ContextStepServes DEF Next
  <2>2. CASE UNCHANGED vars
    BY <2>2 DEF vars, ringVars, irqVars, callVars, NoLostWakeup, QueueEmpty
  <2>. QED
    BY <2>1, <2>2
<1>. QED
  BY <1>1, <1>2, TypeCorrect, PTL DEF Spec

-----------------------------------------------------------------------------
(* The rings are mailboxes.                                                *)

(* Reading a ring from tail to head.                                       *)
RingIndex(t, i) == (t + i - 1) % QSize

LEMMA RingIndexIs ==
  ASSUME NEW t \in Pos, NEW i \in 1 .. QSize
  PROVE  /\ RingIndex(t, i) \in Pos
         /\ RingIndex(t, i) = IF t + i - 1 < QSize THEN t + i - 1 ELSE t + i - 1 - QSize
BY SizeAssumption, SMT DEF RingIndex, Pos

(* From tail to head, going round.                                         *)
LEMMA Distance ==
  ASSUME NEW t \in Pos, NEW h \in Pos
  PROVE  (h + QSize - t) % QSize = IF t <= h THEN h - t ELSE h + QSize - t
BY SizeAssumption, SMT DEF Pos

LEMMA AppendIs ==
  ASSUME NEW S, NEW s \in Seq(S), NEW t \in Seq(S), NEW e \in S,
         Len(t) = Len(s) + 1, \A i \in 1 .. Len(s) : t[i] = s[i], t[Len(s) + 1] = e
  PROVE  t = Append(s, e)
<1>1. /\ Append(s, e) \in Seq(S) /\ Len(Append(s, e)) = Len(s) + 1
      /\ \A i \in 1 .. Len(s) : Append(s, e)[i] = s[i]
      /\ Append(s, e)[Len(s) + 1] = e
  BY AppendProperties
<1>2. Len(s) \in Nat
  OBVIOUS
<1>3. \A i \in 1 .. Len(t) : i \in 1 .. Len(s) \/ i = Len(s) + 1
  BY <1>2
<1>4. \A i \in 1 .. Len(t) : t[i] = Append(s, e)[i]
  BY <1>1, <1>3
<1>. QED
  BY <1>1, <1>4, SeqEqual

LEMMA TailIs ==
  ASSUME NEW S, NEW s \in Seq(S), NEW t \in Seq(S), s # <<>>,
         Len(t) = Len(s) - 1, \A i \in 1 .. Len(t) : t[i] = s[i + 1]
  PROVE  t = Tail(s)
BY HeadTailProperties, SeqEqual

LEMMA WaitingIs ==
  ASSUME TypeOK, NEW c \in Core
  PROVE  /\ Waiting(c) \in 0 .. QSize - 1
         /\ Waiting(c) = IF tail[c] <= head[c] THEN head[c] - tail[c]
                                               ELSE head[c] + QSize - tail[c]
<1>1. head[c] \in Pos /\ tail[c] \in Pos
  BY DEF TypeOK
<1>. QED
  BY <1>1, SizeAssumption, SMT DEF Waiting, Pos

LEMMA MailIs ==
  ASSUME TypeOK, NEW c \in Core
  PROVE  /\ Mail[c] = [i \in 1 .. Waiting(c) |-> queue[c][RingIndex(tail[c], i)]]
         /\ Waiting(c) \in Nat
         /\ Mail[c] \in Seq(Msg \cup {None})
         /\ Len(Mail[c]) = Waiting(c)
<1>1. Mail[c] = [i \in 1 .. Waiting(c) |-> queue[c][RingIndex(tail[c], i)]]
  BY DEF Mail, RingIndex
<1>2. Waiting(c) \in 0 .. QSize - 1
  BY WaitingIs
<1>3. Waiting(c) \in Nat
  BY <1>2, SizeAssumption
<1>4. \A i \in 1 .. Waiting(c) : queue[c][RingIndex(tail[c], i)] \in Msg \cup {None}
  <2>1. \A i \in 1 .. Waiting(c) : i \in 1 .. QSize
    BY <1>2, SizeAssumption
  <2>2. tail[c] \in Pos
    BY DEF TypeOK
  <2>. QED
    BY <2>1, <2>2, RingIndexIs DEF TypeOK
<1>5. Mail[c] \in Seq(Msg \cup {None}) /\ Len(Mail[c]) = Waiting(c)
  BY <1>1, <1>3, <1>4
<1>. QED
  BY <1>1, <1>3, <1>5

(* A slot that is read is occupied.                                        *)
LEMMA ReadIsOccupied ==
  ASSUME TypeOK, NEW c \in Core, NEW i \in 1 .. Waiting(c)
  PROVE  RingIndex(tail[c], i) \in Pos /\ Occupied(c, RingIndex(tail[c], i))
<1>1. head[c] \in Pos /\ tail[c] \in Pos
  BY DEF TypeOK
<1>2. i \in 1 .. QSize /\ i <= Waiting(c)
  BY WaitingIs, SizeAssumption
<1>3. /\ RingIndex(tail[c], i) \in Pos
      /\ RingIndex(tail[c], i) = IF tail[c] + i - 1 < QSize THEN tail[c] + i - 1
                                                           ELSE tail[c] + i - 1 - QSize
  BY <1>1, <1>2, RingIndexIs
<1>4. Waiting(c) = IF tail[c] <= head[c] THEN head[c] - tail[c]
                                         ELSE head[c] + QSize - tail[c]
  BY WaitingIs
<1>. QED
  BY <1>1, <1>2, <1>3, <1>4, SizeAssumption DEF Occupied, Pos

LEMMA MailPut ==
  ASSUME TypeOK, TypeOK', NEW c \in Core, NEW m \in Msg, ~QueueFull(c), QueueMsg(m, c)
  PROVE  /\ Len(Mail[c]) < QSize - 1
         /\ Mail' = [Mail EXCEPT ![c] = Append(@, m)]
<1>1. /\ head[c] \in Pos /\ tail[c] \in Pos
      /\ tail' = tail /\ head'[c] = (head[c] + 1) % QSize
      /\ \A d \in Core : d # c => head'[d] = head[d] /\ queue'[d] = queue[d]
      /\ \A i \in Pos : queue'[c][i] = IF i = head[c] THEN m ELSE queue[c][i]
  BY DEF TypeOK, QueueMsg
<1>2. /\ Waiting(c) < QSize - 1
      /\ Waiting(c)' = Waiting(c) + 1
      /\ Waiting(c) \in Nat
  <2>1. (head[c] + 1) % QSize = IF head[c] + 1 = QSize THEN 0 ELSE head[c] + 1
    BY <1>1, NextIndex
  <2>2. (head[c] + 1) % QSize # tail[c]
    BY DEF QueueFull
  <2>3. Waiting(c) < QSize - 1 /\ Waiting(c) \in Nat
    BY <1>1, <2>1, <2>2, WaitingIs, SizeAssumption DEF Pos
  <2>4. Waiting(c)' = (head'[c] + QSize - tail[c]) % QSize
    BY <1>1 DEF Waiting
  <2>5. head'[c] \in Pos /\ head'[c] = IF head[c] + 1 = QSize THEN 0 ELSE head[c] + 1
    BY <1>1, <2>1, NextIndex
  <2>6. Waiting(c)' = IF tail[c] <= head'[c] THEN head'[c] - tail[c]
                                             ELSE head'[c] + QSize - tail[c]
    BY <1>1, <2>4, <2>5, Distance
  <2>. QED
    BY <1>1, <2>2, <2>1, <2>3, <2>5, <2>6, WaitingIs, SizeAssumption DEF Pos
<1>3. RingIndex(tail[c], Waiting(c) + 1) = head[c]
  <2>1. Waiting(c) + 1 \in 1 .. QSize
    BY <1>2, SizeAssumption
  <2>2. RingIndex(tail[c], Waiting(c) + 1)
          = IF tail[c] + (Waiting(c) + 1) - 1 < QSize THEN tail[c] + (Waiting(c) + 1) - 1
                                             ELSE tail[c] + (Waiting(c) + 1) - 1 - QSize
    BY <1>1, <2>1, RingIndexIs
  <2>3. Waiting(c) = IF tail[c] <= head[c] THEN head[c] - tail[c]
                                           ELSE head[c] + QSize - tail[c]
    BY WaitingIs
  <2>. QED
    BY <1>1, <1>2, <2>2, <2>3, SizeAssumption DEF Pos
<1>4. ASSUME NEW i \in 1 .. Waiting(c)
      PROVE  /\ RingIndex(tail[c], i) \in Pos
             /\ RingIndex(tail[c], i) # head[c]
  BY RingPut, ReadIsOccupied
<1>5. Mail[c]' = Append(Mail[c], m)
  <2>1. Mail[c]' = [i \in 1 .. Waiting(c) + 1 |-> queue'[c][RingIndex(tail[c], i)]]
    BY <1>1, <1>2 DEF Mail, RingIndex
  <2>2. ASSUME NEW i \in 1 .. Waiting(c) + 1
        PROVE  queue'[c][RingIndex(tail[c], i)]
                 = IF i <= Waiting(c) THEN queue[c][RingIndex(tail[c], i)] ELSE m
    <3>1. CASE i \in 1 .. Waiting(c)
      BY <1>1, <1>2, <1>4, <3>1
    <3>2. CASE i = Waiting(c) + 1
      BY <1>1, <1>2, <1>3, <3>2
    <3>. QED
      BY <1>2, <3>1, <3>2
  <2>3. Mail[c]' = [i \in 1 .. Waiting(c) + 1 |->
                      IF i <= Waiting(c) THEN queue[c][RingIndex(tail[c], i)] ELSE m]
    BY <2>1, <2>2
  <2>4. \A i \in 1 .. Waiting(c) : Mail[c][i] = queue[c][RingIndex(tail[c], i)]
    BY MailIs
  <2>5. Mail[c] \in Seq(Msg \cup {None}) /\ Len(Mail[c]) = Waiting(c)
    BY MailIs
  <2>6. \A i \in 1 .. Waiting(c) + 1 :
           (IF i <= Waiting(c) THEN queue[c][RingIndex(tail[c], i)] ELSE m) \in Msg \cup {None}
    BY <1>2, <1>4 DEF TypeOK
  <2>7. Mail[c]' \in Seq(Msg \cup {None}) /\ Len(Mail[c]') = Waiting(c) + 1
    BY <1>2, <2>3, <2>6
  <2>8. /\ \A i \in 1 .. Waiting(c) : Mail[c]'[i] = Mail[c][i]
        /\ Mail[c]'[Waiting(c) + 1] = m
    BY <1>2, <2>3, <2>4
  <2>. QED
    BY <2>5, <2>7, <2>8, AppendIs
<1>6. ASSUME NEW d \in Core, d # c PROVE Mail'[d] = Mail[d]
  BY <1>1, <1>6 DEF Mail, Waiting
<1>7. Len(Mail[c]) < QSize - 1
  BY <1>2, MailIs
<1>8. Mail \in [Core -> Seq(Msg \cup {None})] /\ DOMAIN Mail' = Core
  <2>1. \A d \in Core : Mail[d] \in Seq(Msg \cup {None})
    BY MailIs
  <2>. QED
    BY <2>1 DEF Mail
<1>9. Mail' = [d \in Core |-> Mail'[d]]
  BY DEF Mail
<1>. QED
  BY <1>5, <1>6, <1>7, <1>8, <1>9

LEMMA MailTake ==
  ASSUME TypeOK, NEW c \in Core, ~QueueEmpty(c), DequeueMsg(c)
  PROVE  /\ Mail[c] # <<>>
         /\ Mail' = [Mail EXCEPT ![c] = Tail(@)]
<1>1. /\ head[c] \in Pos /\ tail[c] \in Pos
      /\ tail'[c] = (tail[c] + 1) % QSize
      /\ head' = head /\ queue' = queue
      /\ \A d \in Core : d # c => tail'[d] = tail[d]
  BY DEF TypeOK, DequeueMsg
<1>2. tail'[c] \in Pos /\ tail'[c] = IF tail[c] + 1 = QSize THEN 0 ELSE tail[c] + 1
  BY <1>1, NextIndex
<1>3. Waiting(c) \in 1 .. QSize - 1
  BY <1>1, WaitingIs, SizeAssumption DEF Pos, QueueEmpty
<1>4. Waiting(c)' = Waiting(c) - 1
  <2>1. Waiting(c)' = (head[c] + QSize - tail'[c]) % QSize
    BY <1>1 DEF Waiting
  <2>2. Waiting(c)' = IF tail'[c] <= head[c] THEN head[c] - tail'[c]
                                             ELSE head[c] + QSize - tail'[c]
    BY <1>1, <1>2, <2>1, Distance
  <2>3. head[c] # tail[c]
    BY DEF QueueEmpty
  <2>. QED
    BY <1>1, <1>2, <2>2, <2>3, WaitingIs, SizeAssumption DEF Pos
<1>5. ASSUME NEW i \in 1 .. Waiting(c) - 1
      PROVE  RingIndex(tail'[c], i) = RingIndex(tail[c], i + 1)
  <2>1. i \in 1 .. QSize /\ i + 1 \in 1 .. QSize
    BY <1>3, SizeAssumption
  <2>2. i <= QSize - 2
    BY <1>3, SizeAssumption
  <2>3. RingIndex(tail'[c], i) = IF tail'[c] + i - 1 < QSize THEN tail'[c] + i - 1
                                                         ELSE tail'[c] + i - 1 - QSize
    BY <1>2, <2>1, RingIndexIs
  <2>4. RingIndex(tail[c], i + 1) = IF tail[c] + (i + 1) - 1 < QSize THEN tail[c] + (i + 1) - 1
                                                         ELSE tail[c] + (i + 1) - 1 - QSize
    BY <1>1, <2>1, RingIndexIs
  <2>. QED
    BY <1>1, <1>2, <2>1, <2>2, <2>3, <2>4, SizeAssumption DEF Pos
<1>6. Mail[c] # <<>>
  <2>1. Len(Mail[c]) = Waiting(c)
    BY MailIs
  <2>2. Waiting(c) # 0
    BY <1>3, SizeAssumption
  <2>3. ASSUME NEW q, q = <<>> PROVE Len(q) = 0
    BY <2>3
  <2>. QED
    BY <2>1, <2>2, <2>3
<1>7. Mail[c]' = Tail(Mail[c])
  <2>1. Mail[c]' = [i \in 1 .. Waiting(c) - 1 |-> queue[c][RingIndex(tail'[c], i)]]
    BY <1>1, <1>4 DEF Mail, RingIndex
  <2>2. Mail[c]' = [i \in 1 .. Waiting(c) - 1 |-> queue[c][RingIndex(tail[c], i + 1)]]
    BY <1>5, <2>1
  <2>3. \A i \in 1 .. Waiting(c) - 1 : Mail[c][i + 1] = queue[c][RingIndex(tail[c], i + 1)]
    <3>1. \A i \in 1 .. Waiting(c) - 1 : i + 1 \in 1 .. Waiting(c)
      BY <1>3, SizeAssumption
    <3>. QED
      BY <3>1, MailIs
  <2>4. /\ Mail[c] \in Seq(Msg \cup {None}) /\ Len(Mail[c]) = Waiting(c)
        /\ Mail[c] # <<>>
    BY <1>6, MailIs
  <2>5. \A i \in 1 .. Waiting(c) - 1 : Mail[c][i + 1] \in Msg \cup {None}
    <3>1. \A i \in 1 .. Waiting(c) - 1 : i + 1 \in 1 .. Waiting(c)
      BY <1>3, SizeAssumption
    <3>. QED
      BY <2>4, <3>1, ElementOfSeq
  <2>6. Mail[c]' = [i \in 1 .. Waiting(c) - 1 |-> Mail[c][i + 1]]
    BY <2>2, <2>3
  <2>7. Mail[c]' \in Seq(Msg \cup {None}) /\ Len(Mail[c]') = Waiting(c) - 1
    BY <1>3, <2>5, <2>6
  <2>. QED
    BY <2>4, <2>6, <2>7, TailIs
<1>8. ASSUME NEW d \in Core, d # c PROVE Mail'[d] = Mail[d]
  BY <1>1, <1>8 DEF Mail, Waiting
<1>9. Mail \in [Core -> Seq(Msg \cup {None})]
  <2>1. \A d \in Core : Mail[d] \in Seq(Msg \cup {None})
    BY MailIs
  <2>. QED
    BY <2>1 DEF Mail
<1>10. Mail' = [d \in Core |-> Mail'[d]]
  BY DEF Mail
<1>. QED
  BY <1>7, <1>8, <1>6, <1>9, <1>10

-----------------------------------------------------------------------------
(* Every step of the message layer is a step of the mailboxes or none.     *)

LEMMA StepMailbox ==
  ASSUME RefRoom, BootMasked, ControlInv, RefInv, NoUseAfterFree',
         TypeOK', [Next]_vars
  PROVE  [Mailbox!Next]_(Mailbox!vars)
<1>. USE DEF memVars, ringVars, coreVars, irqVars, callVars, bcastVars
<1>. TypeOK
  BY DEF ControlInv
<1>1. ASSUME UNCHANGED <<queue, head, tail>> PROVE Mail' = Mail
  BY <1>1 DEF Mail, Waiting
<1>2. ASSUME UNCHANGED <<queue, head, tail, live>> PROVE [Mailbox!Next]_(Mailbox!vars)
  BY <1>1, <1>2 DEF Mailbox!vars
<1>3. ASSUME NEW m \in Msg, m \notin live, live' = live \cup {m},
             UNCHANGED <<queue, head, tail>>
      PROVE  Mailbox!Next
  BY <1>1, <1>3 DEF Mailbox!Next, Mailbox!Create
<1>4. ASSUME NEW c \in Core, ~QueueEmpty(c), DequeueMsg(c), live' = live
      PROVE  Mailbox!Next
  <2>1. Mailbox!Take(c)
    BY <1>4, MailTake DEF Mailbox!Take
  <2>. QED
    BY <2>1 DEF Mailbox!Next
<1>5. ASSUME NEW c \in Core, CoreStep(c) PROVE [Mailbox!Next]_(Mailbox!vars)
  <2>1. CASE IsrReceive(c) /\ ~QueueEmpty(c)
    BY <1>4, <2>1 DEF IsrReceive
  <2>2. CASE \/ Initialize(c) \/ RegisterMsgReceivedCallback(c) \/ InitStream(c)
             \/ IsrEnter(c) \/ IsrLoop(c) \/ IsrExit(c) \/ IsrDispatch(c)
             \/ IsrReceive(c) /\ QueueEmpty(c)
    <3>1. UNCHANGED <<queue, head, tail, live>>
      BY <2>2 DEF Initialize, RegisterMsgReceivedCallback, InitStream, IsrEnter, IsrLoop,
         IsrExit, IsrReceive, IsrDispatch
    <3>. QED
      BY <1>2, <3>1
  <2>. QED
    BY <1>5, <2>1, <2>2 DEF CoreStep
<1>6. ASSUME NEW x \in Context, ContextStep(x) PROVE [Mailbox!Next]_(Mailbox!vars)
  <2>1. ASSUME NEW s \in Slot, NEW m \in Msg, BroadcastEvent(x, m) \/ CreateMsgBuffer(x, s, m)
        PROVE  Mailbox!Next
    BY <1>3, <2>1 DEF BroadcastEvent, CreateMsgBuffer, NewMsg
  <2>2. ASSUME NEW s \in Slot,
               \/ SetMsgBufferType(x, s) \/ RefCheck(x, s) \/ RefLocked(x, s)
               \/ UnRefCheck(x, s) \/ SendFails(x) \/ RaiseInterrupt(x)
        PROVE  [Mailbox!Next]_(Mailbox!vars)
    <3>1. UNCHANGED <<queue, head, tail, live>>
      BY <2>2 DEF SetMsgBufferType, RefCheck, RefLocked, UnRefCheck, SendFails, RaiseInterrupt
    <3>. QED
      BY <1>2, <3>1
  <2>3. CASE UnRefLocked(x)
    <3>1. slot[x] \in Slot /\ hand[x][slot[x]] # None
      BY <2>3 DEF ControlInv, TypeOK, CallHasMsg, UnRefLocked
    <3>2. PICK m \in Msg : m = hand[x][slot[x]]
      BY <3>1 DEF TypeOK
    <3>3. m \in live
      BY <3>1, <3>2, PointedTo
    <3>4. live' = live \/ live' = live \ {m}
      BY <2>3, <3>2 DEF UnRefLocked
    <3>5. UNCHANGED <<queue, head, tail>>
      BY <2>3 DEF UnRefLocked
    <3>6. CASE live' = live \ {m}
      <4>1. ASSUME NEW c \in Core, NEW i \in 1 .. Waiting(c)
            PROVE  Mail[c][i] # m
        <5>1. RingIndex(tail[c], i) \in Pos /\ Occupied(c, RingIndex(tail[c], i))
          BY ReadIsOccupied
        <5>2. Occupied(c, RingIndex(tail[c], i))'
          BY <3>5, <5>1 DEF Occupied, RingIndex
        <5>3. queue[c][RingIndex(tail[c], i)] \in live'
          BY <3>5, <5>1, <5>2 DEF NoUseAfterFree, RingIndex, Occupied
        <5>4. Mail[c][i] = queue[c][RingIndex(tail[c], i)]
          BY MailIs
        <5>. QED
          BY <3>6, <5>3, <5>4
      <4>2. Mailbox!Free(m)
        BY <1>1, <3>3, <3>5, <3>6, <4>1, MailIs DEF Mailbox!Free
      <4>. QED
        BY <4>2 DEF Mailbox!Next
    <3>. QED
      BY <1>2, <3>4, <3>5, <3>6
  <2>4. ASSUME NEW s \in Slot, NEW c \in Core, NEW signal \in BOOLEAN,
               SendLocked(x, s, c, signal)
        PROVE  Mailbox!Next
    <3>1. PICK m \in Msg : m = hand[x][s]
      BY <2>4 DEF SendLocked, TypeOK
    <3>2. m \in live
      BY <2>4, <3>1, PointedTo DEF SendLocked
    <3>3. ~QueueFull(c) /\ QueueMsg(m, c) /\ live' = live
      BY <2>4, <3>1 DEF SendLocked, Accepts
    <3>4. Mailbox!Post(m, c)
      BY <3>2, <3>3, MailPut DEF Mailbox!Post
    <3>. QED
      BY <3>4 DEF Mailbox!Next
  <2>5. ASSUME NEW s \in Slot, ReceiveMsgBuffer(x, s) PROVE Mailbox!Next
    <3>1. x[2] \in Core /\ ~QueueEmpty(x[2]) /\ DequeueMsg(x[2]) /\ live' = live
      BY <2>5, TupleTypes DEF ReceiveMsgBuffer
    <3>. QED
      BY <1>4, <3>1
  <2>. QED
    BY <1>6, <2>1, <2>2, <2>3, <2>4, <2>5, TupleTypes DEF ContextStep
<1>7. CASE UNCHANGED vars
  BY <1>2, <1>7 DEF vars
<1>. QED
  BY <1>5, <1>6, <1>7 DEF Next

(* The rings with their counted messages implement bounded mailboxes that  *)
(* deliver every message once, in order, and never a freed one.            *)
THEOREM IpcImplementsMailbox ==
  ASSUME RefRoom, BootMasked
  PROVE  Spec => ImplementsMailbox
<1>1. Init => Mailbox!Init
  <2>. SUFFICES ASSUME Init PROVE Mailbox!Init
    OBVIOUS
  <2>1. TypeOK
    BY InitControl DEF ControlInv
  <2>2. ASSUME NEW c \in Core PROVE Mail[c] = <<>>
    <3>1. Waiting(c) = 0
      BY <2>1, WaitingIs DEF Init
    <3>. QED
      BY <2>1, <3>1, MailIs, EmptySeq
  <2>. QED
    BY <2>2 DEF Init, Mailbox!Init, Mail
<1>2. /\ ControlInv /\ RefInv /\ NoUseAfterFree' /\ TypeOK' /\ [Next]_vars
      => [Mailbox!Next]_(Mailbox!vars)
  BY StepMailbox
<1>. QED
  BY <1>1, <1>2, Counted, OnlyLiveReferenced, TypeCorrect, PTL
  DEF Spec, ImplementsMailbox, Mailbox!Spec

=============================================================================
