------------------------------- MODULE SaeIpc -------------------------------
(***************************************************************************)
(* The inter-processor message layer of the SHARC Audio Engine: message    *)
(* buffers with reference counts in shared L2 memory, one ring of pointers *)
(* per destination core, the software interrupt that announces a message,  *)
(* the handler that drains the ring, and sae_broadcastEvent on top of it   *)
(* (sae.c, sae_irq.c, sae_util.c, the callbacks of sae_stream.c).          *)
(*                                                                         *)
(* A part of a function between sae_lockIpc and sae_unLockIpc is one step: *)
(* SaeLock shows that the lock excludes every other context, handlers      *)
(* included.  What the code does before taking the lock or after giving it *)
(* up (checks of the reference count, raising the interrupt) is a step of  *)
(* its own.                                                                *)
(*                                                                         *)
(* The code runs in contexts: the tasks of a core and its SAE interrupt    *)
(* handler, which preempts them.  Each context has a few pointer variables *)
(* (its hand); a pointer in a hand or in a ring is a reference its holder  *)
(* owns, as the API documents: create gives the first one, ref one more,   *)
(* a successful send hands one to the receiver, unref gives one up.        *)
(***************************************************************************)
EXTENDS Naturals, FiniteSets

CONSTANTS
  NumCores,     \* IPC_MAX_CORES
  Task,         \* names of the tasks of a core
  Msg,          \* the message buffers the heap has room for
  None,         \* the null pointer
  Hand,         \* how many pointers a context keeps: 1 .. Hand
  QSize,        \* IPC_MAX_MSG_QUEUE_SIZE
  RefMax,       \* largest value of the reference count, 0xFF
  Signals,      \* values of signalDstCore the application passes
  Dests,        \* the cores the application sends to
  TaskCalls,    \* TaskCalls[c]: the API calls that tasks of core c make
  CallbackCalls,\* CallbackCalls[c]: those that its message callback makes
  BootMasked    \* BOOLEAN: does a core keep its SAE interrupt masked from
                \* sae_initialize until it has registered its callbacks?

ApiCalls == {"create", "retype", "ref", "unref", "send", "receive", "broadcast"}

Core == 0 .. NumCores - 1
Master == 0
Isr == "isr"
Context == (Task \cup {Isr}) \X Core
Handler(c) == <<Isr, c>>
Slot == 1 .. Hand
Pos == 0 .. QSize - 1

ASSUME SizeAssumption == /\ NumCores \in Nat \ {0}
                         /\ Hand \in Nat \ {0, 1}
                         /\ QSize \in Nat \ {0, 1}
                         /\ RefMax \in Nat \ {0, 1}
ASSUME NameAssumption == Isr \notin Task /\ None \notin Msg
ASSUME SwitchAssumption == /\ Signals \subseteq BOOLEAN
                           /\ Dests \subseteq Core
                           /\ TaskCalls \in [Core -> SUBSET ApiCalls]
                           /\ CallbackCalls \in [Core -> SUBSET ApiCalls]
                           /\ BootMasked \in BOOLEAN

VARIABLES
  \* shared L2 memory
  ref, type, live,          \* per message: count, msgType; which are allocated
  queue, head, tail,        \* per core: its ring
  trigger,                  \* idx2trigger[c] # 0: core c has initialised
  \* per core
  userCB, streamCB,         \* msgRxUsrCB / msgRxStreamCB are set
  pending,                  \* its SAE interrupt is latched
  isr,                      \* where its SAE interrupt handler is
  \* per context
  hand,                     \* its pointers
  pc, slot, dst,            \* the API call it is in, and the arguments
  bstep, bidx               \* where it is in sae_broadcastEvent

memVars   == <<ref, type, live>>
ringVars  == <<queue, head, tail>>
coreVars  == <<trigger, userCB, streamCB>>
irqVars   == <<pending, isr>>
callVars  == <<pc, slot, dst>>
bcastVars == <<bstep, bidx>>
vars == <<memVars, ringVars, coreVars, irqVars, hand, callVars, bcastVars>>

Init == /\ ref = [m \in Msg |-> 0]
        /\ type = [m \in Msg |-> "USER"]
        /\ live = {}
        /\ queue = [c \in Core |-> [i \in Pos |-> None]]
        /\ head = [c \in Core |-> 0]
        /\ tail = [c \in Core |-> 0]
        /\ trigger = [c \in Core |-> FALSE]
        /\ userCB = [c \in Core |-> FALSE]
        /\ streamCB = [c \in Core |-> FALSE]
        /\ pending = [c \in Core |-> FALSE]
        /\ isr = [c \in Core |-> "idle"]
        /\ hand = [x \in Context |-> [s \in Slot |-> None]]
        /\ pc = [x \in Context |-> "idle"]
        /\ slot = [x \in Context |-> 1]
        /\ dst = [x \in Context |-> 0]
        /\ bstep = [x \in Context |-> "none"]
        /\ bidx = [x \in Context |-> 0]

(* A task runs only while the handler of its core does not.                *)
Running(x) == x[1] # Isr => isr[x[2]] = "idle"

(* A context may start an API call when it is a task of an initialised     *)
(* core, or the application's message callback inside the handler.         *)
MayCall(x, call) ==
  /\ pc[x] = "idle"
  /\ bstep[x] = "none"
  /\ IF x[1] = Isr
     THEN isr[x[2]] = "callback" /\ call \in CallbackCalls[x[2]]
     ELSE isr[x[2]] = "idle" /\ call \in TaskCalls[x[2]] /\ trigger[x[2]]

(* Return from an API call; its arguments are gone.                        *)
Return(x) == /\ pc' = [pc EXCEPT ![x] = "idle"]
             /\ slot' = [slot EXCEPT ![x] = 1]
             /\ dst' = [dst EXCEPT ![x] = 0]

(* The pointer variable that receives a new reference.                     *)
FreeSlot(x, s) == /\ hand[x][s] = None
                  /\ \A t \in Slot : t < s => hand[x][t] # None

-----------------------------------------------------------------------------
(* Coming up: sae_initialize, the master first, then the callbacks.        *)

(* The handler is installed before idx2trigger is set and nobody sends to  *)
(* a core whose entry is zero, so nothing can happen in between; the lock  *)
(* and the heap are SaeLock's and the allocator's.                         *)
Initialize(c) ==
  /\ ~trigger[c]
  /\ c = Master \/ trigger[Master]
  /\ trigger' = [trigger EXCEPT ![c] = TRUE]
  /\ userCB' = [userCB EXCEPT ![c] = FALSE]
  /\ streamCB' = [streamCB EXCEPT ![c] = FALSE]
  /\ UNCHANGED <<memVars, ringVars, irqVars, hand, callVars, bcastVars>>

(* sae_registerMsgReceivedCallback.                                        *)
RegisterMsgReceivedCallback(c) ==
  /\ trigger[c] /\ isr[c] = "idle" /\ ~userCB[c]
  /\ userCB' = [userCB EXCEPT ![c] = TRUE]
  /\ UNCHANGED <<memVars, ringVars, trigger, streamCB, irqVars, hand, callVars, bcastVars>>

(* sae_initStream.                                                         *)
InitStream(c) ==
  /\ trigger[c] /\ isr[c] = "idle" /\ ~streamCB[c]
  /\ streamCB' = [streamCB EXCEPT ![c] = TRUE]
  /\ UNCHANGED <<memVars, ringVars, trigger, userCB, irqVars, hand, callVars, bcastVars>>

-----------------------------------------------------------------------------
(* The ring.  QSize is a power of two, so masking with QSize - 1 is the    *)
(* remainder.                                                              *)

(* Mutant: the index is not masked before it is compared.                  *)
QueueFullUnmasked(c) == head[c] + 1 = tail[c]

QueueFull(c)  == (head[c] + 1) % QSize = tail[c]
QueueEmpty(c) == head[c] = tail[c]

(* sae_queueMsgBuffer accepts a message for core c.                        *)
Accepts(c) == trigger[c] /\ ~QueueFull(c)

(* Mutant: head moves before the message is stored.                        *)
QueueMsgLate(m, c) == /\ queue' = [queue EXCEPT ![c][(head[c] + 1) % QSize] = m]
                      /\ head' = [head EXCEPT ![c] = (@ + 1) % QSize]
                      /\ UNCHANGED tail

QueueMsg(m, c) == /\ queue' = [queue EXCEPT ![c][head[c]] = m]
                  /\ head' = [head EXCEPT ![c] = (@ + 1) % QSize]
                  /\ UNCHANGED tail

(* Mutant: the index is not masked.                                        *)
DequeueMsgUnmasked(c) == /\ tail' = [tail EXCEPT ![c] = @ + 1]
                         /\ UNCHANGED <<queue, head>>

(* The pointer stays in the array; only tail moves.                        *)
DequeueMsg(c) == /\ tail' = [tail EXCEPT ![c] = (@ + 1) % QSize]
                 /\ UNCHANGED <<queue, head>>

(* Slots of the ring between tail and head.                                *)
Occupied(c, i) == IF tail[c] <= head[c]
                  THEN tail[c] <= i /\ i < head[c]
                  ELSE tail[c] <= i \/ i < head[c]

-----------------------------------------------------------------------------
(* sae_broadcastEvent: create, then for every core ref / send / unref if   *)
(* the send failed, then unref.  Slot 1 holds the broadcaster's own        *)
(* reference, slot 2 the one it takes for the core it is about to send to. *)

NextCore(x) == IF bidx[x] = NumCores - 1
               THEN /\ bstep' = [bstep EXCEPT ![x] = "done"]
                    /\ UNCHANGED bidx
               ELSE /\ bstep' = [bstep EXCEPT ![x] = "ref"]
                    /\ bidx' = [bidx EXCEPT ![x] = @ + 1]

(* Allocate m with a count of 1 for slot s of context x.                   *)
NewMsg(x, s, m, t) ==
  /\ m \notin live
  /\ FreeSlot(x, s)
  /\ live' = live \cup {m}
  /\ ref' = [ref EXCEPT ![m] = 1]
  /\ type' = [type EXCEPT ![m] = t]
  /\ hand' = [hand EXCEPT ![x][s] = m]

BroadcastEvent(x, m) ==
  /\ MayCall(x, "broadcast")
  /\ hand[x][2] = None
  /\ NewMsg(x, 1, m, "STREAM")
  /\ bstep' = [bstep EXCEPT ![x] = "ref"]
  /\ bidx' = [bidx EXCEPT ![x] = 0]
  /\ UNCHANGED <<ringVars, coreVars, irqVars, callVars>>

-----------------------------------------------------------------------------
(* The API calls.  Where a call fails with nothing changed (no memory, no  *)
(* reference left, queue full, core not ready) the application keeps what  *)
(* it had, and there is no step.                                           *)

(* sae_createMsgBuffer.                                                    *)
CreateMsgBuffer(x, s, m) ==
  /\ MayCall(x, "create")
  /\ NewMsg(x, s, m, "USER")
  /\ UNCHANGED <<ringVars, coreVars, irqVars, callVars, bcastVars>>

(* sae_setMsgBufferType with a type the handler does not know.             *)
SetMsgBufferType(x, s) ==
  /\ MayCall(x, "retype")
  /\ hand[x][s] # None
  /\ type' = [type EXCEPT ![hand[x][s]] = "OTHER"]
  /\ UNCHANGED <<ref, live, ringVars, coreVars, irqVars, hand, callVars, bcastVars>>

(* The caller's turn for a call on slot s: its own decision, or the step   *)
(* of sae_broadcastEvent that makes this call.                             *)
Turn(x, s, call, step, bslot) ==
  \/ MayCall(x, call)
  \/ /\ pc[x] = "idle"
     /\ Running(x)
     /\ bstep[x] = step
     /\ s = bslot

(* sae_refMsgBuffer, before the lock: is there room in the count?          *)
RefCheck(x, s) ==
  /\ Turn(x, s, "ref", "ref", 1)
  /\ hand[x][s] # None
  /\ \E t \in Slot : hand[x][t] = None
  /\ ref[hand[x][s]] # RefMax
  /\ pc' = [pc EXCEPT ![x] = "ref"]
  /\ slot' = [slot EXCEPT ![x] = s]
  /\ UNCHANGED <<memVars, ringVars, coreVars, irqVars, hand, dst, bcastVars>>

(* sae_refMsgBuffer, under the lock: an 8-bit increment.                   *)
RefLocked(x, t) ==
  LET m == hand[x][slot[x]] IN
  /\ pc[x] = "ref"
  /\ Running(x)
  /\ FreeSlot(x, t)
  /\ ref' = [ref EXCEPT ![m] = (@ + 1) % (RefMax + 1)]
  /\ hand' = [hand EXCEPT ![x][t] = m]
  /\ Return(x)
  /\ bstep' = [bstep EXCEPT ![x] = IF @ = "ref" THEN "send" ELSE @]
  /\ UNCHANGED <<type, live, ringVars, coreVars, irqVars, bidx>>

(* sae_unRefMsgBuffer, before the lock: is there anything to give up?      *)
(* In the handler also the call for a message whose type it does not know  *)
(* and the one streamMsgRx makes after the event callback.                 *)
UnRefCheck(x, s) ==
  /\ \/ Turn(x, s, "unref", "undo", 2)
     \/ Turn(x, s, "unref", "done", 1)
     \/ x[1] = Isr /\ pc[x] = "idle" /\ isr[x[2]] = "unref"
  /\ hand[x][s] # None
  /\ ref[hand[x][s]] # 0
  /\ pc' = [pc EXCEPT ![x] = "unref"]
  /\ slot' = [slot EXCEPT ![x] = s]
  /\ UNCHANGED <<memVars, ringVars, coreVars, irqVars, hand, dst, bcastVars>>

(* Where a call to unref leaves the broadcast it belongs to.               *)
AfterUnRef(x) ==
  \/ bstep[x] = "undo" /\ NextCore(x)
  \/ bstep[x] = "done" /\ bstep' = [bstep EXCEPT ![x] = "none"] /\ UNCHANGED bidx
  \/ bstep[x] \notin {"undo", "done"} /\ UNCHANGED bcastVars

(* Mutants: the buffer is freed one reference early; it is never freed.    *)
UnRefFreesAt(x, freeing) ==
  LET m == hand[x][slot[x]]
      r == (ref[m] + RefMax) % (RefMax + 1) IN
  /\ pc[x] = "unref"
  /\ Running(x)
  /\ ref' = [ref EXCEPT ![m] = r]
  /\ live' = IF r \in freeing THEN live \ {m} ELSE live
  /\ hand' = [hand EXCEPT ![x][slot[x]] = None]
  /\ Return(x)
  /\ AfterUnRef(x)
  /\ UNCHANGED <<type, ringVars, coreVars, irqVars>>

UnRefFreesEarly(x) == UnRefFreesAt(x, {0, 1})
UnRefNeverFrees(x) == UnRefFreesAt(x, {})

(* sae_unRefMsgBuffer, under the lock: decrement, free at zero.            *)
UnRefLocked(x) ==
  LET m == hand[x][slot[x]]
      r == (ref[m] + RefMax) % (RefMax + 1) IN
  /\ pc[x] = "unref"
  /\ Running(x)
  /\ ref' = [ref EXCEPT ![m] = r]
  /\ live' = IF r = 0 THEN live \ {m} ELSE live
  /\ hand' = [hand EXCEPT ![x][slot[x]] = None]
  /\ Return(x)
  /\ AfterUnRef(x)
  /\ UNCHANGED <<type, ringVars, coreVars, irqVars>>

(* sae_sendMsgBuffer, under the lock: the ring takes over the reference.   *)
SendLocked(x, s, c, signal) ==
  /\ Turn(x, s, "send", "send", 2)
  /\ IF bstep[x] = "send" THEN c = bidx[x] /\ signal
                          ELSE c \in Dests /\ signal \in Signals
  /\ hand[x][s] # None
  /\ Accepts(c)
  /\ QueueMsg(hand[x][s], c)
  /\ hand' = [hand EXCEPT ![x][s] = None]
  /\ IF signal
     THEN /\ pc' = [pc EXCEPT ![x] = "raise"]
          /\ dst' = [dst EXCEPT ![x] = c]
     ELSE UNCHANGED <<pc, dst>>
  /\ UNCHANGED <<memVars, coreVars, irqVars, slot, bcastVars>>

(* In a broadcast a send that fails makes the broadcaster give its         *)
(* reference back.                                                         *)
SendFails(x) ==
  /\ pc[x] = "idle"
  /\ Running(x)
  /\ bstep[x] = "send"
  /\ ~Accepts(bidx[x])
  /\ bstep' = [bstep EXCEPT ![x] = "undo"]
  /\ UNCHANGED <<memVars, ringVars, coreVars, irqVars, hand, callVars, bidx>>

(* Mutant: the sender's own interrupt is raised.                           *)
RaiseOwnInterrupt(x) ==
  /\ pc[x] = "raise"
  /\ Running(x)
  /\ trigger[x[2]]
  /\ pending' = [pending EXCEPT ![x[2]] = TRUE]
  /\ Return(x)
  /\ IF bstep[x] = "send" THEN NextCore(x) ELSE UNCHANGED bcastVars
  /\ UNCHANGED <<memVars, ringVars, coreVars, isr, hand>>

(* sae_raiseInterrupt, after the lock: the TRU latches the edge.           *)
RaiseInterrupt(x) ==
  /\ pc[x] = "raise"
  /\ Running(x)
  /\ trigger[dst[x]]
  /\ pending' = [pending EXCEPT ![dst[x]] = TRUE]
  /\ Return(x)
  /\ IF bstep[x] = "send" THEN NextCore(x) ELSE UNCHANGED bcastVars
  /\ UNCHANGED <<memVars, ringVars, coreVars, isr, hand>>

(* sae_receiveMsgBuffer called by the application: a task that polls, or a *)
(* callback that drains the ring itself.                                   *)
ReceiveMsgBuffer(x, s) ==
  /\ MayCall(x, "receive")
  /\ FreeSlot(x, s)
  /\ ~QueueEmpty(x[2])
  /\ hand' = [hand EXCEPT ![x][s] = queue[x[2]][tail[x[2]]]]
  /\ DequeueMsg(x[2])
  /\ UNCHANGED <<memVars, coreVars, irqVars, callVars, bcastVars>>

-----------------------------------------------------------------------------
(* sae_interruptHandler.                                                   *)

(* The interrupt controller dispatches a latched edge.                     *)
IsrEnter(c) ==
  /\ pending[c]
  /\ isr[c] = "idle"
  /\ BootMasked => userCB[c] /\ streamCB[c]
  /\ pending' = [pending EXCEPT ![c] = FALSE]
  /\ isr' = [isr EXCEPT ![c] = "receive"]
  /\ UNCHANGED <<memVars, ringVars, coreVars, hand, callVars, bcastVars>>

IsrReceive(c) ==
  /\ isr[c] = "receive"
  /\ IF QueueEmpty(c)
     THEN /\ isr' = [isr EXCEPT ![c] = "exit"]
          /\ UNCHANGED <<ringVars, hand>>
     ELSE /\ isr' = [isr EXCEPT ![c] = "dispatch"]
          /\ hand' = [hand EXCEPT ![Handler(c)][1] = queue[c][tail[c]]]
          /\ DequeueMsg(c)
  /\ UNCHANGED <<memVars, coreVars, pending, callVars, bcastVars>>

(* Mutant: streamMsgRx does not give its reference up.                     *)
IsrDispatchKeeps(c) ==
  LET user == type[hand[Handler(c)][1]] = "USER" IN
  /\ isr[c] = "dispatch"
  /\ isr' = [isr EXCEPT ![c] = IF user THEN "callback" ELSE "receive"]
  /\ hand' = IF user THEN hand ELSE [hand EXCEPT ![Handler(c)][1] = None]
  /\ UNCHANGED <<memVars, ringVars, coreVars, pending, callVars, bcastVars>>

(* A message whose callback is missing is dropped, its reference with it.  *)
IsrDispatch(c) ==
  LET t == type[hand[Handler(c)][1]]
      handled == (t = "USER" => userCB[c]) /\ (t = "STREAM" => streamCB[c]) IN
  /\ isr[c] = "dispatch"
  /\ IF handled
     THEN /\ isr' = [isr EXCEPT ![c] = IF t = "USER" THEN "callback" ELSE "unref"]
          /\ UNCHANGED hand
     ELSE /\ isr' = [isr EXCEPT ![c] = "receive"]
          /\ hand' = [hand EXCEPT ![Handler(c)][1] = None]
  /\ UNCHANGED <<memVars, ringVars, coreVars, pending, callVars, bcastVars>>

(* Back to the top of the loop when the callback has disposed of what it   *)
(* was given.                                                              *)
IsrLoop(c) ==
  /\ isr[c] \in {"callback", "unref"}
  /\ pc[Handler(c)] = "idle" /\ bstep[Handler(c)] = "none"
  /\ \A s \in Slot : hand[Handler(c)][s] = None
  /\ isr' = [isr EXCEPT ![c] = "receive"]
  /\ UNCHANGED <<memVars, ringVars, coreVars, pending, hand, callVars, bcastVars>>

(* Mutant: the interrupt is acknowledged on the way out.                   *)
IsrExitAcknowledges(c) ==
  /\ isr[c] = "exit"
  /\ isr' = [isr EXCEPT ![c] = "idle"]
  /\ pending' = [pending EXCEPT ![c] = FALSE]
  /\ UNCHANGED <<memVars, ringVars, coreVars, hand, callVars, bcastVars>>

IsrExit(c) ==
  /\ isr[c] = "exit"
  /\ isr' = [isr EXCEPT ![c] = "idle"]
  /\ UNCHANGED <<memVars, ringVars, coreVars, pending, hand, callVars, bcastVars>>

-----------------------------------------------------------------------------
CoreStep(c) == \/ Initialize(c) \/ RegisterMsgReceivedCallback(c) \/ InitStream(c)
               \/ IsrEnter(c) \/ IsrReceive(c) \/ IsrDispatch(c)
               \/ IsrLoop(c) \/ IsrExit(c)

ContextStep(x) ==
  \/ UnRefLocked(x) \/ SendFails(x) \/ RaiseInterrupt(x)
  \/ \E m \in Msg : BroadcastEvent(x, m)
  \/ \E s \in Slot : \/ \E m \in Msg : CreateMsgBuffer(x, s, m)
                     \/ SetMsgBufferType(x, s)
                     \/ RefCheck(x, s) \/ RefLocked(x, s)
                     \/ UnRefCheck(x, s)
                     \/ \E c \in Core, signal \in BOOLEAN : SendLocked(x, s, c, signal)
                     \/ ReceiveMsgBuffer(x, s)

Next == \/ \E c \in Core : CoreStep(c)
        \/ \E x \in Context : ContextStep(x)

Spec == Init /\ [][Next]_vars

(* A context in the middle of an API call, of a broadcast or of a message  *)
(* callback goes on; what the application starts next is its own choice.   *)
Busy(x) == pc[x] # "idle" \/ bstep[x] # "none" \/ x[1] = Isr

(* The handler of a core runs whenever it may and returns; an application  *)
(* registers its callbacks.  A task is preempted by the handler, possibly  *)
(* every time it could run: it is only promised to get on if it gets the   *)
(* core again and again.                                                   *)
Fairness ==
  /\ \A c \in Core :
       /\ WF_vars(IsrEnter(c) \/ IsrReceive(c) \/ IsrDispatch(c) \/ IsrLoop(c) \/ IsrExit(c))
       /\ WF_vars(RegisterMsgReceivedCallback(c))
       /\ WF_vars(InitStream(c))
  /\ \A x \in Context : SF_vars(Busy(x) /\ ContextStep(x))

FairSpec == Spec /\ Fairness

-----------------------------------------------------------------------------
TypeOK ==
  /\ ref \in [Msg -> 0 .. RefMax]
  /\ type \in [Msg -> {"USER", "STREAM", "OTHER"}]
  /\ live \subseteq Msg
  /\ queue \in [Core -> [Pos -> Msg \cup {None}]]
  /\ head \in [Core -> Pos] /\ tail \in [Core -> Pos]
  /\ trigger \in [Core -> BOOLEAN]
  /\ userCB \in [Core -> BOOLEAN] /\ streamCB \in [Core -> BOOLEAN]
  /\ pending \in [Core -> BOOLEAN]
  /\ isr \in [Core -> {"idle", "receive", "dispatch", "callback", "unref", "exit"}]
  /\ hand \in [Context -> [Slot -> Msg \cup {None}]]
  /\ pc \in [Context -> {"idle", "ref", "unref", "raise"}]
  /\ slot \in [Context -> Slot] /\ dst \in [Context -> Core]
  /\ bstep \in [Context -> {"none", "ref", "send", "undo", "done"}]
  /\ bidx \in [Context -> Core]

(* The references to a message: pointers in hands and in occupied slots of *)
(* rings.                                                                  *)
HandRefs(m)  == {p \in Context \X Slot : hand[p[1]][p[2]] = m}
QueueRefs(m) == {p \in Core \X Pos : Occupied(p[1], p[2]) /\ queue[p[1]][p[2]] = m}

(* The count of a message is the number of references to it, through every *)
(* interleaving of the unlocked checks with other cores' calls; a free     *)
(* buffer has none left.                                                   *)
RefCountExact ==
  \A m \in Msg : Cardinality(HandRefs(m)) + Cardinality(QueueRefs(m))
                   = IF m \in live THEN ref[m] ELSE 0

(* Whatever a context or a ring points to is allocated: nobody touches a   *)
(* freed message.                                                          *)
NoUseAfterFree ==
  /\ \A x \in Context, s \in Slot : hand[x][s] # None => hand[x][s] \in live
  /\ \A c \in Core, i \in Pos : Occupied(c, i) => queue[c][i] \in live

(* A message that is still allocated can still be reached by somebody, who *)
(* will give it up: none is leaked.                                        *)
NoLeak == \A m \in live : HandRefs(m) # {} \/ QueueRefs(m) # {}

(* If every send signals, a core with messages waiting has its handler in  *)
(* the loop or its interrupt latched, or a sender is about to latch it.    *)
NoLostWakeup ==
  \A c \in Core : ~QueueEmpty(c) =>
    \/ isr[c] \notin {"idle", "exit"}
    \/ pending[c]
    \/ \E x \in Context : pc[x] = "raise" /\ dst[x] = c

(* The mailboxes: the ring from tail to head.                              *)
Waiting(c) == (head[c] + QSize - tail[c]) % QSize
Mail == [c \in Core |-> [i \in 1 .. Waiting(c) |->
                           queue[c][(tail[c] + i - 1) % QSize]]]

Mailbox == INSTANCE SaeMailbox WITH mail <- Mail, live <- live, Capacity <- QSize - 1

ImplementsMailbox == Mailbox!Spec

(* No core is kept in its handler for ever by others that never stop       *)
(* sending to it.                                                          *)
NoFlood == \A c \in Core : []<>(isr[c] = "idle")

(* Every message that is queued is taken out by its destination.           *)
Delivered ==
  NoFlood => \A c \in Core, i \in Pos : Occupied(c, i) ~> ~Occupied(c, i)

(* A message that no task holds on to is freed (or reaches a task again):  *)
(* once it is in the hands of the queues and the handlers, nothing is left *)
(* behind.                                                                 *)
TaskHolds(m) == \E x \in Task \X Core, s \in Slot : hand[x][s] = m

EventuallyFreed ==
  NoFlood => \A m \in Msg : (m \in live /\ ~TaskHolds(m)) ~> (m \notin live \/ TaskHolds(m))

(* The count of a message in use does not wrap back to zero (the comment   *)
(* of sae_refMsgBuffer).                                                   *)
NeverWrapsToZero == \A m \in live : ref[m] # 0

=============================================================================
