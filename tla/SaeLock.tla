------------------------------ MODULE SaeLock -------------------------------
(***************************************************************************)
(* The lock over the shared IPC area of the SHARC Audio Engine:            *)
(* sae_lock.c (the spinlock, in its ARM build and in its SHARC build) and  *)
(* sae_lockIpc / sae_unLockIpc of sae_util.c (masking of the local         *)
(* interrupts around it).                                                  *)
(*                                                                         *)
(* A core runs code at several levels: level 0 is the main loop (or, under *)
(* FreeRTOS, whichever task runs: a task switch needs an interrupt, hence  *)
(* never happens between the masking and the unmasking), level k > 0 an    *)
(* interrupt handler of priority k.  A context is a pair <<core, level>>.  *)
(* Any context may call sae_lockIpc: the API is documented as IRQ safe.    *)
(***************************************************************************)
EXTENDS Naturals

CONSTANTS Core,        \* the participating cores
          Sharc,       \* those of them built with the SHARC sae_lock
          TopLevel     \* highest interrupt level that uses the API

ASSUME SharcAssumption == Sharc \subseteq Core
ASSUME LevelAssumption == TopLevel \in Nat

VARIABLES
  lock,      \* saeSharcArmIPC->lock
  monitor,   \* monitor[c]: core c's exclusive access to the lock word is intact
  masked,    \* masked[c]: interrupts of core c are disabled
  active,    \* contexts that have started and not finished
  pc         \* where each context is in sae_lockIpc / sae_unLockIpc

vars == <<lock, monitor, masked, active, pc>>

UNLOCKED == 0
LOCKED   == 1

Level   == 0 .. TopLevel
Context == Core \X Level

(* A context runs when no context of a higher level is active on its core. *)
Running(x) == /\ x \in active
              /\ \A k \in Level : k > x[2] => <<x[1], k>> \notin active

(* Another core's store to the word ends every core's exclusive access.    *)
NoMonitor == [c \in Core |-> FALSE]

Init == /\ lock = UNLOCKED
        /\ monitor = NoMonitor
        /\ masked = [c \in Core |-> FALSE]
        /\ active = Core \X {0}
        /\ pc = [x \in Context |-> "out"]

-----------------------------------------------------------------------------
(* Interrupts: taken when enabled, nested by priority, returning once the  *)
(* handler is out of the lock.                                             *)

IrqEnter(x) == /\ x[2] > 0
               /\ ~masked[x[1]]
               /\ \A k \in Level : k >= x[2] => <<x[1], k>> \notin active
               /\ active' = active \cup {x}
               /\ UNCHANGED <<lock, monitor, masked, pc>>

IrqReturn(x) == /\ x[2] > 0
                /\ Running(x)
                /\ pc[x] = "out"
                /\ active' = active \ {x}
                /\ UNCHANGED <<lock, monitor, masked, pc>>

-----------------------------------------------------------------------------
(* sae_lockIpc: SAE_ENTER_CRITICAL, then spin on sae_lock.                 *)

(* Mutant: the critical section does not mask the interrupts.              *)
EnterCriticalUnmasked(x) == /\ Running(x)
                            /\ pc[x] = "out"
                            /\ pc' = [pc EXCEPT ![x] = "spin"]
                            /\ UNCHANGED <<lock, monitor, masked, active>>

EnterCritical(x) == /\ Running(x)
                    /\ pc[x] = "out"
                    /\ masked' = [masked EXCEPT ![x[1]] = TRUE]
                    /\ pc' = [pc EXCEPT ![x] = "spin"]
                    /\ UNCHANGED <<lock, monitor, active>>

(* Mutant: the lock counts instead of comparing.                           *)
CountingExchange(x) == /\ x[1] \notin Sharc
                       /\ Running(x)
                       /\ pc[x] = "spin"
                       /\ lock' = lock + 1
                       /\ monitor' = NoMonitor
                       /\ pc' = [pc EXCEPT ![x] = "held"]
                       /\ UNCHANGED <<masked, active>>

(* ARM sae_lock: one compare-and-exchange; a failed one changes nothing.   *)
CompareExchange(x) == /\ x[1] \notin Sharc
                      /\ Running(x)
                      /\ pc[x] = "spin"
                      /\ lock = UNLOCKED
                      /\ lock' = LOCKED
                      /\ monitor' = NoMonitor
                      /\ pc' = [pc EXCEPT ![x] = "held"]
                      /\ UNCHANGED <<masked, active>>

(* SHARC sae_lock, first half: read the word with exclusive access and go  *)
(* on to the store only if it reads UNLOCKED.                              *)
LoadExclusive(x) == /\ x[1] \in Sharc
                    /\ Running(x)
                    /\ pc[x] = "spin"
                    /\ monitor' = [monitor EXCEPT ![x[1]] = TRUE]
                    /\ pc' = [pc EXCEPT ![x] = IF lock = UNLOCKED
                                               THEN "store" ELSE "spin"]
                    /\ UNCHANGED <<lock, masked, active>>

(* Mutant: a plain store after the load.                                   *)
PlainStore(x) == /\ Running(x)
                 /\ pc[x] = "store"
                 /\ lock' = LOCKED
                 /\ monitor' = NoMonitor
                 /\ pc' = [pc EXCEPT ![x] = "held"]
                 /\ UNCHANGED <<masked, active>>

(* Second half, the store going through: exclusive access still intact.    *)
StoreExclusive(x) == /\ Running(x)
                     /\ pc[x] = "store"
                     /\ monitor[x[1]]
                     /\ lock' = LOCKED
                     /\ monitor' = NoMonitor
                     /\ pc' = [pc EXCEPT ![x] = "held"]
                     /\ UNCHANGED <<masked, active>>

(* Second half, the store refused (exclusive access lost, or the hardware  *)
(* giving up for a reason of its own): sae_lock returns false, try again.  *)
StoreRefused(x) == /\ Running(x)
                   /\ pc[x] = "store"
                   /\ monitor' = [monitor EXCEPT ![x[1]] = FALSE]
                   /\ pc' = [pc EXCEPT ![x] = "spin"]
                   /\ UNCHANGED <<lock, masked, active>>

-----------------------------------------------------------------------------
(* sae_unLockIpc: sae_unlock, its result ignored, then SAE_EXIT_CRITICAL.  *)

(* ARM sae_unlock.                                                         *)
Store(x) == /\ x[1] \notin Sharc
            /\ Running(x)
            /\ pc[x] = "held"
            /\ lock' = UNLOCKED
            /\ monitor' = NoMonitor
            /\ pc' = [pc EXCEPT ![x] = "exit"]
            /\ UNCHANGED <<masked, active>>

(* Mutant: the load whose value nobody uses has been optimised away.       *)
NoUnlockLoad(x) == /\ x[1] \in Sharc
                   /\ Running(x)
                   /\ pc[x] = "held"
                   /\ pc' = [pc EXCEPT ![x] = "release"]
                   /\ UNCHANGED <<lock, monitor, masked, active>>

(* SHARC sae_unlock: the load only opens the exclusive access ...          *)
UnlockLoad(x) == /\ x[1] \in Sharc
                 /\ Running(x)
                 /\ pc[x] = "held"
                 /\ monitor' = [monitor EXCEPT ![x[1]] = TRUE]
                 /\ pc' = [pc EXCEPT ![x] = "release"]
                 /\ UNCHANGED <<lock, masked, active>>

(* ... that the store needs; nobody looks whether the store went through.  *)
UnlockStore(x) ==
  /\ Running(x)
  /\ pc[x] = "release"
  /\ IF monitor[x[1]]
     THEN lock' = UNLOCKED /\ monitor' = NoMonitor
     ELSE UNCHANGED <<lock, monitor>>
  /\ pc' = [pc EXCEPT ![x] = "exit"]
  /\ UNCHANGED <<masked, active>>

ExitCritical(x) == /\ Running(x)
                   /\ pc[x] = "exit"
                   /\ masked' = [masked EXCEPT ![x[1]] = FALSE]
                   /\ pc' = [pc EXCEPT ![x] = "out"]
                   /\ UNCHANGED <<lock, monitor, active>>

-----------------------------------------------------------------------------
(* What a context does once it is in sae_lockIpc, up to its return from    *)
(* sae_unLockIpc; entering is the caller's choice.                         *)
Finish(x) == \/ CompareExchange(x) \/ LoadExclusive(x)
             \/ StoreExclusive(x) \/ StoreRefused(x)
             \/ Store(x) \/ UnlockLoad(x) \/ UnlockStore(x)
             \/ ExitCritical(x)

Next == \E x \in Context : \/ IrqEnter(x) \/ IrqReturn(x)
                           \/ EnterCritical(x) \/ Finish(x)

Spec == Init /\ [][Next]_vars

(* A core keeps executing, handlers return, and an exclusive store that is *)
(* tried again and again goes through in the end.                          *)
Fairness == \A x \in Context : /\ WF_vars(Finish(x))
                               /\ WF_vars(IrqReturn(x))
                               /\ SF_vars(StoreExclusive(x))

FairSpec == Spec /\ Fairness

-----------------------------------------------------------------------------
Holds(x)    == pc[x] \in {"held", "release"}
Spinning(x) == pc[x] \in {"spin", "store"}

(* The variables range over what the code can put in them.                 *)
TypeOK == /\ lock \in {UNLOCKED, LOCKED}
          /\ monitor \in [Core -> BOOLEAN]
          /\ masked \in [Core -> BOOLEAN]
          /\ active \subseteq Context
          /\ pc \in [Context -> {"out", "spin", "store", "held", "release", "exit"}]

(* Two contexts, of one core or of two, are never both between a           *)
(* successful sae_lock and the sae_unlock that ends it.                    *)
MutualExclusion == \A x, y \in Context : Holds(x) /\ Holds(y) => x = y

(* The lock word reads LOCKED exactly while somebody holds the lock: the   *)
(* exclusive store of the SHARC sae_unlock, whose failure sae_unLockIpc    *)
(* would not notice, never leaves the word LOCKED with no holder.          *)
LockedMeansHeld == lock = LOCKED <=> \E x \in Context : Holds(x)

(* No handler ever spins on a lock that code it interrupted on the same    *)
(* core holds or is acquiring: the wait would never end.                   *)
NeverWaitsForPreempted ==
  \A x, y \in Context : /\ x[1] = y[1]
                        /\ x # y
                        /\ Spinning(x)
                        => pc[y] = "out"

(* Whoever waits, the lock keeps being handed out: a context spinning in   *)
(* sae_lockIpc is followed by some context getting the lock, and a lock    *)
(* that is held is given back.                                             *)
KeepsMoving == /\ (\E x \in Context : Spinning(x)) ~> (\E x \in Context : Holds(x))
               /\ (lock = LOCKED) ~> (lock = UNLOCKED)

(* The mutex that the callers are promised, holder being whoever is past   *)
(* sae_lock.                                                               *)
NoContext == <<"none">>
Holder == IF \E x \in Context : Holds(x)
          THEN CHOOSE x \in Context : Holds(x)
          ELSE NoContext

Mutex == INSTANCE SaeMutex WITH Client <- Context, NoClient <- NoContext,
                                holder <- Holder

ImplementsMutex == Mutex!Spec

=============================================================================
