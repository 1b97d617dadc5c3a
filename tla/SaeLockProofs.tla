--------------------------- MODULE SaeLockProofs ----------------------------
(***************************************************************************)
(* Proofs about SaeLock, for any number of cores, any split of them into   *)
(* ARM and SHARC builds and any number of interrupt levels.                *)
(***************************************************************************)
EXTENDS SaeLock, TLAPS

Busy(x) == pc[x] # "out"

(* Whoever is between SAE_ENTER_CRITICAL and SAE_EXIT_CRITICAL runs, with  *)
(* the interrupts of its core masked.                                      *)
MaskedWhileBusy == \A x \in Context : Busy(x) => Running(x) /\ masked[x[1]]

(* Exclusive access that is still intact after reading UNLOCKED means the  *)
(* word still is UNLOCKED.                                                 *)
MonitorSound == \A x \in Context : pc[x] = "store" /\ monitor[x[1]] => lock = UNLOCKED

(* The store of the SHARC sae_unlock finds its exclusive access intact.    *)
ReleaseSound == \A x \in Context : pc[x] = "release" => monitor[x[1]]

LockInv == /\ TypeOK
           /\ MaskedWhileBusy
           /\ MonitorSound
           /\ ReleaseSound
           /\ MutualExclusion
           /\ LockedMeansHeld

-----------------------------------------------------------------------------
(* A context is the pair of its core and its level.                        *)
LEMMA ContextPair ==
  ASSUME NEW x \in Context
  PROVE  x[1] \in Core /\ x[2] \in Level /\ x = <<x[1], x[2]>>
BY DEF Context

(* Only one context of a core runs at a time.                              *)
LEMMA OneRuns ==
  ASSUME NEW x \in Context, NEW y \in Context,
         Running(x), Running(y), x[1] = y[1]
  PROVE  x = y
<1>1. x[2] \in Level /\ y[2] \in Level /\ x = <<x[1], x[2]>> /\ y = <<y[1], y[2]>>
  BY ContextPair
<1>2. ~(x[2] > y[2])
  BY <1>1 DEF Running
<1>3. ~(y[2] > x[2])
  BY <1>1 DEF Running
<1>4. x[2] = y[2]
  BY <1>1, <1>2, <1>3, LevelAssumption DEF Level
<1>. QED
  BY <1>1, <1>4

(* Hence at most one context of a core is in the lock routines.            *)
LEMMA OneBusy ==
  ASSUME MaskedWhileBusy, NEW x \in Context, NEW y \in Context,
         Busy(x), Running(y), x[1] = y[1]
  PROVE  x = y
BY OneRuns DEF MaskedWhileBusy

-----------------------------------------------------------------------------
LEMMA InitLockInv == Init => LockInv
<1>. SUFFICES ASSUME Init PROVE LockInv
  OBVIOUS
<1>1. TypeOK
  BY LevelAssumption DEF Init, TypeOK, NoMonitor, Context, Level
<1>2. \A x \in Context : pc[x] = "out"
  BY DEF Init
<1>. QED
  BY <1>1, <1>2 DEF Init, LockInv, MaskedWhileBusy, Busy, MonitorSound, ReleaseSound,
       MutualExclusion, LockedMeansHeld, Holds, LOCKED, UNLOCKED

(* Every step of Next keeps LockInv: one lemma per conjunct.               *)
LEMMA StepTypeOK == TypeOK /\ [Next]_vars => TypeOK'
<1>. SUFFICES ASSUME TypeOK, [Next]_vars PROVE TypeOK'
  OBVIOUS
<1>. USE DEF TypeOK
<1>1. ASSUME NEW x \in Context, IrqEnter(x) \/ IrqReturn(x) PROVE TypeOK'
  BY <1>1 DEF IrqEnter, IrqReturn
<1>2. ASSUME NEW x \in Context, EnterCritical(x) \/ ExitCritical(x) PROVE TypeOK'
  BY <1>2, ContextPair DEF EnterCritical, ExitCritical
<1>3. ASSUME NEW x \in Context,
             \/ CompareExchange(x) \/ LoadExclusive(x) \/ StoreExclusive(x) \/ StoreRefused(x)
      PROVE  TypeOK'
  BY <1>3, ContextPair
     DEF CompareExchange, LoadExclusive, StoreExclusive, StoreRefused, NoMonitor
<1>4. ASSUME NEW x \in Context, Store(x) \/ UnlockLoad(x) \/ UnlockStore(x)
      PROVE  TypeOK'
  BY <1>4, ContextPair DEF Store, UnlockLoad, UnlockStore, NoMonitor
<1>5. CASE UNCHANGED vars
  BY <1>5 DEF vars
<1>. QED
  BY <1>1, <1>2, <1>3, <1>4, <1>5 DEF Next, Finish

LEMMA StepMasked == TypeOK /\ MaskedWhileBusy /\ [Next]_vars => MaskedWhileBusy'
<1>. SUFFICES ASSUME TypeOK, MaskedWhileBusy, [Next]_vars,
                     NEW y \in Context, Busy(y)'
              PROVE  Running(y)' /\ masked'[y[1]]
  BY DEF MaskedWhileBusy
<1>. USE DEF TypeOK, Busy
<1>1. ASSUME NEW x \in Context, IrqEnter(x) PROVE Running(y)' /\ masked'[y[1]]
  <2>1. Busy(y) /\ Running(y) /\ masked[y[1]] /\ x[1] # y[1]
    BY <1>1 DEF IrqEnter, MaskedWhileBusy
  <2>. QED
    BY <1>1, <2>1, ContextPair DEF IrqEnter, Running
<1>2. ASSUME NEW x \in Context, IrqReturn(x) PROVE Running(y)' /\ masked'[y[1]]
  <2>1. Busy(y) /\ Running(y) /\ masked[y[1]] /\ x # y
    BY <1>2 DEF IrqReturn, MaskedWhileBusy
  <2>. QED
    BY <1>2, <2>1 DEF IrqReturn, Running
<1>3. ASSUME NEW x \in Context, EnterCritical(x) PROVE Running(y)' /\ masked'[y[1]]
  <2>1. x = y \/ (Busy(y) /\ Running(y) /\ masked[y[1]])
    BY <1>3 DEF EnterCritical, MaskedWhileBusy
  <2>. QED
    BY <1>3, <2>1, ContextPair DEF EnterCritical, Running
<1>4. ASSUME NEW x \in Context, ExitCritical(x) PROVE Running(y)' /\ masked'[y[1]]
  <2>1. x # y /\ Busy(y) /\ Running(y) /\ masked[y[1]]
    BY <1>4 DEF ExitCritical, MaskedWhileBusy
  <2>2. x[1] # y[1]
    BY <1>4, <2>1, OneRuns DEF ExitCritical
  <2>. QED
    BY <1>4, <2>1, <2>2, ContextPair DEF ExitCritical, Running
<1>5. ASSUME NEW x \in Context,
             \/ CompareExchange(x) \/ LoadExclusive(x) \/ StoreExclusive(x) \/ StoreRefused(x)
             \/ Store(x) \/ UnlockLoad(x) \/ UnlockStore(x)
      PROVE  Running(y)' /\ masked'[y[1]]
  <2>1. Busy(x) /\ masked' = masked /\ active' = active /\ (x = y \/ Busy(y))
    BY <1>5 DEF CompareExchange, LoadExclusive, StoreExclusive, StoreRefused,
                Store, UnlockLoad, UnlockStore
  <2>. QED
    BY <2>1 DEF MaskedWhileBusy, Running
<1>6. CASE UNCHANGED vars
  BY <1>6 DEF vars, MaskedWhileBusy, Running
<1>. QED
  BY <1>1, <1>2, <1>3, <1>4, <1>5, <1>6 DEF Next, Finish

LEMMA StepMonitor == LockInv /\ [Next]_vars => MonitorSound'
<1>. SUFFICES ASSUME LockInv, [Next]_vars,
                     NEW y \in Context, pc'[y] = "store", monitor'[y[1]]
              PROVE  lock' = UNLOCKED
  BY DEF MonitorSound
<1>. USE DEF LockInv, TypeOK
<1>1. ASSUME NEW x \in Context,
             \/ IrqEnter(x) \/ IrqReturn(x) \/ EnterCritical(x) \/ ExitCritical(x)
      PROVE  lock' = UNLOCKED
  BY <1>1 DEF IrqEnter, IrqReturn, EnterCritical, ExitCritical, MonitorSound
<1>2. ASSUME NEW x \in Context, CompareExchange(x) \/ StoreExclusive(x)
      PROVE  lock' = UNLOCKED
  BY <1>2, ContextPair DEF CompareExchange, StoreExclusive, NoMonitor
<1>3. ASSUME NEW x \in Context, LoadExclusive(x) \/ UnlockLoad(x)
      PROVE  lock' = UNLOCKED
  <2>1. CASE x = y
    BY <1>3, <2>1 DEF LoadExclusive, UnlockLoad
  <2>2. CASE x # y
    <3>1. pc[y] = "store" /\ Busy(y)
      BY <1>3, <2>2 DEF LoadExclusive, UnlockLoad, Busy
    <3>2. x[1] # y[1]
      BY <1>3, <2>2, <3>1, OneBusy DEF LoadExclusive, UnlockLoad
    <3>. QED
      BY <1>3, <3>1, <3>2, ContextPair DEF LoadExclusive, UnlockLoad, MonitorSound
  <2>. QED
    BY <2>1, <2>2
<1>4. ASSUME NEW x \in Context, StoreRefused(x)
      PROVE  lock' = UNLOCKED
  <2>1. pc[y] = "store" /\ monitor[y[1]] /\ lock' = lock
    BY <1>4, ContextPair DEF StoreRefused
  <2>. QED
    BY <2>1 DEF MonitorSound
<1>5. ASSUME NEW x \in Context, Store(x) \/ UnlockStore(x)
      PROVE  lock' = UNLOCKED
  BY <1>5, ContextPair DEF Store, UnlockStore, NoMonitor, MonitorSound
<1>6. CASE UNCHANGED vars
  BY <1>6 DEF vars, MonitorSound
<1>. QED
  BY <1>1, <1>2, <1>3, <1>4, <1>5, <1>6 DEF Next, Finish

(* A context that holds the lock keeps the others out of it.               *)
LEMMA HolderExcludes ==
  ASSUME LockInv, NEW x \in Context, NEW y \in Context,
         Holds(y), CompareExchange(x) \/ StoreExclusive(x)
  PROVE  FALSE
<1>1. lock = LOCKED
  BY DEF LockInv, LockedMeansHeld
<1>2. lock = UNLOCKED
  BY DEF LockInv, MonitorSound, CompareExchange, StoreExclusive
<1>. QED
  BY <1>1, <1>2 DEF LOCKED, UNLOCKED

LEMMA StepRelease == LockInv /\ [Next]_vars => ReleaseSound'
<1>. SUFFICES ASSUME LockInv, [Next]_vars,
                     NEW y \in Context, pc'[y] = "release"
              PROVE  monitor'[y[1]]
  BY DEF ReleaseSound
<1>. USE DEF LockInv, TypeOK
<1>1. ASSUME NEW x \in Context,
             \/ IrqEnter(x) \/ IrqReturn(x) \/ EnterCritical(x) \/ ExitCritical(x)
      PROVE  monitor'[y[1]]
  BY <1>1 DEF IrqEnter, IrqReturn, EnterCritical, ExitCritical, ReleaseSound
<1>2. ASSUME NEW x \in Context, CompareExchange(x) \/ StoreExclusive(x)
      PROVE  monitor'[y[1]]
  <2>1. pc[y] = "release"
    BY <1>2 DEF CompareExchange, StoreExclusive
  <2>. QED
    BY <1>2, <2>1, HolderExcludes DEF Holds
<1>3. ASSUME NEW x \in Context, LoadExclusive(x) \/ UnlockLoad(x)
      PROVE  monitor'[y[1]]
  BY <1>3, ContextPair DEF LoadExclusive, UnlockLoad, ReleaseSound
<1>4. ASSUME NEW x \in Context, StoreRefused(x)
      PROVE  monitor'[y[1]]
  <2>1. pc[y] = "release" /\ x # y /\ Busy(y)
    BY <1>4 DEF StoreRefused, Busy
  <2>2. x[1] # y[1]
    BY <1>4, <2>1, OneBusy DEF StoreRefused
  <2>. QED
    BY <1>4, <2>1, <2>2, ContextPair DEF StoreRefused, ReleaseSound
<1>5. ASSUME NEW x \in Context, Store(x) \/ UnlockStore(x)
      PROVE  monitor'[y[1]]
  <2>1. x # y /\ Holds(x) /\ Holds(y)
    BY <1>5 DEF Store, UnlockStore, Holds
  <2>. QED
    BY <2>1 DEF MutualExclusion
<1>6. CASE UNCHANGED vars
  BY <1>6 DEF vars, ReleaseSound
<1>. QED
  BY <1>1, <1>2, <1>3, <1>4, <1>5, <1>6 DEF Next, Finish

(* Who holds the lock after a step: the same contexts, except that a       *)
(* successful sae_lock adds its caller to none and sae_unlock removes it.  *)
LEMMA StepHolders == LockInv /\ [Next]_vars =>
                        MutualExclusion' /\ LockedMeansHeld'
<1>. SUFFICES ASSUME LockInv, [Next]_vars
              PROVE  MutualExclusion' /\ LockedMeansHeld'
  OBVIOUS
<1>. USE DEF LockInv, TypeOK
<1>1. ASSUME NEW x \in Context,
             \/ IrqEnter(x) \/ IrqReturn(x) \/ EnterCritical(x) \/ ExitCritical(x)
             \/ LoadExclusive(x) \/ StoreRefused(x) \/ UnlockLoad(x)
      PROVE  MutualExclusion' /\ LockedMeansHeld'
  <2>1. lock' = lock /\ \A y \in Context : Holds(y)' <=> Holds(y)
    BY <1>1 DEF IrqEnter, IrqReturn, EnterCritical, ExitCritical,
                LoadExclusive, StoreRefused, UnlockLoad, Holds
  <2>. QED
    BY <2>1 DEF MutualExclusion, LockedMeansHeld
<1>2. ASSUME NEW x \in Context, CompareExchange(x) \/ StoreExclusive(x)
      PROVE  MutualExclusion' /\ LockedMeansHeld'
  <2>1. lock' = LOCKED /\ \A y \in Context : Holds(y)' <=> y = x
    <3>1. \A y \in Context : ~Holds(y)
      BY <1>2, HolderExcludes
    <3>. QED
      BY <1>2, <3>1 DEF CompareExchange, StoreExclusive, Holds
  <2>. QED
    BY <2>1 DEF MutualExclusion, LockedMeansHeld
<1>3. ASSUME NEW x \in Context, Store(x) \/ UnlockStore(x)
      PROVE  MutualExclusion' /\ LockedMeansHeld'
  <2>1. lock' = UNLOCKED
    BY <1>3 DEF Store, UnlockStore, ReleaseSound
  <2>2. \A y \in Context : ~Holds(y)'
    BY <1>3 DEF Store, UnlockStore, Holds, MutualExclusion
  <2>. QED
    BY <2>1, <2>2 DEF MutualExclusion, LockedMeansHeld, LOCKED, UNLOCKED
<1>4. CASE UNCHANGED vars
  <2>1. lock' = lock /\ \A y \in Context : Holds(y)' <=> Holds(y)
    BY <1>4 DEF vars, Holds
  <2>. QED
    BY <2>1 DEF MutualExclusion, LockedMeansHeld
<1>. QED
  BY <1>1, <1>2, <1>3, <1>4 DEF Next, Finish

-----------------------------------------------------------------------------
THEOREM Invariance == Spec => []LockInv
<1>1. LockInv /\ [Next]_vars => LockInv'
  BY StepTypeOK, StepMasked, StepMonitor, StepRelease, StepHolders DEF LockInv
<1>. QED
  BY <1>1, InitLockInv, PTL DEF Spec

(* The lock word, the monitors and the program counters keep to their      *)
(* types, on any number of cores and interrupt levels.                     *)
THEOREM TypeCorrect == Spec => []TypeOK
<1>1. LockInv => TypeOK
  BY DEF LockInv
<1>. QED
  BY <1>1, Invariance, PTL

(* sae_lockIpc is a mutual exclusion lock between all the contexts of all  *)
(* the cores.                                                              *)
THEOREM LockExcludes == Spec => []MutualExclusion
<1>1. LockInv => MutualExclusion
  BY DEF LockInv
<1>. QED
  BY <1>1, Invariance, PTL

(* sae_unLockIpc, which ignores the result of sae_unlock, never leaves the *)
(* lock word LOCKED with no holder.                                        *)
THEOREM UnlockReleases == Spec => []LockedMeansHeld
<1>1. LockInv => LockedMeansHeld
  BY DEF LockInv
<1>. QED
  BY <1>1, Invariance, PTL

(* No handler spins on a lock that the code it interrupted is using.       *)
THEOREM NoSelfDeadlock == Spec => []NeverWaitsForPreempted
<1>1. LockInv => NeverWaitsForPreempted
  BY OneBusy DEF LockInv, NeverWaitsForPreempted, Spinning, Busy, MaskedWhileBusy
<1>. QED
  BY <1>1, Invariance, PTL

-----------------------------------------------------------------------------
(* The refinement: a successful sae_lock is Acquire, the store of          *)
(* sae_unlock is Release, everything else leaves the holder alone.         *)

(* The holder, read off the program counters.                              *)
LEMMA HolderIs ==
  ASSUME MutualExclusion, NEW x \in Context, Holds(x)
  PROVE  Holder = x
BY DEF MutualExclusion, Holder

LEMMA HolderNone ==
  ASSUME \A x \in Context : ~Holds(x)
  PROVE  Holder = NoContext
BY DEF Holder

LEMMA StepRefines == LockInv /\ LockInv' /\ [Next]_vars => [Mutex!Next]_Holder
<1>. SUFFICES ASSUME LockInv, LockInv', [Next]_vars
              PROVE  [Mutex!Next]_Holder
  OBVIOUS
<1>. USE DEF LockInv, TypeOK
<1>1. ASSUME \A y \in Context : Holds(y)' <=> Holds(y)
      PROVE  Holder' = Holder
  BY <1>1 DEF Holder
<1>2. ASSUME NEW x \in Context,
             \/ IrqEnter(x) \/ IrqReturn(x) \/ EnterCritical(x) \/ ExitCritical(x)
             \/ LoadExclusive(x) \/ StoreRefused(x) \/ UnlockLoad(x)
      PROVE  [Mutex!Next]_Holder
  <2>1. \A y \in Context : Holds(y)' <=> Holds(y)
    BY <1>2 DEF IrqEnter, IrqReturn, EnterCritical, ExitCritical,
                LoadExclusive, StoreRefused, UnlockLoad, Holds
  <2>. QED
    BY <2>1, <1>1
<1>3. ASSUME NEW x \in Context, CompareExchange(x) \/ StoreExclusive(x)
      PROVE  Mutex!Acquire(x)
  <2>1. Holder = NoContext
    BY <1>3, HolderExcludes, HolderNone
  <2>2. Holds(x)'
    BY <1>3 DEF CompareExchange, StoreExclusive, Holds
  <2>3. Holder' = x
    BY <2>2 DEF MutualExclusion, Holder
  <2>. QED
    BY <2>1, <2>3 DEF Mutex!Acquire
<1>4. ASSUME NEW x \in Context, Store(x) \/ UnlockStore(x)
      PROVE  Mutex!Release(x)
  <2>1. Holds(x)
    BY <1>4 DEF Store, UnlockStore, Holds
  <2>2. Holder = x
    BY <2>1, HolderIs
  <2>3. \A y \in Context : ~Holds(y)'
    BY <1>4 DEF Store, UnlockStore, Holds, MutualExclusion
  <2>4. Holder' = NoContext
    BY <2>3 DEF Holder
  <2>. QED
    BY <2>2, <2>4 DEF Mutex!Release
<1>5. CASE UNCHANGED vars
  BY <1>5, <1>1 DEF vars, Holds
<1>. QED
  BY <1>2, <1>3, <1>4, <1>5 DEF Next, Finish, Mutex!Next

(* sae_lockIpc / sae_unLockIpc implement the mutex of SaeMutex.            *)
THEOREM LockImplementsMutex == Spec => ImplementsMutex
<1>1. Init => Mutex!Init
  BY HolderNone DEF Init, Mutex!Init, Holds
<1>. QED
  BY <1>1, StepRefines, Invariance, PTL DEF Spec, ImplementsMutex, Mutex!Spec

=============================================================================
