------------------------------ MODULE SaeMutex ------------------------------
(***************************************************************************)
(* What sae_lockIpc / sae_unLockIpc promise their callers: the IPC area    *)
(* has at most one holder, and only the holder gives it up.  SaeLock shows *)
(* that the spinlock in sae_lock.c together with the interrupt masking in  *)
(* sae_util.c implements it.                                               *)
(***************************************************************************)
CONSTANTS Client,     \* whoever may take the lock
          NoClient    \* the value of holder while nobody has it

VARIABLE holder

Init == holder = NoClient

Acquire(a) == /\ holder = NoClient
              /\ holder' = a

Release(a) == /\ holder = a
              /\ holder' = NoClient

Next == \E a \in Client : Acquire(a) \/ Release(a)

Spec == Init /\ [][Next]_holder

=============================================================================
