----------------------------- MODULE SaeMailbox -----------------------------
(***************************************************************************)
(* What the message layer of the SHARC Audio Engine promises: every core   *)
(* has a mailbox of bounded size that delivers in order, and a message     *)
(* buffer exists from its creation to a moment when no mailbox holds it.   *)
(* SaeIpc (rings, reference counts, interrupts) implements it.             *)
(***************************************************************************)
EXTENDS Naturals, Sequences

CONSTANTS Core,       \* the participating cores
          Msg,        \* message buffers
          Capacity    \* messages a mailbox can hold

VARIABLES mail,       \* mail[c]: the messages waiting for core c, oldest first
          live        \* the message buffers that exist

vars == <<mail, live>>

Init == /\ mail = [c \in Core |-> <<>>]
        /\ live = {}

Create(m) == /\ m \notin live
             /\ live' = live \cup {m}
             /\ UNCHANGED mail

Post(m, c) == /\ m \in live
              /\ Len(mail[c]) < Capacity
              /\ mail' = [mail EXCEPT ![c] = Append(@, m)]
              /\ UNCHANGED live

Take(c) == /\ mail[c] # <<>>
           /\ mail' = [mail EXCEPT ![c] = Tail(@)]
           /\ UNCHANGED live

Free(m) == /\ m \in live
           /\ \A c \in Core : \A i \in 1 .. Len(mail[c]) : mail[c][i] # m
           /\ live' = live \ {m}
           /\ UNCHANGED mail

Next == \/ \E m \in Msg : Create(m) \/ Free(m) \/ \E c \in Core : Post(m, c)
        \/ \E c \in Core : Take(c)

Spec == Init /\ [][Next]_vars

=============================================================================
