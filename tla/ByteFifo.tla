------------------------------ MODULE ByteFifo ------------------------------
(***************************************************************************)
(* What each direction of a UART port promises: while the port is open,    *)
(* bytes leave in the order in which they were accepted, each of them      *)
(* once, and no more than Capacity of them are under way; what is under    *)
(* way is thrown away only by opening the port.  SimpleUart (rings shared  *)
(* with an interrupt handler) implements it twice.                         *)
(***************************************************************************)
EXTENDS Naturals, Sequences

CONSTANTS Byte,       \* the values that are carried
          Capacity    \* how many bytes may be under way

VARIABLES open,       \* the port is open
          fifo,       \* the bytes under way, oldest first
          last        \* the byte that left last

vars == <<open, fifo, last>>

Init == ~open /\ fifo = <<>>

Open == /\ ~open
        /\ open' = TRUE
        /\ fifo' = <<>>
        /\ UNCHANGED last

Close == /\ open
         /\ open' = FALSE
         /\ UNCHANGED <<fifo, last>>

Accept(b) == /\ open
             /\ Len(fifo) < Capacity
             /\ fifo' = Append(fifo, b)
             /\ UNCHANGED <<open, last>>

Leave == /\ open
         /\ fifo # <<>>
         /\ last' = Head(fifo)
         /\ fifo' = Tail(fifo)
         /\ UNCHANGED open

Next == Open \/ Close \/ (\E b \in Byte : Accept(b)) \/ Leave

Spec == Init /\ [][Next]_vars

=============================================================================
