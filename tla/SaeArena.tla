------------------------------ MODULE SaeArena ------------------------------
(***************************************************************************)
(* What the heap of the SHARC Audio Engine promises: whoever asks gets a   *)
(* region of the arena that is at least as long as asked for and that      *)
(* nobody else has, until it is given back, or gets nothing.  SaeAlloc     *)
(* (boundary tags, first fit, coalescing) implements it.                   *)
(***************************************************************************)
EXTENDS Naturals

CONSTANTS Addr,     \* the addresses of the arena
          Length,   \* lengths that callers ask for
          Caller    \* who may ask

VARIABLES regions,  \* the regions handed out, each a set of addresses
          asked     \* the length that a caller waits for, 0 if for none

vars == <<regions, asked>>

Init == /\ regions = {}
        /\ asked = [c \in Caller |-> 0]

Ask(c, n) == /\ asked[c] = 0
             /\ asked' = [asked EXCEPT ![c] = n]
             /\ UNCHANGED regions

(* A caller that has got its region may go on to ask for another.          *)
Grab(c) == /\ asked[c] # 0
           /\ \E lo, hi \in Addr :
                 /\ hi + 1 >= lo + asked[c]
                 /\ \A q \in regions : q \cap (lo .. hi) = {}
                 /\ regions' = regions \cup {lo .. hi}
           /\ \E n \in Length \cup {0} : asked' = [asked EXCEPT ![c] = n]

Refuse(c) == /\ asked[c] # 0
             /\ asked' = [asked EXCEPT ![c] = 0]
             /\ UNCHANGED regions

GiveBack(r) == regions' = regions \ {r} /\ UNCHANGED asked

Next == \/ \E c \in Caller : Grab(c) \/ Refuse(c) \/ \E n \in Length : Ask(c, n)
        \/ \E r \in regions : GiveBack(r)

Spec == Init /\ [][Next]_vars

=============================================================================
