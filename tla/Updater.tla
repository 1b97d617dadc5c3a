------------------------------- MODULE Updater --------------------------------
(***************************************************************************)
(* What the user of the firmware update is promised: a run that reports    *)
(* success has left the file in the flash, and there it stays until the    *)
(* next run; whatever else erasing and programming do, they do to pages    *)
(* that nobody was told to be good.                                        *)
(***************************************************************************)
CONSTANTS
  Page,     \* pages of the flash
  Value,    \* what a page can be programmed with
  Content,  \* what a page can hold
  Blank,    \* an erased page
  Files,    \* what can be asked for: functions from the first pages to Value
  Verdict   \* what a run has come to: running, success, or anything else

VARIABLES flash, file, verdict

vars == <<flash, file, verdict>>

Holds(f) == \A p \in DOMAIN f : flash[p] = f[p]

Init == flash \in [Page -> Content] /\ file \in Files /\ verdict \in Verdict \ {"running", "success"}

Begin == /\ verdict # "running" /\ verdict' = "running"
         /\ file' \in Files
         /\ UNCHANGED flash

(* Pages that the user may rely on.                                        *)
Promised == IF verdict = "success" THEN DOMAIN file ELSE {}

Erase == /\ \E S \in SUBSET (Page \ Promised) :
              flash' = [p \in Page |-> IF p \in S THEN Blank ELSE flash[p]]
         /\ UNCHANGED <<file, verdict>>

(* A page gets what some file has there, unless something goes wrong.      *)
Program == /\ \E p \in Page \ Promised, c \in Content :
                /\ c \in Value => \E f \in Files : p \in DOMAIN f /\ f[p] = c
                /\ flash' = [flash EXCEPT ![p] = c]
           /\ UNCHANGED <<file, verdict>>

Succeed == /\ verdict = "running" /\ Holds(file) /\ verdict' = "success"
           /\ UNCHANGED <<flash, file>>

Fail == /\ verdict = "running" /\ verdict' \in Verdict \ {"running", "success"}
        /\ UNCHANGED <<flash, file>>

Next == Begin \/ Erase \/ Program \/ Succeed \/ Fail

Spec == Init /\ [][Next]_vars

=============================================================================
