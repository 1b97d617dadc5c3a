---------------------------- MODULE MCFlashUpdate -----------------------------
(* FlashUpdate for TLC, with buffers of nine bytes.  Of the files that fit *)
(* one needs stuffing up to the last byte there is room for, and the other *)
(* looks like stuffing.  The third has a page too many, and a page whose   *)
(* second transfer is a command by itself.                                 *)
EXTENDS FlashUpdate

MCFiles == {<< <<END, ESC>>, <<ESC_ESC>> >>,
            << <<ESC_END>> >>,
            << <<NOP, END, ESC, PROGRAM>>, <<ESC_END>>, <<ESC_END>> >>}

=============================================================================
