--------------------------------- MODULE Slip ---------------------------------
(***************************************************************************)
(* The frame codec that the bootloader and its host tool share (slip.c):   *)
(* a frame travels between two END bytes, and bytes that would look like   *)
(* END or ESC are stuffed.  A frame, and what it becomes, is a sequence of *)
(* bytes.                                                                  *)
(***************************************************************************)
EXTENDS Naturals, Sequences, SequencesExt

(* All that frames are put into, at both ends, is of one size: sBuf, the   *)
(* receive buffer and its endpoint's packets, cmd and resp.                *)
CONSTANT BufSize

END     == 192
ESC     == 219
ESC_END == 220
ESC_ESC == 221

(* Mutant: ESC itself is not stuffed.                                      *)
StuffEnd(c) == IF c = END THEN <<ESC, ESC_END>> ELSE <<c>>

Stuff(c) == CASE c = END -> <<ESC, ESC_END>>
              [] c = ESC -> <<ESC, ESC_ESC>>
              [] OTHER   -> <<c>>

slip(frame) == <<END>> \o FlattenSeq([i \in DOMAIN frame |-> Stuff(frame[i])]) \o <<END>>

(* What unslip keeps from one call to the next, with the frame it is in    *)
(* the middle of and the frames it has completed.                          *)
Decoder == [decoding : BOOLEAN, escape : BOOLEAN]

Idle == [decoding |-> FALSE, escape |-> FALSE]

Unstuff(c) == CASE c = ESC_END -> END [] c = ESC_ESC -> ESC [] OTHER -> c

(* An END between frames begins one, and so do any that follow it at once; *)
(* what the buffer for the frame has no room for is lost.                  *)
Feed(d, c) ==
  CASE c = END /\ ~d.decoding   -> [d EXCEPT !.decoding = TRUE]
    [] c = END /\ d.decoding /\ d.out # <<>> ->
         [d EXCEPT !.decoding = FALSE, !.out = <<>>, !.frames = Append(@, d.out)]
    [] c = ESC /\ d.decoding    -> [d EXCEPT !.escape = TRUE]
    [] c \notin {END, ESC} /\ d.decoding ->
         [d EXCEPT !.escape = FALSE,
                   !.out = IF Len(@) < BufSize
                           THEN Append(@, IF d.escape THEN Unstuff(c) ELSE c)
                           ELSE @]
    [] OTHER -> d

(* decode_frame: unslip until the buffer is used up.  A frame that the     *)
(* buffer does not complete is forgotten, that one has begun is not.       *)
unslip(dec, buf) ==
  LET Fed[k \in 0 .. Len(buf)] ==
        IF k = 0 THEN [decoding |-> dec.decoding, escape |-> dec.escape,
                       out |-> <<>>, frames |-> <<>>]
        ELSE Feed(Fed[k - 1], buf[k])
  IN Fed[Len(buf)]

=============================================================================
