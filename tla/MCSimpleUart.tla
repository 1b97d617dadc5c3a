---------------------------- MODULE MCSimpleUart ----------------------------
(* SimpleUart for TLC.                                                     *)
EXTENDS SimpleUart

CONSTANTS a, b, t1, t2

(* A port whose handler is gone is left at that: nothing moves there.      *)
Connected == open => handler

=============================================================================
