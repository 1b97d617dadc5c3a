------------------------------ MODULE MCSaeIpc ------------------------------
(* SaeIpc for TLC: which API calls the application makes on which core.    *)
EXTENDS SaeIpc, TLC

CONSTANTS m1, m2

MsgSymmetry == Permutations(Msg)

Everywhere(calls) == [c \in Core |-> calls]

UnrefOnly == Everywhere({"unref"})

(* References: core 0 broadcasts while core 1 does everything a task can,  *)
(* with callbacks that copy, answer and forward what they get.             *)
RefTaskCalls == [c \in Core |-> IF c = 0 THEN {"broadcast"}
                                ELSE {"create", "ref", "unref", "send"}]
RefCallbackCalls == Everywhere({"ref", "unref", "send"})

(* Order: two senders to one core, whose task polls while its handler      *)
(* drains.                                                                 *)
OrderTaskCalls == [c \in Core |-> IF c = 0 THEN {"create", "retype", "send"}
                                  ELSE {"create", "send", "receive", "unref"}]

(* Liveness: core 0 broadcasts while core 1 sends.                         *)
LiveTaskCalls == [c \in Core |-> IF c = 0 THEN {"broadcast"} ELSE {"create", "send"}]

(* Two tasks that share a message.                                         *)
ShareTaskCalls == Everywhere({"create", "ref", "unref", "send", "receive"})

=============================================================================
