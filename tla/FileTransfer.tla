--------------------------- MODULE FileTransfer ---------------------------
(***************************************************************************)
(* What a file transfer promises: files arrive whole and unchanged, in the   *)
(* order they were sent and each once; an end says that it succeeded only     *)
(* when every file is there; and both ends come to an end.                   *)
(***************************************************************************)
EXTENDS Integers, Sequences

CONSTANT Batch  \* the files that the receiver will take, in order

VARIABLES
    arrived,    \* those it has
    sending,    \* how each end stands
    receiving

vars == <<arrived, sending, receiving>>

Init == arrived = << >> /\ sending = "going" /\ receiving = "going"

Arrive ==
    /\ receiving = "going" /\ Len(arrived) < Len(Batch)
    /\ arrived' = Append(arrived, Batch[Len(arrived) + 1])
    /\ UNCHANGED <<sending, receiving>>

SenderEnds ==
    /\ sending = "going" /\ sending' \in {"ok", "failed"}
    /\ sending' = "ok" => arrived = Batch
    /\ UNCHANGED <<arrived, receiving>>

ReceiverEnds ==
    /\ receiving = "going" /\ receiving' \in {"ok", "failed"}
    /\ receiving' = "ok" => arrived = Batch
    /\ UNCHANGED <<arrived, sending>>

Next == Arrive \/ SenderEnds \/ ReceiverEnds

Spec == Init /\ [][Next]_vars /\ WF_vars(SenderEnds) /\ WF_vars(ReceiverEnds)

=============================================================================
