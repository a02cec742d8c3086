------------------------------- MODULE Fifo --------------------------------
(***************************************************************************)
(* What a shared-memory pipe promises to the two processes that share it:  *)
(* messages come out whole, once, and in the order in which they went in.  *)
(* A refused append and a read of an empty pipe change nothing, so neither *)
(* is an action here.                                                      *)
(***************************************************************************)
EXTENDS Sequences

CONSTANTS Msg,      \* the messages that can be appended
          Bytes,    \* Bytes[m]: what the reader of message m must be handed
          NoData    \* the reader's buffer before the first message

VARIABLES queue,    \* messages appended and not yet taken
          out       \* what the last successful read handed to its caller

fifoVars == <<queue, out>>

Init == queue = <<>> /\ out = NoData

Put(m) == queue' = Append(queue, m) /\ UNCHANGED out

Take ==
    /\ queue # <<>>
    /\ out' = Bytes[Head(queue)]
    /\ queue' = Tail(queue)

Next == Take \/ \E m \in Msg : Put(m)

Spec == Init /\ [][Next]_fifoVars
=============================================================================
