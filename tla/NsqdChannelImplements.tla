------------------------ MODULE NsqdChannelImplements ------------------------
(***************************************************************************)
(* NsqdChannel implements ChannelContract.                                 *)
(*                                                                         *)
(* A message is with consumer c while it is in flight to c, also while     *)
(* TOUCH has it out of the map to put it back.  It waits wherever else the *)
(* channel has it: in a queue, deferred, or in a goroutine's hand.         *)
(***************************************************************************)
EXTENDS NsqdChannel

With(m, c) ==
    \/ \E o \in inFlightMessages : Id(o) = m /\ clientID[o] = c
    \/ io[c].pc \in {"popped", "removed"} /\ io[c].op = "TOUCH" /\ Id(io[c].obj) = m

Where(m) ==
    IF Copied THEN "closed"
    ELSE IF m \in finished THEN "finished"
    ELSE IF m \in dropped THEN "discarded"
    ELSE IF \E c \in Clients : With(m, c) THEN "out"
    ELSE IF Somewhere(m) THEN "waiting"
    ELSE IF m \in published THEN "lost"
    ELSE "new"

ContractState ==
    [m \in Msgs |-> [at |-> Where(m),
                     to |-> IF Where(m) = "out" THEN CHOOSE c \in Clients : With(m, c)
                            ELSE NoClient]]

Contract == INSTANCE ChannelContract WITH state <- ContractState

(* Every step of the channel is a step the contract allows, or none: what  *)
(* FIN, REQ, TOUCH, time-outs, Empty and the queues do in sections under   *)
(* several locks amounts to one transfer of the message at a time.         *)
ImplementsContract == Contract!Spec
=============================================================================
