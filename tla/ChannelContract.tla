--------------------------- MODULE ChannelContract ---------------------------
(***************************************************************************)
(* What a channel of nsqd promises for each message, whatever goroutines,  *)
(* queues and locks it is made of: the message is with the channel or with *)
(* exactly one consumer; only that consumer finishes it; a finished or     *)
(* discarded message never comes back; nothing gets lost in between.       *)
(* NsqdChannelImplements shows that NsqdChannel keeps it until Close.      *)
(***************************************************************************)
CONSTANTS Msgs, Clients, NoClient

VARIABLE state      \* where each message is, and which consumer has it

At(where) == [at |-> where, to |-> NoClient]
Out(c) == [at |-> "out", to |-> c]
Delivered == {Out(c) : c \in Clients}

Init == state = [m \in Msgs |-> At("new")]

Become(m, s) == state' = [state EXCEPT ![m] = s]

(* PutMessage; a message that the backend refuses is gone at once.         *)
Accept(m) ==
    /\ state[m] = At("new")
    /\ Become(m, At("waiting")) \/ Become(m, At("discarded"))

Deliver(m, c) == state[m] = At("waiting") /\ Become(m, Out(c))

(* FIN.                                                                    *)
Finish(m, c) == state[m] = Out(c) /\ Become(m, At("finished"))

(* REQ, or the time-out.                                                   *)
TakeBack(m, c) == state[m] = Out(c) /\ Become(m, At("waiting"))

(* Empty, Delete, a failed write, a sampling consumer.                     *)
Discard(S) ==
    /\ \A m \in S : state[m] \in {At("waiting")} \cup Delivered
    /\ state' = [m \in Msgs |-> IF m \in S THEN At("discarded") ELSE state[m]]

(* Close leaves the messages to the files on disk and the next process.    *)
Close == state' = [m \in Msgs |-> At("closed")]

Next ==
    \/ \E S \in SUBSET Msgs : Discard(S)
    \/ \E m \in Msgs : Accept(m)
    \/ \E m \in Msgs, c \in Clients : Deliver(m, c) \/ Finish(m, c) \/ TakeBack(m, c)
    \/ Close

Spec == Init /\ [][Next]_state
=============================================================================
