---------------------------- MODULE FifoChannel ----------------------------
(***************************************************************************)
(* What StreamSink promises its callers (sink/stream_sink.h): a message    *)
(* handed to a write_* function is queued behind the ones handed over      *)
(* before it, whatever its type, and leaves for the network in that order  *)
(* and once.  Where it is kept (memory, disk, the sender's hand) and how   *)
(* often the connection is lost does not show here.                        *)
(***************************************************************************)
EXTENDS Integers, Sequences

CONSTANTS
    Kinds,      \* types of the queued messages
    Sizes,      \* their encoded lengths
    MayLose     \* TRUE if the disk may refuse a message

VARIABLES
    next,       \* sequence number of the next message of each kind
    queue,      \* accepted and not yet handed to the network, oldest first
    delivered   \* handed to the network, in order

vars == <<next, queue, delivered>>

Init ==
    /\ next = [k \in Kinds |-> 1]
    /\ queue = <<>>
    /\ delivered = <<>>

Put(k, s) ==
    /\ next' = [next EXCEPT ![k] = @ + 1]
    /\ queue' = Append(queue, [kind |-> k, seq |-> next[k], size |-> s])
    /\ UNCHANGED delivered

(* The message gets its number and is dropped.                             *)
Lose(k) ==
    /\ MayLose
    /\ next' = [next EXCEPT ![k] = @ + 1]
    /\ UNCHANGED <<queue, delivered>>

Take ==
    /\ queue # <<>>
    /\ delivered' = Append(delivered, Head(queue))
    /\ queue' = Tail(queue)
    /\ UNCHANGED next

Next ==
    \/ \E k \in Kinds, s \in Sizes : Put(k, s)
    \/ \E k \in Kinds : Lose(k)
    \/ Take

Spec == Init /\ [][Next]_vars
=============================================================================
