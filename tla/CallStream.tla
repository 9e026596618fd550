------------------------------ MODULE CallStream ------------------------------
(***************************************************************************)
(* What a connection promises its two ends: the peer handles the calls the *)
(* client issues one after the other, in the order they were issued, each  *)
(* once; and the client issues nothing more until a call it waits for has  *)
(* been handled.                                                           *)
(***************************************************************************)
EXTENDS Naturals, Sequences

CONSTANTS
    Call,     \* the calls of the protocol
    Waiting   \* those whose reply the client waits for

VARIABLES issued, handled   \* calls, oldest first

vars == <<issued, handled>>

Init == issued = <<>> /\ handled = <<>>

Issue(c) ==
    /\ \A i \in DOMAIN issued : issued[i] \in Waiting => i <= Len(handled)
    /\ issued' = Append(issued, c)
    /\ UNCHANGED handled

Handle ==
    /\ Len(handled) < Len(issued)
    /\ handled' = Append(handled, issued[Len(handled) + 1])
    /\ UNCHANGED issued

Next == Handle \/ \E c \in Call : Issue(c)

Spec == Init /\ [][Next]_vars
=============================================================================
