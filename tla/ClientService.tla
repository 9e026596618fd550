---------------------------- MODULE ClientService ----------------------------
(***************************************************************************)
(* What the compute node promises each client: the commands it submits are *)
(* executed one at a time, in the order of their submission, each exactly  *)
(* once; clFinish returns only when nothing is left; a connection is torn  *)
(* down only when nothing is left, so closing it discards no command.      *)
(* Clients do not influence one another's results.                         *)
(***************************************************************************)
EXTENDS Sequences

CONSTANTS Clients, Commands

VARIABLES
    phase,      \* "new", "serve", "finish" (waiting in clFinish), "gone"
    pending     \* submitted and not yet executed, oldest first

vars == <<phase, pending>>

Init ==
    /\ phase = [c \in Clients |-> "new"]
    /\ pending = [c \in Clients |-> <<>>]

Enter(c, from, to) == phase[c] = from /\ phase' = [phase EXCEPT ![c] = to]

Connect(c) == Enter(c, "new", "serve") /\ UNCHANGED pending

\* to = "finish": the command is the marker of a clFinish.
Submit(c, comm, to) ==
    /\ Enter(c, "serve", to)
    /\ to \in {"serve", "finish"}
    /\ pending' = [pending EXCEPT ![c] = Append(@, comm)]

Execute(c) ==
    /\ pending[c] # <<>>
    /\ pending' = [pending EXCEPT ![c] = Tail(@)]
    /\ UNCHANGED phase

FinishReturn(c) ==
    /\ pending[c] = <<>>
    /\ Enter(c, "finish", "serve")
    /\ UNCHANGED pending

Close(c) ==
    /\ pending[c] = <<>>
    /\ Enter(c, "serve", "gone")
    /\ UNCHANGED pending

Next ==
    \E c \in Clients :
        \/ Connect(c)
        \/ \E comm \in Commands, to \in {"serve", "finish"} : Submit(c, comm, to)
        \/ Execute(c)
        \/ FinishReturn(c)
        \/ Close(c)

Spec == Init /\ [][Next]_vars
=============================================================================
