------------------------------ MODULE Clients ------------------------------
(***************************************************************************)
(* Who changes config.toml: commands of the CLI, and requests the daemon's *)
(* API serves.  Each is in the middle of one operation at most, and an     *)
(* operation of several steps keeps what it knows in between.              *)
(***************************************************************************)
EXTENDS Naturals

CONSTANT Clients  \* processes and requests at work at a time

VARIABLES
    ops,  \* what every client is in the middle of
    left  \* bound: how many operations and events there may still be

Idle == [pc |-> "idle"]
At(c, pc) == ops[c].pc = pc
Goto(c, op) == ops' = [ops EXCEPT ![c] = op]

OneEvent == left > 0 /\ left' = left - 1
Begin(c) == ops[c] = Idle /\ OneEvent
=============================================================================
