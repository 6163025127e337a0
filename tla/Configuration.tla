--------------------------- MODULE Configuration ---------------------------
(***************************************************************************)
(* config.toml, as the operator changes it: the queue and its settings     *)
(* (Queue), and the providers, pools and targets (Providers).  The same    *)
(* clients change both, and a command changes one or the other; neither    *)
(* reads what the other writes, but for the ids of the tasks, so a         *)
(* behaviour is one of either.                                             *)
(***************************************************************************)
EXTENDS Queue, Providers

CONSTANTS
    QueueChanges,    \* bounds: how many operations there are on the queue,
    ProviderChanges  \* and how many on the providers, looks and failures

VARIABLE section  \* the part of the file this behaviour is about

configuration == <<section, queueVars, providersVars>>

\* The section it is not about stands still where it starts.
Init ==
    /\ section \in {"queue", "providers"}
    /\ ops = [c \in Clients |-> Idle]
    /\ left = IF section = "queue" THEN QueueChanges ELSE ProviderChanges
    /\ QueueInit /\ ProvidersInit
    /\ section = "providers" => tasks = CHOOSE q \in InitialQueues : TRUE
    /\ section = "queue" => config = CHOOSE c \in InitialConfigs : TRUE

ChangeQueue ==
    section = "queue" /\ QueueNext
        /\ UNCHANGED <<section, config, marks, alerts>>
ChangeProviders ==
    section = "providers" /\ ProvidersNext
        /\ UNCHANGED <<section, tasks, settings, folded, history, ghosts>>

Next == ChangeQueue \/ ChangeProviders
Spec == Init /\ [][Next]_configuration
=============================================================================
