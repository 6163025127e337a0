---------------------------- MODULE AtomicStore ----------------------------
(***************************************************************************)
(* What the data directory promises: every document changes in whole       *)
(* changes, one after another, and a change that was acknowledged is there *)
(* for good; the history is a log that only ever loses its oldest runs.    *)
(* There are no processes, locks, temporary files or crashes here: Store   *)
(* is what implements this.                                                *)
(***************************************************************************)
EXTENDS Integers, Sequences, SequencesExt

CONSTANTS
    Docs,     \* config.toml, state.json, the JSON lists
    Changes,  \* the changes that are ever made to a document
    Lines,    \* the events that are ever recorded: [run, status]
    Limit     \* how many runs a pruned history keeps

VARIABLES
    docs,     \* the changes every document has been through
    acked,    \* the changes somebody was told of that they are made
    history   \* the run history

Init == docs = [d \in Docs |-> <<>>] /\ acked = {} /\ history = <<>>

\* The latest event per run, in the order the runs were first seen.
RunsOf(log) ==
    FoldLeft(LAMBDA ids, e : IF Contains(ids, e.run) THEN ids ELSE Append(ids, e.run),
             <<>>, log)
Collapsed(log) ==
    LET ids == RunsOf(log)
        Latest(id) == SelectLastInSeq(log, LAMBDA e : e.run = id)
    IN [i \in DOMAIN ids |-> log[Latest(ids[i])]]

Commit(d, c) ==
    /\ ~Contains(docs[d], c)
    /\ docs' = [docs EXCEPT ![d] = Append(@, c)]
    /\ UNCHANGED <<acked, history>>
Acknowledge(d, c) ==
    /\ Contains(docs[d], c)
    /\ acked' = acked \union {c}
    /\ UNCHANGED <<docs, history>>
Record(e) ==
    /\ history' = Append(history, e)
    /\ UNCHANGED <<docs, acked>>
Prune ==
    /\ Len(Collapsed(history)) > Limit
    /\ history' = LET runs == Collapsed(history) IN
                  SubSeq(runs, Len(runs) - Limit + 1, Len(runs))
    /\ UNCHANGED <<docs, acked>>

Next ==
    \/ \E d \in Docs, c \in Changes : Commit(d, c) \/ Acknowledge(d, c)
    \/ \E e \in Lines : Record(e)
    \/ Prune
Spec == Init /\ [][Next]_<<docs, acked, history>>
=============================================================================
