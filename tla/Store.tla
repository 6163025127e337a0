------------------------------- MODULE Store -------------------------------
(***************************************************************************)
(* The files of the data directory and the processes that share them: the  *)
(* daemon with its goroutines, and every dispatchq command.  An update of  *)
(* a document -- config.toml, state.json, the lists of the artifacts and   *)
(* of the outbox -- is: a mutex of the process, a lock on a file for the   *)
(* other processes, load, change, write a temporary file, rename, let go.  *)
(* The history is appended to and pruned under another mutex of the        *)
(* process, and under no lock the processes share.  A process may be       *)
(* killed anywhere, and a write may fail.                                  *)
(*                                                                         *)
(* A document is the list of the changes it has been through.  A failing   *)
(* machine, which may tear a line of the history, is left out.             *)
(*                                                                         *)
(* An operator that stands right before another of the same stem is a bug  *)
(* the properties have to notice.                                          *)
(***************************************************************************)
EXTENDS Integers, Sequences, SequencesExt

CONSTANTS
    Processes,  \* the daemon, and commands
    Threads,    \* goroutines
    ProcessOf,  \* the process of a goroutine
    Recorders,  \* the goroutines that write the history
    None,
    Docs,
    RunIds,
    Limit,      \* Settings.MaxRunHistory
    MaxOps,     \* bound: how many updates and recordings there are
    MaxCrashes  \* bound: how many processes are killed

ASSUME StoreAssumption ==
    /\ ProcessOf \in [Threads -> Processes] /\ Recorders \subseteq Threads
    /\ None \notin Threads \cup Seq(1..MaxOps)
    /\ {Limit, MaxOps, MaxCrashes} \subseteq Nat

VARIABLES
    file,      \* the documents on the disk; None before the first save
    history,   \* history.jsonl
    flock,     \* who holds the lock on .lock
    writeMu,   \* Store.writeMu of every process
    mu,        \* Store.mu of every process
    ops,       \* what every goroutine is in the middle of
    begun,     \* how many operations were begun
    crashes,   \* how many processes were killed
    acked      \* history: the changes whose caller got no error

store == <<file, history, flock, writeMu, mu, ops, begun, crashes, acked>>

Idle == [pc |-> "idle"]
Changes == 1..MaxOps
Statuses == {"running", "finished"}
Line == [run : RunIds, status : Statuses]

StoreInit ==
    /\ file = [d \in Docs |-> None]
    /\ history = <<>>
    /\ flock = None
    /\ writeMu = [p \in Processes |-> None] /\ mu = [p \in Processes |-> None]
    /\ ops = [t \in Threads |-> Idle]
    /\ begun = 0 /\ crashes = 0 /\ acked = {}

\* A missing file reads as an empty document.
Read(d) == IF file[d] = None THEN <<>> ELSE file[d]

At(t, pc) == ops[t].pc = pc
Goto(t, op) == ops' = [ops EXCEPT ![t] = op]
Step(t, pc) == ops' = [ops EXCEPT ![t].pc = pc]
Begin(t, op) ==
    /\ ops[t] = Idle /\ begun < MaxOps /\ begun' = begun + 1
    /\ Goto(t, op)
    /\ UNCHANGED <<file, history, flock, writeMu, mu, crashes, acked>>

-----------------------------------------------------------------------------
(* UpdateConfig, UpdateState, jsonList.update, MigrateConfig.              *)

BeginUpdate(t, d) ==
    Begin(t, [pc |-> "writeMu", doc |-> d, change |-> begun + 1,
              content |-> <<>>, ok |-> FALSE])

LockProcess(t) ==
    /\ At(t, "writeMu") /\ writeMu[ProcessOf[t]] = None
    /\ writeMu' = [writeMu EXCEPT ![ProcessOf[t]] = t]
    /\ Step(t, "flock")
    /\ UNCHANGED <<file, history, flock, mu, begun, crashes, acked>>

FlockUnasked(t) == TRUE
FlockFree(t) == flock = None
LockFile(t) ==
    /\ At(t, "flock") /\ FlockFree(t)
    /\ flock' = t
    /\ Step(t, "load")
    /\ UNCHANGED <<file, history, writeMu, mu, begun, crashes, acked>>

\* The document is read, and the change applied to what was read; or refused,
\* and then nothing is saved.
Load(t) ==
    /\ At(t, "load") /\ mu[ProcessOf[t]] = None
    /\ \/ ops' = [ops EXCEPT ![t].pc = "save",
                             ![t].content = Append(Read(ops[t].doc), ops[t].change)]
       \/ Step(t, "unlock")
    /\ UNCHANGED <<file, history, flock, writeMu, mu, begun, crashes, acked>>

\* writeAtomic: a temporary file beside the document.
WriteTemp(t) ==
    /\ At(t, "save") /\ mu[ProcessOf[t]] = None
    /\ mu' = [mu EXCEPT ![ProcessOf[t]] = t]
    /\ Step(t, "rename")
    /\ UNCHANGED <<file, history, flock, writeMu, begun, crashes, acked>>

\* It takes the place of the document in one step, or fails to.
Rename(t) ==
    /\ At(t, "rename")
    /\ \E ok \in BOOLEAN :
         /\ file' = IF ok THEN [file EXCEPT ![ops[t].doc] = ops[t].content] ELSE file
         /\ ops' = [ops EXCEPT ![t].pc = "unlock", ![t].ok = ok]
    /\ mu' = [mu EXCEPT ![ProcessOf[t]] = None]
    /\ UNCHANGED <<history, flock, writeMu, begun, crashes, acked>>

Unlock(t) ==
    /\ At(t, "unlock")
    /\ flock' = None
    /\ writeMu' = [writeMu EXCEPT ![ProcessOf[t]] = None]
    /\ acked' = IF ops[t].ok THEN acked \union {ops[t].change} ELSE acked
    /\ Goto(t, Idle)
    /\ UNCHANGED <<file, history, mu, begun, crashes>>

-----------------------------------------------------------------------------
(* The history.                                                            *)

LatestRuns(log) ==
    LET seen == FoldLeft(LAMBDA ids, e :
                   IF Contains(ids, e.run) THEN ids ELSE Append(ids, e.run), <<>>, log)
    IN [i \in DOMAIN seen |->
          log[SelectLastInSeq(log, LAMBDA e : e.run = seen[i])]]

\* AppendRun: the file is opened for appending, written to and closed.
AppendRun(t, e) == Begin(t, [pc |-> "append", line |-> e])
AppendLine(t) ==
    /\ At(t, "append") /\ mu[ProcessOf[t]] = None
    /\ history' = Append(history, ops[t].line)
    /\ Goto(t, Idle)
    /\ UNCHANGED <<file, flock, writeMu, mu, begun, crashes, acked>>

\* PruneHistory: read whole, and rewritten when there are too many runs.
PruneHistory(t) == Begin(t, [pc |-> "prune"])
PruneRead(t) ==
    /\ At(t, "prune") /\ mu[ProcessOf[t]] = None
    /\ LET runs == LatestRuns(history) IN
         IF Len(runs) > Limit
         THEN /\ mu' = [mu EXCEPT ![ProcessOf[t]] = t]
              /\ Goto(t, [pc |-> "rewrite",
                          kept |-> SubSeq(runs, Len(runs) - Limit + 1, Len(runs))])
         ELSE Goto(t, Idle) /\ UNCHANGED mu
    /\ UNCHANGED <<file, history, flock, writeMu, begun, crashes, acked>>
PruneRename(t) ==
    /\ At(t, "rewrite")
    /\ history' \in {ops[t].kept, history}
    /\ mu' = [mu EXCEPT ![ProcessOf[t]] = None]
    /\ Goto(t, Idle)
    /\ UNCHANGED <<file, flock, writeMu, begun, crashes, acked>>

-----------------------------------------------------------------------------
\* A process is killed: its goroutines and mutexes are gone, the kernel lets
\* go of its lock, and another process may take its place.
FlockKept(p) == flock
FlockLeft(p) == IF flock # None /\ ProcessOf[flock] = p THEN None ELSE flock
Killed(p) ==
    /\ crashes < MaxCrashes /\ crashes' = crashes + 1
    /\ \E t \in Threads : ProcessOf[t] = p /\ ops[t] # Idle
    /\ ops' = [t \in Threads |-> IF ProcessOf[t] = p THEN Idle ELSE ops[t]]
    /\ writeMu' = [writeMu EXCEPT ![p] = None] /\ mu' = [mu EXCEPT ![p] = None]
    /\ flock' = FlockLeft(p)
    /\ UNCHANGED <<file, history, begun, acked>>

Steps(t) ==
    \/ LockProcess(t) \/ LockFile(t) \/ Load(t) \/ WriteTemp(t) \/ Rename(t) \/ Unlock(t)
    \/ AppendLine(t) \/ PruneRead(t) \/ PruneRename(t)
StoreNext ==
    \/ \E t \in Threads : Steps(t) \/ \E d \in Docs : BeginUpdate(t, d)
    \/ \E t \in Recorders : PruneHistory(t) \/ \E e \in Line : AppendRun(t, e)
    \/ \E p \in Processes : Killed(p)

-----------------------------------------------------------------------------
(* Properties                                                              *)

\* The files are what AtomicStore promises, with the changes a reader finds in
\* a document: no update is lost to another one, of the same process or of
\* another, nor half made by a crash, and what was acknowledged is on the disk.
Promise == INSTANCE AtomicStore WITH
    docs <- [d \in Docs |-> Read(d)], Lines <- Line
KeepsItsPromise == Promise!Spec

\* Nobody waits for a lock for good, whatever process is killed with it.
UpdatesReturn == \A t \in Threads : ops[t] # Idle ~> ops[t] = Idle
=============================================================================
