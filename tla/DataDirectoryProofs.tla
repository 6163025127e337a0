------------------------ MODULE DataDirectoryProofs -------------------------
(***************************************************************************)
(* The data directory, for any number of processes, goroutines, documents, *)
(* updates and crashes: its files are what AtomicStore promises, and when  *)
(* an installation changes hands the operator's data stays in one place    *)
(* and is moved while nothing writes to it.                                *)
(***************************************************************************)
EXTENDS DataDirectory, TLAPS

-----------------------------------------------------------------------------
\* What a goroutine may be in the middle of.

UpdateOp == [pc : {"writeMu", "flock", "load", "save", "rename", "unlock"},
             doc : Docs, change : Changes, content : Seq(Changes), ok : BOOLEAN]

Updating(t) == ops[t] \in UpdateOp
Locked(t)   == Updating(t) /\ ops[t].pc \in {"load", "save", "rename", "unlock"}

\* An operation is an update, a line to append, or a pruning.
OpOK(t) ==
  \/ ops[t] = Idle
  \/ Updating(t)
  \/ /\ t \in Recorders
     /\ \/ \E e \in Line : ops[t] = [pc |-> "append", line |-> e]
        \/ ops[t] = [pc |-> "prune"]
        \/ ops[t] = [pc |-> "rewrite", kept |-> ops[t].kept]

\* Who is between the file lock and its release holds it, and who writes a
\* temporary file holds the mutex of its process.
LocksHeld(t) ==
  /\ Locked(t) => flock = t
  /\ ops[t].pc \in {"rename", "rewrite"} => mu[ProcessOf[t]] = t

\* What is about to be saved is the document as it is, with one more change: it
\* has not been read too early.
ContentFresh(t) ==
  Updating(t) /\ ops[t].pc \in {"save", "rename"}
    => ops[t].content = Append(Read(ops[t].doc), ops[t].change)

\* A change is in no document before it is made, and in its own once it is
\* reported as made.
ChangeNew(t) ==
  Updating(t) =>
    /\ ops[t].change <= begun
    /\ ops[t].pc # "unlock" => \A d \in Docs : ~Contains(Read(d), ops[t].change)

ChangeMade(t) ==
  Updating(t) /\ ops[t].ok => ops[t].pc = "unlock" /\ Contains(Read(ops[t].doc), ops[t].change)

\* What is about to be rewritten is the history as it is.
KeptFresh(t) ==
  ops[t].pc = "rewrite" =>
    LET runs == LatestRuns(history)
    IN /\ Len(runs) > Limit
       /\ ops[t].kept = SubSeq(runs, Len(runs) - Limit + 1, Len(runs))

GoodOp(t) ==
  /\ OpOK(t) /\ LocksHeld(t) /\ ContentFresh(t)
  /\ ChangeNew(t) /\ ChangeMade(t) /\ KeptFresh(t)

\* A change has one goroutine that makes it.
OneMaker ==
  \A t, u \in Threads : t # u /\ Updating(t) /\ Updating(u) => ops[t].change # ops[u].change

FilesOK ==
  /\ file \in [Docs -> Seq(Changes) \cup {None}]
  /\ \A d \in Docs, c \in Changes : Contains(Read(d), c) => c <= begun

StoreInv ==
  /\ DOMAIN ops = Threads /\ DOMAIN mu = Processes /\ begun \in 0..MaxOps
  /\ FilesOK /\ OneMaker /\ \A t \in Threads : GoodOp(t)

-----------------------------------------------------------------------------
\* What the steps have in common.

LEMMA ContainsAppend ==
  ASSUME NEW s \in Seq(Changes), NEW c \in Changes, NEW x
  PROVE  Contains(Append(s, c), x) <=> Contains(s, x) \/ x = c
BY DEF Contains

LEMMA ReadType == StoreInv => \A d \in Docs : Read(d) \in Seq(Changes)
BY DEF StoreInv, FilesOK, Read

\* A goroutine that goes on, begins or ends while the files stay as they are
\* leaves the others as they were, if it takes no lock away from them.
LEMMA OthersStay ==
  ASSUME StoreInv, NEW t \in Threads,
         DOMAIN ops' = Threads, \A u \in Threads \ {t} : ops'[u] = ops[u],
         UNCHANGED <<file, history>>, begun' \in begun .. MaxOps, DOMAIN mu' = Processes,
         \A u \in Threads \ {t} : Locked(u) => flock' = flock,
         \A u \in Threads \ {t} : mu[ProcessOf[u]] = u => mu'[ProcessOf[u]] = u,
         GoodOp(t)',
         \/ begun' > begun /\ ops'[t].change = begun'
         \/ Updating(t)' => Updating(t) /\ ops'[t].change = ops[t].change
  PROVE  StoreInv'
<1>1. begun \in Nat /\ begun' \in Nat /\ MaxOps \in Nat
  BY StoreAssumption DEF StoreInv
<1>2. FilesOK'
  BY <1>1 DEF StoreInv, FilesOK, Read, Changes
<1>3. ASSUME NEW u \in Threads, u # t  PROVE GoodOp(u)'
  <2>1. ops'[u] = ops[u] /\ GoodOp(u)
    BY <1>3 DEF StoreInv
  <2>2. OpOK(u)' /\ LocksHeld(u)' /\ ContentFresh(u)' /\ ChangeMade(u)' /\ KeptFresh(u)'
    BY <1>3, <2>1 DEF GoodOp, OpOK, LocksHeld, ContentFresh, ChangeMade, KeptFresh, Updating,
                      Locked, Read
  <2>3. ChangeNew(u)'
    BY <1>1, <2>1 DEF GoodOp, ChangeNew, Updating, Read, UpdateOp, Changes
  <2> QED  BY <2>2, <2>3 DEF GoodOp
<1>4. OneMaker'
  <2>1. ASSUME NEW u \in Threads, u # t, Updating(u)', Updating(t)'
        PROVE  ops'[u].change # ops'[t].change
    <3>1. ops'[u] = ops[u] /\ Updating(u) /\ ops[u].change <= begun /\ ops[u].change \in Nat
      BY <2>1 DEF StoreInv, GoodOp, ChangeNew, Updating, UpdateOp, Changes
    <3> QED  BY <1>1, <2>1, <3>1 DEF StoreInv, OneMaker
  <2> QED  BY <2>1 DEF StoreInv, OneMaker, Updating
<1> QED  BY <1>1, <1>2, <1>3, <1>4 DEF StoreInv

-----------------------------------------------------------------------------
\* StoreInv is inductive, provided the history is written by one process.

OneHistorian == \A r, s \in Recorders : ProcessOf[r] = ProcessOf[s]

LEMMA StoreInvInit == StoreInit => StoreInv
<1> SUFFICES ASSUME StoreInit  PROVE StoreInv
  OBVIOUS
<1>1. /\ DOMAIN ops = Threads /\ DOMAIN mu = Processes /\ begun \in 0..MaxOps
      /\ \A t \in Threads : ops[t] = Idle /\ Idle.pc = "idle"
  BY StoreAssumption DEF StoreInit, Idle
<1>2. ~(Idle \in UpdateOp)
  BY DEF Idle, UpdateOp
<1>3. FilesOK
  BY DEF StoreInit, FilesOK, Read, Contains
<1> QED  BY <1>1, <1>2, <1>3
         DEF StoreInv, GoodOp, OneMaker, OpOK, LocksHeld, ContentFresh, ChangeNew, ChangeMade,
             KeptFresh, Updating, Locked

LEMMA BeginKeeps ==
  ASSUME StoreInv, NEW t \in Threads, NEW op, Begin(t, op),
         \/ op \in UpdateOp /\ op.pc = "writeMu" /\ op.change = begun + 1 /\ ~op.ok
         \/ /\ t \in Recorders
            /\ op = [pc |-> "prune"] \/ \E e \in Line : op = [pc |-> "append", line |-> e]
  PROVE  StoreInv'
<1> USE StoreAssumption DEF StoreInv
<1>1. /\ ops' = [ops EXCEPT ![t] = op] /\ begun < MaxOps /\ begun' = begun + 1
      /\ UNCHANGED <<file, history, flock, mu>>
  BY DEF Begin, Goto
<1>2. begun \in Nat /\ begun' \in 1..MaxOps /\ begun' \in begun .. MaxOps /\ begun' > begun
  BY <1>1
<1>3. ops'[t] = op
  BY <1>1
<1>4. CASE op \in UpdateOp /\ op.pc = "writeMu" /\ op.change = begun + 1 /\ ~op.ok
  <2>1. \A d \in Docs : ~Contains(Read(d), begun + 1)
    BY <1>2 DEF FilesOK, Changes
  <2>2. GoodOp(t)'
    BY <1>1, <1>2, <1>3, <1>4, <2>1
       DEF GoodOp, OpOK, LocksHeld, ContentFresh, ChangeNew, ChangeMade, KeptFresh, Updating,
           Locked, Read
  <2> QED  BY <1>1, <1>2, <1>3, <1>4, <2>2, OthersStay
<1>5. CASE /\ t \in Recorders
           /\ op = [pc |-> "prune"] \/ \E e \in Line : op = [pc |-> "append", line |-> e]
  <2>1. op \notin UpdateOp /\ op.pc \in {"prune", "append"}
    BY <1>5 DEF UpdateOp
  <2>2. GoodOp(t)'
    BY <1>3, <1>5, <2>1
       DEF GoodOp, OpOK, LocksHeld, ContentFresh, ChangeNew, ChangeMade, KeptFresh, Updating, Locked
  <2> QED  BY <1>1, <1>2, <1>3, <2>1, <2>2, OthersStay DEF Updating
<1> QED  BY <1>4, <1>5

\* An update that is over, or gives up, leaves nothing behind.
LEMMA IdleIsGood ==
  ASSUME NEW t \in Threads, ops'[t] = Idle
  PROVE  GoodOp(t)' /\ ~Updating(t)'
<1>1. Idle \notin UpdateOp /\ Idle.pc = "idle"
  BY DEF Idle, UpdateOp
<1> QED  BY <1>1 DEF GoodOp, OpOK, LocksHeld, ContentFresh, ChangeNew, ChangeMade, KeptFresh,
                     Updating, Locked

\* An operation that is at a point of an update is an update.
LEMMA UpdateAt ==
  ASSUME StoreInv, NEW t \in Threads,
         ops[t].pc \in {"writeMu", "flock", "load", "save", "rename", "unlock"}
  PROVE  Updating(t) /\ GoodOp(t)
BY DEF StoreInv, GoodOp, OpOK, Idle

LEMMA UpdateKeeps ==
  ASSUME StoreInv, NEW t \in Threads,
         LockProcess(t) \/ LockFile(t) \/ Load(t) \/ WriteTemp(t) \/ Unlock(t)
  PROVE  StoreInv'
<1> USE StoreAssumption
<1>0. /\ DOMAIN ops = Threads /\ DOMAIN mu = Processes /\ begun \in begun .. MaxOps
      /\ ProcessOf[t] \in Processes
  BY DEF StoreInv
<1>u. Updating(t) /\ GoodOp(t)
  BY UpdateAt DEF LockProcess, LockFile, Load, WriteTemp, Unlock, At
<1>1. CASE LockProcess(t)
  <2>1. ops' = [ops EXCEPT ![t].pc = "flock"] /\ UNCHANGED <<file, history, flock, mu, begun>>
    BY <1>1 DEF LockProcess, Step
  <2>2. /\ ops'[t] = [ops[t] EXCEPT !.pc = "flock"] /\ ops[t].pc = "writeMu"
        /\ \A u \in Threads \ {t} : ops'[u] = ops[u]
    BY <1>0, <1>1, <2>1 DEF LockProcess, At
  <2>3. GoodOp(t)' /\ ops'[t].change = ops[t].change
    BY <1>u, <2>1, <2>2 DEF GoodOp, OpOK, LocksHeld, ContentFresh, ChangeNew, ChangeMade, KeptFresh,
                            Updating, Locked, UpdateOp, Read
  <2> QED  BY <1>0, <1>u, <2>1, <2>2, <2>3, OthersStay
<1>2. CASE LockFile(t)
  <2>1. /\ ops' = [ops EXCEPT ![t].pc = "load"] /\ UNCHANGED <<file, history, mu, begun>>
        /\ flock' = t /\ flock = None
    BY <1>2 DEF LockFile, Step, FlockFree
  <2>2. /\ ops'[t] = [ops[t] EXCEPT !.pc = "load"] /\ ops[t].pc = "flock"
        /\ \A u \in Threads \ {t} : ops'[u] = ops[u]
    BY <1>0, <1>2, <2>1 DEF LockFile, At
  <2>3. GoodOp(t)' /\ ops'[t].change = ops[t].change
    BY <1>u, <2>1, <2>2 DEF GoodOp, OpOK, LocksHeld, ContentFresh, ChangeNew, ChangeMade, KeptFresh,
                            Updating, Locked, UpdateOp, Read
  <2>4. \A u \in Threads : ~Locked(u)
    BY <2>1 DEF StoreInv, GoodOp, LocksHeld
  <2> QED  BY <1>0, <1>u, <2>1, <2>2, <2>3, <2>4, OthersStay
<1>3. CASE Load(t)
  <2>1. /\ UNCHANGED <<file, history, flock, mu, begun>> /\ ops[t].pc = "load"
        /\ \/ ops' = [ops EXCEPT ![t].pc = "save",
                                 ![t].content = Append(Read(ops[t].doc), ops[t].change)]
           \/ ops' = [ops EXCEPT ![t].pc = "unlock"]
    BY <1>3 DEF Load, Step, At
  <2>2. \A u \in Threads \ {t} : ops'[u] = ops[u]
    BY <1>0, <2>1
  <2>3. Append(Read(ops[t].doc), ops[t].change) \in Seq(Changes)
    BY <1>u, ReadType DEF Updating, UpdateOp
  <2>4. /\ Updating(t)' /\ ops'[t].pc \in {"save", "unlock"} /\ ~ops'[t].ok
        /\ ops'[t].doc = ops[t].doc /\ ops'[t].change = ops[t].change
        /\ ops'[t].pc = "save" => ops'[t].content = Append(Read(ops[t].doc), ops[t].change)
    <3>1. ops[t] \in UpdateOp /\ ~ops[t].ok
      BY <1>u, <2>1 DEF Updating, GoodOp, ChangeMade
    <3>2. CASE ops' = [ops EXCEPT ![t].pc = "unlock"]
      <4>1. ops'[t] = [ops[t] EXCEPT !.pc = "unlock"]
        BY <1>0, <3>2
      <4> QED  BY <3>1, <4>1 DEF Updating, UpdateOp
    <3>3. CASE ops' = [ops EXCEPT ![t].pc = "save",
                                  ![t].content = Append(Read(ops[t].doc), ops[t].change)]
      <4> DEFINE new == Append(Read(ops[t].doc), ops[t].change)
      <4>1. new \in Seq(Changes) /\ ops'[t] = [ops[t] EXCEPT !.pc = "save", !.content = new]
        BY <1>0, <2>3, <3>3
      <4> HIDE DEF new
      <4>2. /\ ops'[t] \in UpdateOp /\ ops'[t].pc = "save" /\ ~ops'[t].ok
            /\ ops'[t].doc = ops[t].doc /\ ops'[t].change = ops[t].change /\ ops'[t].content = new
        BY <3>1, <4>1 DEF UpdateOp
      <4> QED  BY <4>2 DEF new, Updating
    <3> QED  BY <2>1, <3>2, <3>3
  <2>5. GoodOp(t)'
    BY <1>u, <2>1, <2>4 DEF GoodOp, OpOK, LocksHeld, ContentFresh, ChangeNew, ChangeMade, KeptFresh,
                            Locked, Updating, Read
  <2> QED  BY <1>0, <1>u, <2>1, <2>2, <2>4, <2>5, OthersStay
<1>4. CASE WriteTemp(t)
  <2>1. /\ ops' = [ops EXCEPT ![t].pc = "rename"] /\ UNCHANGED <<file, history, flock, begun>>
        /\ mu' = [mu EXCEPT ![ProcessOf[t]] = t] /\ mu[ProcessOf[t]] = None
    BY <1>4 DEF WriteTemp, Step
  <2>2. /\ ops'[t] = [ops[t] EXCEPT !.pc = "rename"] /\ ops[t].pc = "save"
        /\ \A u \in Threads \ {t} : ops'[u] = ops[u]
        /\ mu'[ProcessOf[t]] = t /\ DOMAIN mu' = Processes
        /\ \A p \in Processes : p # ProcessOf[t] => mu'[p] = mu[p]
    BY <1>0, <1>4, <2>1 DEF WriteTemp, At
  <2>3. GoodOp(t)' /\ ops'[t].change = ops[t].change
    BY <1>u, <2>1, <2>2 DEF GoodOp, OpOK, LocksHeld, ContentFresh, ChangeNew, ChangeMade, KeptFresh,
                            Updating, Locked, UpdateOp, Read
  <2>4. \A u \in Threads : mu[ProcessOf[u]] = u => mu'[ProcessOf[u]] = u
    BY <2>1, <2>2
  <2> QED  BY <1>0, <1>u, <2>1, <2>2, <2>3, <2>4, OthersStay
<1>5. CASE Unlock(t)
  <2>1. /\ ops' = [ops EXCEPT ![t] = Idle] /\ UNCHANGED <<file, history, mu, begun>>
        /\ ops[t].pc = "unlock"
    BY <1>5 DEF Unlock, Goto, At
  <2>2. \A u \in Threads \ {t} : ops'[u] = ops[u] /\ ~Locked(u)
    <3>1. flock = t
      BY <1>u, <2>1 DEF GoodOp, LocksHeld, Locked
    <3> QED  BY <2>1, <3>1 DEF StoreInv, GoodOp, LocksHeld
  <2>3. GoodOp(t)' /\ ~Updating(t)'
    BY <1>0, <2>1, IdleIsGood
  <2> QED  BY <1>0, <2>1, <2>2, <2>3, OthersStay
<1> QED  BY <1>1, <1>2, <1>3, <1>4, <1>5

\* The document takes the change, and only this goroutine was between its load
\* and its release.
LEMMA RenameKeeps ==
  ASSUME StoreInv, NEW t \in Threads, Rename(t)
  PROVE  StoreInv'
<1> USE StoreAssumption
<1> DEFINE doc == ops[t].doc
           change == ops[t].change
<1>0. /\ DOMAIN ops = Threads /\ DOMAIN mu = Processes /\ begun \in Nat
      /\ ProcessOf \in [Threads -> Processes]
      /\ Updating(t) /\ GoodOp(t) /\ ops[t].pc = "rename" /\ doc \in Docs /\ change \in Changes
  <2>1. ops[t].pc = "rename"
    BY DEF Rename, At
  <2>2. Updating(t) /\ GoodOp(t)
    BY <2>1, UpdateAt
  <2> QED  BY <2>1, <2>2 DEF StoreInv, Updating, UpdateOp
<1>1. PICK ok \in BOOLEAN :
        /\ file' = IF ok THEN [file EXCEPT ![doc] = ops[t].content] ELSE file
        /\ ops' = [ops EXCEPT ![t].pc = "unlock", ![t].ok = ok]
  BY DEF Rename
<1>2. /\ mu' = [mu EXCEPT ![ProcessOf[t]] = None] /\ UNCHANGED <<history, flock, begun>>
      /\ flock = t /\ mu[ProcessOf[t]] = t
  BY <1>0 DEF Rename, GoodOp, LocksHeld, Locked
<1>3. /\ Read(doc) \in Seq(Changes) /\ ops[t].content = Append(Read(doc), change)
      /\ ops[t].content \in Seq(Changes) /\ ops[t].content # None /\ ~ops[t].ok
      /\ change <= begun /\ \A d \in Docs : ~Contains(Read(d), change)
  BY <1>0, ReadType DEF GoodOp, ContentFresh, ChangeNew, ChangeMade, Updating, UpdateOp, Changes
<1>4. /\ ops'[t] = [ops[t] EXCEPT !.pc = "unlock", !.ok = ok] /\ DOMAIN ops' = Threads
      /\ \A u \in Threads \ {t} : ops'[u] = ops[u]
  BY <1>0, <1>1
<1>5. /\ Updating(t)' /\ ops'[t].pc = "unlock" /\ ops'[t].doc = doc
      /\ ops'[t].change = change /\ (ops'[t].ok <=> ok)
  BY <1>0, <1>4 DEF Updating, UpdateOp
<1>6. /\ file' \in [Docs -> Seq(Changes) \cup {None}]
      /\ \A d \in Docs : Read(d)' = IF ok /\ d = doc THEN Append(Read(d), change) ELSE Read(d)
  BY <1>0, <1>1, <1>3 DEF StoreInv, FilesOK, Read
<1>7. \A d \in Docs, x \in Changes :
        Contains(Read(d), x)' <=> Contains(Read(d), x) \/ (ok /\ d = doc /\ x = change)
  <2>1. \A d \in Docs : Read(d) \in Seq(Changes)
    BY ReadType
  <2>2. ASSUME NEW d \in Docs, NEW x \in Changes
        PROVE  Contains(Append(Read(d), change), x) <=> Contains(Read(d), x) \/ x = change
    BY <1>0, <2>1, ContainsAppend
  <2>3. ASSUME NEW d \in Docs, NEW x \in Changes, NEW s, s = Read(d)'
        PROVE  Contains(s, x) <=> Contains(Read(d), x) \/ (ok /\ d = doc /\ x = change)
    <3>1. CASE ok /\ d = doc
      <4>1. s = Append(Read(d), change)
        BY <1>6, <2>3, <3>1
      <4> QED  BY <2>2, <3>1, <4>1
    <3>2. CASE ~(ok /\ d = doc)
      <4>1. s = Read(d)
        BY <1>6, <2>3, <3>2
      <4> QED  BY <3>2, <4>1
    <3> QED  BY <3>1, <3>2
  <2> QED  BY <2>3 DEF Contains
<1> HIDE DEF doc, change
<1>8. FilesOK'
  BY <1>2, <1>3, <1>6, <1>7 DEF StoreInv, FilesOK
<1>9. GoodOp(t)'
  BY <1>0, <1>2, <1>3, <1>5, <1>7
     DEF GoodOp, OpOK, LocksHeld, ContentFresh, ChangeNew, ChangeMade, KeptFresh, Locked
<1>10. ASSUME NEW u \in Threads, u # t  PROVE GoodOp(u)'
  <2>1. ops'[u] = ops[u] /\ GoodOp(u) /\ ~Locked(u)
    BY <1>2, <1>4, <1>10 DEF StoreInv, GoodOp, LocksHeld
  <2>2. ops[u].pc \notin {"rename", "rewrite"} \/ ProcessOf[u] # ProcessOf[t]
    BY <1>2, <1>10, <2>1 DEF GoodOp, LocksHeld
  <2>3. \A p \in Processes : p # ProcessOf[t] => mu'[p] = mu[p]
    BY <1>0, <1>2
  <2>4. LocksHeld(u)'
    BY <1>0, <2>1, <2>2, <2>3 DEF GoodOp, LocksHeld, Locked, Updating
  <2>5. OpOK(u)' /\ KeptFresh(u)'
    BY <1>2, <2>1 DEF GoodOp, OpOK, KeptFresh, Updating
  <2>6. ContentFresh(u)' /\ ChangeMade(u)'
    BY <2>1 DEF GoodOp, ContentFresh, ChangeMade, Updating, Locked
  <2>7. ChangeNew(u)'
    <3>1. Updating(u) => ops[u].change # change /\ ops[u].change \in Changes
      BY <1>0, <1>10 DEF StoreInv, OneMaker, Updating, UpdateOp, change
    <3> QED  BY <1>2, <1>7, <2>1, <3>1 DEF GoodOp, ChangeNew, Updating
  <2> QED  BY <2>4, <2>5, <2>6, <2>7 DEF GoodOp
<1>11. OneMaker'
  <2>1. \A u \in Threads : Updating(u)' => Updating(u) /\ ops'[u].change = ops[u].change
    BY <1>0, <1>4, <1>5 DEF Updating, change
  <2> QED  BY <2>1 DEF StoreInv, OneMaker
<1>12. DOMAIN ops' = Threads /\ DOMAIN mu' = Processes /\ begun' \in 0..MaxOps
  BY <1>2, <1>4 DEF StoreInv
<1> QED  BY <1>8, <1>9, <1>10, <1>11, <1>12 DEF StoreInv

\* The history is read and written under the mutex of its process.
LEMMA PruneReadKeeps ==
  ASSUME StoreInv, NEW t \in Recorders, PruneRead(t)
  PROVE  StoreInv'
<1> USE StoreAssumption
<1> DEFINE runs == LatestRuns(history)
           kept == SubSeq(runs, Len(runs) - Limit + 1, Len(runs))
<1>0. /\ DOMAIN ops = Threads /\ DOMAIN mu = Processes /\ begun \in begun .. MaxOps
      /\ t \in Threads /\ ProcessOf \in [Threads -> Processes]
      /\ UNCHANGED <<file, history, flock, begun>> /\ mu[ProcessOf[t]] = None
  BY DEF StoreInv, PruneRead
<1>1. CASE Len(runs) > Limit
  <2> DEFINE op == [pc |-> "rewrite", kept |-> kept]
  <2>1. ops' = [ops EXCEPT ![t] = op] /\ mu' = [mu EXCEPT ![ProcessOf[t]] = t]
    BY <1>1 DEF PruneRead, Goto
  <2>2. /\ op \notin UpdateOp /\ op.pc = "rewrite" /\ op.kept = kept
        /\ op = [pc |-> "rewrite", kept |-> op.kept]
    BY DEF UpdateOp
  <2> HIDE DEF kept, op
  <2>3. /\ ops'[t] = op /\ \A u \in Threads \ {t} : ops'[u] = ops[u]
        /\ mu'[ProcessOf[t]] = t /\ DOMAIN mu' = Processes
        /\ \A u \in Threads : mu[ProcessOf[u]] = u => mu'[ProcessOf[u]] = u
    BY <1>0, <2>1
  <2>4. ~Updating(t)'
    BY <2>2, <2>3 DEF Updating
  <2>5. KeptFresh(t)'
    BY <1>0, <1>1, <2>2, <2>3 DEF KeptFresh, kept
  <2>6. GoodOp(t)'
    BY <2>2, <2>3, <2>4, <2>5
       DEF GoodOp, OpOK, LocksHeld, ContentFresh, ChangeNew, ChangeMade, Locked
  <2> QED  BY <1>0, <2>1, <2>3, <2>4, <2>6, OthersStay
<1>2. CASE ~(Len(runs) > Limit)
  <2>1. ops' = [ops EXCEPT ![t] = Idle] /\ mu' = mu
    BY <1>2 DEF PruneRead, Goto
  <2>2. GoodOp(t)' /\ ~Updating(t)'
    BY <1>0, <2>1, IdleIsGood
  <2> QED  BY <1>0, <2>1, <2>2, OthersStay
<1> QED  BY <1>1, <1>2

\* The history changes under the mutex of the process that writes it, so that
\* nobody is about to rewrite it; the documents stay as they are.
LEMMA HistoryKeeps ==
  ASSUME OneHistorian, StoreInv, NEW t \in Recorders, AppendLine(t) \/ PruneRename(t)
  PROVE  StoreInv'
<1> USE StoreAssumption
<1>0. /\ DOMAIN ops = Threads /\ DOMAIN mu = Processes /\ t \in Threads
      /\ ProcessOf \in [Threads -> Processes]
      /\ UNCHANGED <<file, flock, begun>> /\ ops' = [ops EXCEPT ![t] = Idle]
      /\ DOMAIN mu' = Processes /\ \A p \in Processes : p # ProcessOf[t] => mu'[p] = mu[p]
  BY DEF StoreInv, AppendLine, PruneRename, Goto
<1>1. mu[ProcessOf[t]] \in {None, t}
  BY <1>0 DEF AppendLine, PruneRename, StoreInv, GoodOp, LocksHeld, At
<1>2. DOMAIN ops' = Threads /\ \A u \in Threads \ {t} : ops'[u] = ops[u]
  BY <1>0
<1>3. GoodOp(t)' /\ ~Updating(t)'
  BY <1>0, IdleIsGood
<1>4. ASSUME NEW u \in Threads, u # t  PROVE GoodOp(u)'
  <2>1. ops'[u] = ops[u] /\ GoodOp(u)
    BY <1>2, <1>4 DEF StoreInv
  <2>2. ops[u].pc # "rewrite"
    <3>1. SUFFICES ASSUME ops[u].pc = "rewrite"  PROVE FALSE
      OBVIOUS
    <3>2. u \in Recorders /\ mu[ProcessOf[u]] = u
      BY <2>1, <3>1 DEF GoodOp, LocksHeld, OpOK, Updating, UpdateOp, Idle
    <3> QED  BY <1>1, <1>4, <3>2 DEF OneHistorian
  <2>3. LocksHeld(u)'
    <3>1. ops[u].pc = "rename" => mu'[ProcessOf[u]] = u
      <4>1. ops[u].pc = "rename" => ProcessOf[u] # ProcessOf[t]
        BY <1>1, <1>4, <2>1 DEF GoodOp, LocksHeld
      <4> QED  BY <1>0, <2>1, <4>1 DEF GoodOp, LocksHeld
    <3> QED  BY <1>0, <2>1, <2>2, <3>1 DEF GoodOp, LocksHeld, Locked, Updating
  <2>4. OpOK(u)' /\ KeptFresh(u)'
    BY <2>1, <2>2 DEF GoodOp, OpOK, KeptFresh, Updating
  <2>5. ContentFresh(u)' /\ ChangeMade(u)' /\ ChangeNew(u)'
    BY <1>0, <2>1 DEF GoodOp, ContentFresh, ChangeMade, ChangeNew, Updating, Read
  <2> QED  BY <2>3, <2>4, <2>5 DEF GoodOp
<1>5. FilesOK'
  BY <1>0 DEF StoreInv, FilesOK, Read
<1>6. OneMaker'
  BY <1>2, <1>3 DEF StoreInv, OneMaker, Updating
<1> QED  BY <1>0, <1>3, <1>4, <1>5, <1>6 DEF StoreInv

\* A process that is killed takes its goroutines and its locks along.
LEMMA KilledKeeps ==
  ASSUME StoreInv, NEW p \in Processes, Killed(p)
  PROVE  StoreInv'
<1> USE StoreAssumption
<1>1. /\ ops' = [t \in Threads |-> IF ProcessOf[t] = p THEN Idle ELSE ops[t]]
      /\ mu' = [mu EXCEPT ![p] = None] /\ UNCHANGED <<file, history, begun>>
      /\ flock' = IF flock # None /\ ProcessOf[flock] = p THEN None ELSE flock
  BY DEF Killed, FlockLeft
<1>2. \A t \in Threads : IF ProcessOf[t] = p THEN ops'[t] = Idle ELSE ops'[t] = ops[t]
  BY <1>1
<1>3. ASSUME NEW t \in Threads  PROVE GoodOp(t)' /\ (Updating(t)' => Updating(t) /\ ops'[t] = ops[t])
  <2>1. CASE ProcessOf[t] = p
    BY <1>2, <2>1, IdleIsGood
  <2>2. CASE ProcessOf[t] # p
    <3>1. ops'[t] = ops[t] /\ GoodOp(t)
      BY <1>2, <2>2 DEF StoreInv
    <3>2. LocksHeld(t)'
      <4>1. mu'[ProcessOf[t]] = mu[ProcessOf[t]]
        BY <1>1, <2>2 DEF StoreInv
      <4>2. flock = t => flock' = t
        BY <1>1, <2>2
      <4> QED  BY <3>1, <4>1, <4>2 DEF GoodOp, LocksHeld, Locked, Updating
    <3>3. OpOK(t)' /\ ContentFresh(t)' /\ ChangeNew(t)' /\ ChangeMade(t)' /\ KeptFresh(t)'
      BY <1>1, <3>1 DEF GoodOp, OpOK, ContentFresh, ChangeNew, ChangeMade, KeptFresh, Updating, Read
    <3> QED  BY <3>1, <3>2, <3>3 DEF GoodOp, Updating
  <2> QED  BY <2>1, <2>2
<1>4. FilesOK'
  BY <1>1 DEF StoreInv, FilesOK, Read
<1>5. OneMaker'
  BY <1>3 DEF StoreInv, OneMaker
<1>6. DOMAIN ops' = Threads /\ DOMAIN mu' = Processes /\ begun' \in 0..MaxOps
  BY <1>1 DEF StoreInv
<1> QED  BY <1>3, <1>4, <1>5, <1>6 DEF StoreInv

\* Who writes a line, or prunes, is a recorder.
LEMMA HistorySteps ==
  ASSUME StoreInv, NEW t \in Threads, AppendLine(t) \/ PruneRead(t) \/ PruneRename(t)
  PROVE  t \in Recorders
BY DEF StoreInv, GoodOp, OpOK, Updating, UpdateOp, Idle, AppendLine, PruneRead, PruneRename, At

LEMMA StoreInvStep ==
  ASSUME OneHistorian, StoreInv, [StoreNext]_store
  PROVE  StoreInv'
<1>1. CASE UNCHANGED store
  BY <1>1 DEF store, StoreInv, FilesOK, OneMaker, GoodOp, OpOK, LocksHeld, ContentFresh, ChangeNew,
              ChangeMade, KeptFresh, Updating, Locked, Read
<1>2. ASSUME NEW t \in Threads, Steps(t)  PROVE StoreInv'
  BY <1>2, HistorySteps, UpdateKeeps, RenameKeeps, PruneReadKeeps, HistoryKeeps DEF Steps
<1>3. ASSUME NEW t \in Threads, NEW d \in Docs, BeginUpdate(t, d)  PROVE StoreInv'
  <2> DEFINE op == [pc |-> "writeMu", doc |-> d, change |-> begun + 1,
                    content |-> <<>>, ok |-> FALSE]
  <2>1. Begin(t, op) /\ begun + 1 \in Changes
    BY <1>3, StoreAssumption DEF BeginUpdate, Begin, StoreInv, Changes
  <2>2. op \in UpdateOp /\ op.pc = "writeMu" /\ op.change = begun + 1 /\ ~op.ok
    BY <2>1 DEF UpdateOp
  <2> HIDE DEF op
  <2> QED  BY <2>1, <2>2, BeginKeeps
<1>4. ASSUME NEW t \in Recorders, PruneHistory(t) \/ \E e \in Line : AppendRun(t, e)
      PROVE  StoreInv'
  <2>1. t \in Threads
    BY StoreAssumption
  <2> QED  BY <1>4, <2>1, BeginKeeps DEF PruneHistory, AppendRun
<1> QED  BY <1>1, <1>2, <1>3, <1>4, KilledKeeps DEF StoreNext

-----------------------------------------------------------------------------
\* Every step is one of AtomicStore's, or changes nothing a reader sees.

Documents == [d \in Docs |-> Read(d)]
Visible   == <<Documents, acked, history>>

\* Both modules collapse the history alike.
LEMMA SameCollapse == \A log : LatestRuns(log) = Promise!Collapsed(log)
BY DEF LatestRuns, FoldLeft, MapThenFoldSet, Contains, SelectLastInSeq, Max,
       Promise!Collapsed, Promise!RunsOf, Promise!FoldLeft, Promise!MapThenFoldSet,
       Promise!Contains, Promise!SelectLastInSeq, Promise!Max

LEMMA RenameCommits ==
  ASSUME StoreInv, NEW t \in Threads, Rename(t)
  PROVE  Promise!Commit(ops[t].doc, ops[t].change) \/ UNCHANGED Visible
<1>1. ops[t].pc = "rename"
  BY DEF Rename, At
<1>2. Updating(t) /\ GoodOp(t)
  BY <1>1, UpdateAt
<1>3. /\ ops[t].doc \in Docs /\ ops[t].content = Append(Read(ops[t].doc), ops[t].change)
      /\ ops[t].content \in Seq(Changes) /\ ~Contains(Read(ops[t].doc), ops[t].change)
  BY <1>1, <1>2 DEF GoodOp, ContentFresh, ChangeNew, Updating, UpdateOp
<1>4. ops[t].content # None /\ file \in [Docs -> Seq(Changes) \cup {None}]
  BY <1>3, StoreAssumption DEF StoreInv, FilesOK, Changes
<1>5. CASE file' = [file EXCEPT ![ops[t].doc] = ops[t].content]
  <2>1. Documents' = [Documents EXCEPT ![ops[t].doc] = Append(@, ops[t].change)]
    BY <1>3, <1>4, <1>5 DEF Documents, Read
  <2>2. ~Promise!Contains(Documents[ops[t].doc], ops[t].change)
    BY <1>3 DEF Documents, Contains, Promise!Contains
  <2>3. UNCHANGED <<acked, history>>
    BY DEF Rename
  <2> QED  BY <2>1, <2>2, <2>3 DEF Promise!Commit, Documents
<1>6. CASE file' = file
  BY <1>6 DEF Rename, Visible, Documents, Read
<1> QED  BY <1>5, <1>6 DEF Rename

LEMMA UnlockAcknowledges ==
  ASSUME StoreInv, NEW t \in Threads, Unlock(t)
  PROVE  Promise!Acknowledge(ops[t].doc, ops[t].change) \/ UNCHANGED Visible
<1>1. ops[t].pc = "unlock"
  BY DEF Unlock, At
<1>2. Updating(t) /\ GoodOp(t)
  BY <1>1, UpdateAt
<1>3. UNCHANGED <<Documents, history>>
  BY DEF Unlock, Documents, Read
<1>4. CASE ops[t].ok
  <2>1. Promise!Contains(Documents[ops[t].doc], ops[t].change)
    BY <1>2, <1>4 DEF GoodOp, ChangeMade, Updating, UpdateOp, Documents, Contains, Promise!Contains
  <2>2. acked' = acked \cup {ops[t].change}
    BY <1>4 DEF Unlock
  <2> QED  BY <1>3, <2>1, <2>2 DEF Promise!Acknowledge, Documents
<1>5. CASE ~ops[t].ok
  BY <1>3, <1>5 DEF Unlock, Visible
<1> QED  BY <1>4, <1>5

LEMMA HistoryStepsRefine ==
  ASSUME StoreInv, NEW t \in Recorders, AppendLine(t) \/ PruneRename(t)
  PROVE  Promise!Prune \/ (\E e \in Line : Promise!Record(e)) \/ UNCHANGED Visible
<1>0. UNCHANGED <<Documents, acked>> /\ t \in Threads
  BY StoreAssumption DEF AppendLine, PruneRename, Documents, Read
<1>1. CASE AppendLine(t)
  <2>1. PICK e \in Line : ops[t] = [pc |-> "append", line |-> e]
    BY <1>0, <1>1 DEF AppendLine, At, StoreInv, GoodOp, OpOK, Idle, Updating, UpdateOp
  <2>2. history' = Append(history, e)
    BY <1>1, <2>1 DEF AppendLine
  <2> QED  BY <1>0, <2>2 DEF Promise!Record, Documents
<1>2. CASE PruneRename(t)
  <2>1. /\ Len(LatestRuns(history)) > Limit
        /\ ops[t].kept = SubSeq(LatestRuns(history), Len(LatestRuns(history)) - Limit + 1,
                                Len(LatestRuns(history)))
    BY <1>0, <1>2 DEF PruneRename, At, StoreInv, GoodOp, KeptFresh
  <2>2. LatestRuns(history) = Promise!Collapsed(history)
    BY SameCollapse
  <2>3. history' = ops[t].kept \/ history' = history
    BY <1>2 DEF PruneRename
  <2>4. CASE history' = ops[t].kept
    BY <1>0, <2>1, <2>2, <2>4 DEF Promise!Prune, Documents
  <2> QED  BY <1>0, <2>3, <2>4 DEF Visible
<1> QED  BY <1>1, <1>2

LEMMA StoreRefines ==
  ASSUME StoreInv, [StoreNext]_store
  PROVE  Promise!Next \/ UNCHANGED Visible
<1>1. ASSUME UNCHANGED <<file, acked, history>>  PROVE UNCHANGED Visible
  BY <1>1 DEF Visible, Documents, Read
<1>2. ASSUME NEW t \in Threads, Steps(t)  PROVE Promise!Next \/ UNCHANGED Visible
  <2>1. CASE Rename(t)
    <3>1. ops[t].doc \in Docs /\ ops[t].change \in Changes
      BY <2>1, UpdateAt DEF Rename, At, Updating, UpdateOp
    <3> QED  BY <2>1, <3>1, RenameCommits DEF Promise!Next
  <2>2. CASE Unlock(t)
    <3>1. ops[t].doc \in Docs /\ ops[t].change \in Changes
      BY <2>2, UpdateAt DEF Unlock, At, Updating, UpdateOp
    <3> QED  BY <2>2, <3>1, UnlockAcknowledges DEF Promise!Next
  <2>3. CASE AppendLine(t) \/ PruneRename(t)
    BY <2>3, HistorySteps, HistoryStepsRefine DEF Promise!Next
  <2>4. CASE LockProcess(t) \/ LockFile(t) \/ Load(t) \/ WriteTemp(t) \/ PruneRead(t)
    BY <1>1, <2>4 DEF LockProcess, LockFile, Load, WriteTemp, PruneRead
  <2> QED  BY <1>2, <2>1, <2>2, <2>3, <2>4 DEF Steps
<1>3. ASSUME NEW t, NEW op, Begin(t, op)  PROVE UNCHANGED Visible
  BY <1>1, <1>3 DEF Begin
<1>4. ASSUME NEW p \in Processes, Killed(p)  PROVE UNCHANGED Visible
  BY <1>1, <1>4 DEF Killed
<1>5. CASE UNCHANGED store
  BY <1>1, <1>5 DEF store
<1> QED  BY <1>2, <1>3, <1>4, <1>5 DEF StoreNext, BeginUpdate, PruneHistory, AppendRun

\* The files of the data directory are what AtomicStore promises: a document
\* changes in whole changes, one after another, and what was acknowledged is
\* there for good, however the updates of the processes interleave, fail or are
\* killed; and the history is a log that only loses its oldest runs.  The runs are
\* recorded and pruned by one process: the mutex they are written under is not
\* shared, so that a line another process appends between the reading and the
\* rewriting of the history would be lost.
THEOREM StoreKeepsItsPromise ==
  ASSUME OneHistorian
  PROVE  Spec => KeepsItsPromise
<1>1. Init => StoreInv /\ Promise!Init
  <2>1. StoreInit => Promise!Init
    BY DEF StoreInit, Promise!Init, Read
  <2> QED  BY <2>1, StoreInvInit DEF Init
<1>2. [Next]_directory => [StoreNext]_store
  BY DEF Next, InStore, InHandover, directory
<1>3. StoreInv /\ [Next]_directory => StoreInv'
  BY <1>2, StoreInvStep
<1>4. StoreInv /\ [Next]_directory => Promise!Next \/ UNCHANGED Visible
  BY <1>2, StoreRefines
<1>5. StoreInv /\ [Next]_directory =>
        [Promise!Next]_<<[d \in Docs |-> Read(d)], acked, history>>
  BY <1>4 DEF Visible, Documents
<1> QED  BY <1>1, <1>3, <1>5, PTL DEF Spec, KeepsItsPromise, Promise!Spec

-----------------------------------------------------------------------------
\* What a handover is between: the processes and what they are up to.

OpeningPc == {"idle", "look", "look back", "move", "link", "open", "opened"}
Process   == [pc : {"off", "open", "lock", "start", "serve", "up", "drain", "close"},
              rel : Nat, agent : {"claudeq", "dispatchq", "none"}]
Install   == [pc : {"off", "takeover", "sweep", "bootout", "stop", "wait", "data",
                    "stop again", "wait again", "agent", "bootstrap", "settle",
                    "done", "failed"},
              try : {1, 2}, refused : BOOLEAN]

HandoverType ==
  /\ home \in {"none", "data", "empty"}
  /\ opening \in [Openers -> OpeningPc]
  /\ disk \in Nat /\ disk > ClaudeQ
  /\ agents \subseteq {"claudeq", "dispatchq"} /\ plists \subseteq {"claudeq", "dispatchq"}
  /\ proc \in [Daemons -> Process]
  /\ port \in Daemons \cup {NoDaemon}
  /\ inst \in [Installers -> Install]

\* Until the data has moved nobody is past looking for a place.
NobodyIsIn ==
  legacyDir = "data" =>
    home = "none" /\ \A x \in Openers : opening[x] \notin {"link", "open", "opened"}

\* An installer opens the data directory in its turn, and who has moved or opened
\* it has left one.
InTurn ==
  /\ \A i \in Installers : opening[i] # "idle" => inst[i].pc = "data"
  /\ \A x \in Openers : opening[x] \in {"link", "opened"} => home # "none"

\* A daemon of ClaudeQ is its agent's, and there is no other service while
\* DispatchQ has no directory: so it is ClaudeQ that has the port, to the end of
\* its listener.
ClaudeQAlone ==
  /\ \A d \in Daemons :
       /\ proc[d].rel = ClaudeQ
            => proc[d].pc \in {"up", "drain", "close"} /\ proc[d].agent = "claudeq"
       /\ proc[d].rel # ClaudeQ /\ home = "none" => proc[d].pc \in {"off", "open"}
       /\ proc[d].rel = ClaudeQ /\ proc[d].pc # "close" /\ home = "none" /\ SharedPort
            => port = d
  /\ port # NoDaemon => proc[port].pc \notin {"off", "open", "close"}

\* What launchd has let an installer unload does not come back in its time.
ClaudeQGone ==
  \A i \in Installers :
    ~inst[i].refused =>
      /\ inst[i].pc \in {"stop", "wait", "data"} => "claudeq" \notin agents
      /\ inst[i].pc = "data" /\ home = "none" /\ SharedPort
         => \A d \in Daemons : proc[d].rel = ClaudeQ => proc[d].pc = "close"

HandoverInv ==
  HandoverType /\ NobodyIsIn /\ InTurn /\ ClaudeQAlone /\ ClaudeQGone

LEMMA HandoverTypeInit == HandoverInit => HandoverType
<1> SUFFICES ASSUME HandoverInit PROVE HandoverType
  OBVIOUS
<1>1. PICK updated \in BOOLEAN :
        /\ home = "none" /\ disk = FirstRelease
        /\ opening = [x \in Openers |-> "idle"]
        /\ agents = IF updated THEN {"claudeq"} ELSE {}
        /\ plists = agents
        /\ LET d == CHOOSE d \in Daemons : TRUE
           IN /\ proc = [e \in Daemons |->
                           IF updated /\ e = d
                           THEN [pc |-> "up", rel |-> ClaudeQ, agent |-> "claudeq"] ELSE Off]
              /\ port = IF updated /\ SharedPort THEN d ELSE NoDaemon
        /\ inst = [i \in Installers |->
                     Starts(IF i = "package" THEN "takeover" ELSE "off", 1)]
  BY DEF HandoverInit
<1>2. (CHOOSE d \in Daemons : TRUE) \in Daemons
  BY HandoverAssumption
<1>3. opening \in [Openers -> OpeningPc]
  BY <1>1 DEF OpeningPc
<1>4. proc \in [Daemons -> Process]
  BY <1>1 DEF Process, Off, ClaudeQ
<1>5. inst \in [Installers -> Install]
  BY <1>1 DEF Install, Starts
<1> QED
  BY <1>1, <1>2, <1>3, <1>4, <1>5, HandoverAssumption DEF HandoverType, ClaudeQ

LEMMA HandoverInvInit == HandoverInit => HandoverInv
<1> SUFFICES ASSUME HandoverInit PROVE HandoverInv
  OBVIOUS
<1>1. /\ home = "none"
      /\ opening = [x \in Openers |-> "idle"]
      /\ inst = [i \in Installers |-> Starts(IF i = "package" THEN "takeover" ELSE "off", 1)]
  BY DEF HandoverInit
<1>2. NobodyIsIn /\ InTurn /\ ClaudeQGone
  BY <1>1 DEF NobodyIsIn, InTurn, ClaudeQGone, Installers, Openers, Starts
<1>3. ClaudeQAlone
  <2>1. PICK updated \in BOOLEAN :
          LET d == CHOOSE d \in Daemons : TRUE
          IN /\ proc = [e \in Daemons |->
                          IF updated /\ e = d
                          THEN [pc |-> "up", rel |-> ClaudeQ, agent |-> "claudeq"] ELSE Off]
             /\ port = IF updated /\ SharedPort THEN d ELSE NoDaemon
    BY DEF HandoverInit
  <2>2. (CHOOSE d \in Daemons : TRUE) \in Daemons
    BY HandoverAssumption
  <2> QED  BY <2>1, <2>2 DEF ClaudeQAlone, Off, ClaudeQ
<1> QED  BY <1>2, <1>3, HandoverTypeInit DEF HandoverInv

\* No daemon of ClaudeQ comes, and none that is past its listener gets it back.
StaysGone ==
  \A d \in Daemons :
    proc'[d].rel = ClaudeQ => proc[d].rel = ClaudeQ /\ (proc[d].pc = "close" => proc'[d].pc = "close")

\* A signal or an exit leaves a daemon as it was, draining, or gone.
Lesser(after, d) ==
  \/ after[d] = proc[d]
  \/ after[d] = Off
  \/ after[d] = [proc[d] EXCEPT !.pc = "drain"] /\ proc[d].pc \in {"serve", "up"}

LEMMA LesserType ==
  ASSUME HandoverType, NEW after, NEW d \in Daemons, Lesser(after, d)
  PROVE  /\ after[d] \in Process
         /\ after[d].rel = ClaudeQ
              => proc[d].rel = ClaudeQ /\ (proc[d].pc = "close" => after[d].pc = "close")
         /\ after[d].pc = "off" \/ (after[d].rel = proc[d].rel /\ after[d].agent = proc[d].agent)
         /\ after[d].pc \in {"off", "drain", proc[d].pc}
         /\ after[d].pc = "drain" => proc[d].pc \in {"serve", "up", "drain"}
<1>1. proc[d] \in Process
  BY DEF HandoverType
<1>2. CASE after[d] = proc[d]
  BY <1>1, <1>2
<1>3. CASE after[d] = Off
  BY <1>1, <1>3 DEF Off, Process, ClaudeQ
<1>4. CASE after[d] = [proc[d] EXCEPT !.pc = "drain"] /\ proc[d].pc \in {"serve", "up"}
  BY <1>1, <1>4 DEF Process
<1> QED  BY <1>2, <1>3, <1>4 DEF Lesser

\* What goes takes its lock and its port along; what is left is fewer daemons of
\* either kind.
LEMMA Fewer ==
  ASSUME HandoverInv, proc' \in [Daemons -> Process], port' = Freed(port, proc'),
         \A d \in Daemons : Lesser(proc', d), home' = home
  PROVE  /\ StaysGone
         /\ port' \in Daemons \cup {NoDaemon}
         /\ ClaudeQAlone'
<1>1. StaysGone
  BY LesserType DEF HandoverInv, StaysGone
<1>2. port' \in Daemons \cup {NoDaemon}
  BY DEF Freed, HandoverInv, HandoverType
<1>3. ASSUME NEW d \in Daemons
      PROVE  /\ proc'[d].rel = ClaudeQ
                  => proc'[d].pc \in {"up", "drain", "close"} /\ proc'[d].agent = "claudeq"
             /\ proc'[d].rel # ClaudeQ /\ home' = "none" => proc'[d].pc \in {"off", "open"}
             /\ proc'[d].rel = ClaudeQ /\ proc'[d].pc # "close" /\ home' = "none" /\ SharedPort
                  => port' = d
  <2>1. Lesser(proc', d)
    OBVIOUS
  <2>2. /\ proc[d].rel = ClaudeQ
             => proc[d].pc \in {"up", "drain", "close"} /\ proc[d].agent = "claudeq"
        /\ proc[d].rel # ClaudeQ /\ home = "none" => proc[d].pc \in {"off", "open"}
        /\ proc[d].rel = ClaudeQ /\ proc[d].pc # "close" /\ home = "none" /\ SharedPort
             => port = d
    BY DEF HandoverInv, ClaudeQAlone
  <2>3. proc[d] \in Process
    BY DEF HandoverInv, HandoverType
  <2>4. CASE proc'[d] = proc[d]
    BY <2>2, <2>4, HandoverAssumption DEF Freed, ClaudeQ
  <2>5. CASE proc'[d] = Off
    BY <2>5 DEF Off, ClaudeQ
  <2>6. CASE proc'[d] = [proc[d] EXCEPT !.pc = "drain"] /\ proc[d].pc \in {"serve", "up"}
    <3>1. proc'[d].pc = "drain" /\ proc'[d].rel = proc[d].rel /\ proc'[d].agent = proc[d].agent
      BY <2>3, <2>6 DEF Process
    <3> QED  BY <2>2, <2>6, <3>1 DEF Freed
  <2> QED  BY <2>1, <2>4, <2>5, <2>6 DEF Lesser
<1>4. port' # NoDaemon => proc'[port'].pc \notin {"off", "open", "close"}
  <2> SUFFICES ASSUME port' # NoDaemon PROVE proc'[port'].pc \notin {"off", "open", "close"}
    OBVIOUS
  <2>1. port' = port /\ port \in Daemons /\ proc'[port].pc # "off"
    BY DEF Freed, HandoverInv, HandoverType
  <2>2. proc[port].pc \notin {"off", "open", "close"}
    BY <2>1 DEF HandoverInv, ClaudeQAlone
  <2>3. proc'[port].pc \in {"off", "drain", proc[port].pc}
    BY <2>1, LesserType DEF HandoverInv
  <2> QED  BY <2>1, <2>2, <2>3
<1> QED  BY <1>1, <1>2, <1>3, <1>4 DEF ClaudeQAlone

\* Become, for daemons that only become less.
LEMMA BecomeLess ==
  ASSUME HandoverInv, NEW after \in [Daemons -> Process], Become(after),
         \A d \in Daemons : Lesser(after, d), home' = home
  PROVE  /\ proc' \in [Daemons -> Process] /\ port' \in Daemons \cup {NoDaemon}
         /\ opening' \in [Openers -> OpeningPc]
         /\ \A x \in Openers : opening'[x] \in {opening[x], "idle"}
         /\ \A i \in Installers : opening'[i] = opening[i]
         /\ StaysGone
         /\ ClaudeQAlone'
<1>1. proc' = after /\ port' = Freed(port, after)
  BY DEF Become
<1>2. port' = Freed(port, proc') /\ \A d \in Daemons : Lesser(proc', d)
  BY <1>1
<1>3. opening' = [x \in Openers |->
                    IF x \in Daemons /\ after[x].pc = "off" THEN "idle" ELSE opening[x]]
  BY DEF Become
<1>4. opening' \in [Openers -> OpeningPc]
  BY <1>3 DEF HandoverInv, HandoverType, OpeningPc
<1>5. /\ \A x \in Openers : opening'[x] \in {opening[x], "idle"}
      /\ \A i \in Installers : opening'[i] = opening[i]
  BY <1>3, HandoverAssumption DEF Openers, Installers
<1> QED  BY <1>1, <1>2, <1>4, <1>5, Fewer

LEMMA TerminateIsLess ==
  ASSUME HandoverType, NEW ds \in SUBSET Daemons
  PROVE  /\ Terminated(ds) \in [Daemons -> Process]
         /\ \A d \in Daemons : Lesser(Terminated(ds), d)
<1>1. ASSUME NEW d \in Daemons
      PROVE  Lesser(Terminated(ds), d)
  BY DEF Terminated, Lesser
<1>2. \A d \in Daemons : Terminated(ds)[d] \in Process
  BY <1>1, LesserType
<1> QED  BY <1>1, <1>2 DEF Terminated

LEMMA ExitIsLess ==
  ASSUME HandoverType, NEW d \in Daemons
  PROVE  /\ [proc EXCEPT ![d] = Off] \in [Daemons -> Process]
         /\ \A e \in Daemons : Lesser([proc EXCEPT ![d] = Off], e)
<1>1. Off \in Process
  BY DEF Off, Process
<1> QED  BY <1>1 DEF HandoverType, Lesser

LEMMA KillIsLess ==
  ASSUME HandoverType
  PROVE  /\ [d \in Daemons |-> Off] \in [Daemons -> Process]
         /\ \A e \in Daemons : Lesser([d \in Daemons |-> Off], e)
<1>1. Off \in Process
  BY DEF Off, Process
<1> QED  BY <1>1 DEF Lesser

\* What any step in which daemons only become less preserves; what is left to see is
\* where the installers are.
LEMMA LessPreserves ==
  ASSUME HandoverInv, NEW after \in [Daemons -> Process], Become(after),
         \A d \in Daemons : Lesser(after, d),
         UNCHANGED <<legacyDir, home, disk>>,
         agents' \subseteq {"claudeq", "dispatchq"}, plists' \subseteq {"claudeq", "dispatchq"},
         inst' \in [Installers -> Install]
  PROVE  /\ HandoverType' /\ NobodyIsIn' /\ ClaudeQAlone'
         /\ \A x \in Openers : opening'[x] \in {"link", "opened"} => home' # "none"
         /\ \A i \in Installers : opening'[i] = opening[i]
         /\ StaysGone
<1>1. /\ proc' \in [Daemons -> Process] /\ port' \in Daemons \cup {NoDaemon}
      /\ opening' \in [Openers -> OpeningPc]
      /\ \A x \in Openers : opening'[x] \in {opening[x], "idle"}
      /\ \A i \in Installers : opening'[i] = opening[i]
      /\ StaysGone
      /\ ClaudeQAlone'
  BY BecomeLess
<1>2. HandoverType'
  BY <1>1 DEF HandoverInv, HandoverType
<1>3. NobodyIsIn'
  BY <1>1 DEF HandoverInv, NobodyIsIn
<1>4. \A x \in Openers : opening'[x] \in {"link", "opened"} => home' # "none"
  BY <1>1 DEF HandoverInv, InTurn
<1> QED  BY <1>1, <1>2, <1>3, <1>4

\* An installer that goes on to another point of its way.
LEMMA PcChanges ==
  ASSUME HandoverType, NEW i \in Installers,
         NEW pc \in {"off", "takeover", "sweep", "bootout", "stop", "wait", "data",
                     "stop again", "wait again", "agent", "bootstrap", "settle",
                     "done", "failed"},
         GoTo(i, pc)
  PROVE  /\ inst' \in [Installers -> Install]
         /\ inst'[i].pc = pc /\ inst'[i].refused = inst[i].refused
         /\ \A j \in Installers \ {i} : inst'[j] = inst[j]
<1>1. inst[i] \in Install
  BY DEF HandoverType
<1>2. inst' = [inst EXCEPT ![i] = [inst[i] EXCEPT !.pc = pc]]
  BY DEF GoTo, HandoverType
<1>3. /\ [inst[i] EXCEPT !.pc = pc] \in Install /\ [inst[i] EXCEPT !.pc = pc].pc = pc
      /\ [inst[i] EXCEPT !.pc = pc].refused = inst[i].refused
  BY <1>1 DEF Install
<1> QED  BY <1>2, <1>3 DEF HandoverType

\* A daemon goes, for a reason of its own or because of launchd.
LEMMA DaemonGoes ==
  ASSUME HandoverInv, NEW d \in Daemons, Exit(d),
         UNCHANGED <<legacyDir, home, disk, agents, plists, inst>>
  PROVE  HandoverInv'
<1>1. /\ agents' \subseteq {"claudeq", "dispatchq"} /\ plists' \subseteq {"claudeq", "dispatchq"}
      /\ inst' \in [Installers -> Install]
  BY DEF HandoverInv, HandoverType
<1>2. /\ HandoverType' /\ NobodyIsIn' /\ ClaudeQAlone'
      /\ \A x \in Openers : opening'[x] \in {"link", "opened"} => home' # "none"
      /\ \A i \in Installers : opening'[i] = opening[i]
      /\ StaysGone
  BY <1>1, ExitIsLess, LessPreserves DEF HandoverInv, Exit
<1>3. InTurn'
  BY <1>2 DEF HandoverInv, InTurn
<1>4. ClaudeQGone'
  BY <1>2 DEF HandoverInv, ClaudeQGone, StaysGone
<1> QED  BY <1>2, <1>3, <1>4 DEF HandoverInv

\* An installer ends daemons and goes on; where it goes to, ClaudeQ's agent is
\* already gone if it has to be.
LEMMA InstallerEnds ==
  ASSUME HandoverInv, NEW after \in [Daemons -> Process], Become(after),
         \A d \in Daemons : Lesser(after, d),
         UNCHANGED <<legacyDir, home, disk>>, agents' \subseteq agents,
         plists' \subseteq {"claudeq", "dispatchq"},
         NEW i \in Installers, inst[i].pc # "data",
         NEW pc \in {"stop", "wait", "wait again", "bootstrap", "failed"},
         GoTo(i, pc),
         pc \in {"stop", "wait"} /\ ~inst[i].refused => "claudeq" \notin agents'
  PROVE  HandoverInv'
<1>1. /\ inst' \in [Installers -> Install]
      /\ inst'[i].pc = pc /\ inst'[i].refused = inst[i].refused
      /\ \A j \in Installers \ {i} : inst'[j] = inst[j]
  BY PcChanges DEF HandoverInv
<1>2. /\ HandoverType' /\ NobodyIsIn' /\ ClaudeQAlone'
      /\ \A x \in Openers : opening'[x] \in {"link", "opened"} => home' # "none"
      /\ \A j \in Installers : opening'[j] = opening[j]
      /\ StaysGone
  <2>1. agents' \subseteq {"claudeq", "dispatchq"}
    BY DEF HandoverInv, HandoverType
  <2> QED  BY <1>1, <2>1, LessPreserves
<1>3. InTurn'
  BY <1>1, <1>2 DEF HandoverInv, InTurn
<1>4. ASSUME NEW j \in Installers, ~inst'[j].refused
      PROVE  /\ inst'[j].pc \in {"stop", "wait", "data"} => "claudeq" \notin agents'
             /\ inst'[j].pc = "data" /\ home' = "none" /\ SharedPort
                => \A d \in Daemons : proc'[d].rel = ClaudeQ => proc'[d].pc = "close"
  <2>1. CASE j = i
    BY <1>1, <1>4, <2>1
  <2>2. CASE j # i
    BY <1>1, <1>2, <1>4, <2>2 DEF HandoverInv, ClaudeQGone, StaysGone
  <2> QED  BY <2>1, <2>2
<1>5. ClaudeQGone'
  BY <1>4 DEF ClaudeQGone
<1> QED  BY <1>2, <1>3, <1>5 DEF HandoverInv

LEMMA BootOutLess ==
  ASSUME HandoverInv, NEW as, BootOut(as)
  PROVE  \E ds \in SUBSET Daemons : Become(Terminated(ds)) /\ agents' = agents \ as
<1>1. UNION {OfAgent(a) : a \in as} \in SUBSET Daemons
  BY DEF OfAgent
<1> QED  BY <1>1 DEF BootOut, Terminate

LEMMA InstallerBootsOut ==
  ASSUME HandoverInv, NEW i \in Installers, NEW as, BootOut(as),
         plists' \subseteq {"claudeq", "dispatchq"}, UNCHANGED <<legacyDir, home, disk>>,
         inst[i].pc # "data", NEW pc \in {"stop", "bootstrap", "failed"}, GoTo(i, pc),
         pc = "stop" => "claudeq" \in as
  PROVE  HandoverInv'
<1>1. PICK ds \in SUBSET Daemons : Become(Terminated(ds)) /\ agents' = agents \ as
  BY BootOutLess
<1>2. /\ Terminated(ds) \in [Daemons -> Process]
      /\ \A d \in Daemons : Lesser(Terminated(ds), d)
  BY TerminateIsLess DEF HandoverInv
<1> QED  BY <1>1, <1>2, InstallerEnds

LEMMA BootOutSteps ==
  ASSUME HandoverInv, NEW i \in Installers,
         BootOutClaudeQ(i) \/ BootOutFails(i) \/ BootOutOwn(i)
  PROVE  HandoverInv'
<1>1. plists' \subseteq {"claudeq", "dispatchq"} /\ UNCHANGED <<legacyDir, home, disk>>
  BY DEF BootOutClaudeQ, BootOutFails, BootOutOwn, HandoverInv, HandoverType
<1>2. CASE BootOutClaudeQ(i)
  BY <1>1, <1>2, InstallerBootsOut DEF BootOutClaudeQ, Inst
<1>3. CASE BootOutFails(i)
  BY <1>1, <1>3, InstallerBootsOut DEF BootOutFails, Inst
<1>4. CASE BootOutOwn(i)
  BY <1>1, <1>4, InstallerBootsOut DEF BootOutOwn, Inst
<1> QED  BY <1>2, <1>3, <1>4

LEMMA TakeOverFailsStep ==
  ASSUME HandoverInv, TakeOverFails
  PROVE  HandoverInv'
<1>1. PICK a \in plists :
        /\ BootOut(IF a = "claudeq" THEN {a} ELSE {"claudeq", "dispatchq"})
        /\ plists' = IF a = "claudeq" THEN plists ELSE {a}
  BY DEF TakeOverFails
<1>2. /\ plists' \subseteq {"claudeq", "dispatchq"} /\ UNCHANGED <<legacyDir, home, disk>>
      /\ "package" \in Installers /\ inst["package"].pc # "data" /\ GoTo("package", "failed")
  BY <1>1 DEF TakeOverFails, Inst, Installers, HandoverInv, HandoverType
<1> QED  BY <1>1, <1>2, InstallerBootsOut

LEMMA InstallerStopsStrays ==
  ASSUME HandoverInv, NEW i \in Installers, StopStrays(i)
  PROVE  HandoverInv'
<1>1. /\ Terminated(Daemons) \in [Daemons -> Process]
      /\ \A d \in Daemons : Lesser(Terminated(Daemons), d)
  BY TerminateIsLess DEF HandoverInv
<1>2. /\ Become(Terminated(Daemons)) /\ UNCHANGED <<legacyDir, home, disk, agents>>
      /\ plists' \subseteq {"claudeq", "dispatchq"}
  BY DEF StopStrays, Terminate, Same, HandoverInv, HandoverType
<1>3. CASE inst[i].pc = "stop"
  <2>1. GoTo(i, "wait") /\ (~inst[i].refused => "claudeq" \notin agents')
    BY <1>2, <1>3 DEF StopStrays, Inst, HandoverInv, ClaudeQGone
  <2> QED  BY <1>1, <1>2, <1>3, <2>1, InstallerEnds
<1>4. CASE inst[i].pc = "stop again"
  <2>1. GoTo(i, "wait again")
    BY <1>4 DEF StopStrays, Inst
  <2> QED  BY <1>1, <1>2, <1>4, <2>1, InstallerEnds
<1> QED  BY <1>3, <1>4 DEF StopStrays

\* The package ends every daemon, and the other installer with them.
LEMMA PackageEnds ==
  ASSUME HandoverInv, NEW after \in [Daemons -> Process], \A d \in Daemons : Lesser(after, d),
         NEW pc \in {"sweep", "bootout"}, Pkill(after, pc), inst["package"].pc # "data",
         agents' \subseteq agents, plists' \subseteq plists
  PROVE  HandoverInv'
<1>1. /\ UNCHANGED <<legacyDir, home, disk>>
      /\ proc' = after /\ port' = Freed(port, proc')
      /\ opening' = [x \in Openers |->
           IF x = "other" \/ (x \in Daemons /\ proc'[x].pc = "off") THEN "idle" ELSE opening[x]]
  BY DEF Pkill
<1>2. proc' \in [Daemons -> Process] /\ \A d \in Daemons : Lesser(proc', d)
  BY <1>1
<1>3. port' \in Daemons \cup {NoDaemon} /\ ClaudeQAlone'
  BY <1>1, <1>2, Fewer
<1>4. /\ opening' \in [Openers -> OpeningPc]
      /\ \A x \in Openers : opening'[x] \in {opening[x], "idle"}
      /\ opening'["other"] = "idle"
  BY <1>1 DEF HandoverInv, HandoverType, OpeningPc, Openers, Installers
<1>5. /\ inst' \in [Installers -> Install]
      /\ inst'["package"].pc = pc
      /\ inst'["other"].pc \notin {"stop", "wait", "data"}
  <2>1. inst["package"] \in Install /\ inst["other"] \in Install
    BY DEF HandoverInv, HandoverType, Installers
  <2> DEFINE gone == IF Running("other") THEN "off" ELSE inst["other"].pc
  <2>2. inst' = [inst EXCEPT !["package"] = [inst["package"] EXCEPT !.pc = pc],
                             !["other"] = [inst["other"] EXCEPT !.pc = gone]]
    BY DEF Pkill
  <2>3. /\ [inst["package"] EXCEPT !.pc = pc] \in Install
        /\ [inst["package"] EXCEPT !.pc = pc].pc = pc
    BY <2>1 DEF Install
  <2>4. gone \in {"off", "done", "failed"}
    BY DEF Running
  <2> HIDE DEF gone
  <2>5. /\ [inst["other"] EXCEPT !.pc = gone] \in Install
        /\ [inst["other"] EXCEPT !.pc = gone].pc = gone
    BY <2>1, <2>4 DEF Install
  <2> QED  BY <2>2, <2>3, <2>4, <2>5 DEF HandoverInv, HandoverType, Installers
<1>6. HandoverType'
  BY <1>1, <1>2, <1>3, <1>4, <1>5 DEF HandoverInv, HandoverType
<1>7. NobodyIsIn'
  BY <1>1, <1>4 DEF HandoverInv, NobodyIsIn
<1>8. InTurn'
  <2>1. opening["package"] = "idle"
    BY DEF HandoverInv, InTurn, Installers
  <2>2. opening'["package"] = "idle"
    BY <1>4, <2>1 DEF Openers, Installers
  <2> QED  BY <1>1, <1>4, <2>2 DEF HandoverInv, InTurn, Installers
<1>9. ClaudeQGone'
  BY <1>5 DEF ClaudeQGone, Installers
<1> QED  BY <1>3, <1>6, <1>7, <1>8, <1>9 DEF HandoverInv

LEMMA PackageEndsSteps ==
  ASSUME HandoverInv, TakeOver \/ Sweep
  PROVE  HandoverInv'
<1>1. CASE TakeOver
  <2>1. /\ Pkill(Terminated(Daemons), "sweep") /\ inst["package"].pc # "data"
        /\ agents' \subseteq agents /\ plists' \subseteq plists
    BY <1>1 DEF TakeOver, Inst
  <2>2. /\ Terminated(Daemons) \in [Daemons -> Process]
        /\ \A d \in Daemons : Lesser(Terminated(Daemons), d)
    BY TerminateIsLess DEF HandoverInv
  <2> QED  BY <2>1, <2>2, PackageEnds
<1>2. CASE Sweep
  <2>1. /\ Pkill([d \in Daemons |-> Off], "bootout") /\ inst["package"].pc # "data"
        /\ agents' \subseteq agents /\ plists' \subseteq plists
    BY <1>2 DEF Sweep, Inst
  <2> QED  BY <2>1, KillIsLess, PackageEnds DEF HandoverInv
<1> QED  BY <1>1, <1>2

\* Everybody goes, and launchd loads what has a plist: nothing is being installed.
LEMMA LoginStep ==
  ASSUME HandoverInv, Login
  PROVE  HandoverInv'
<1>1. /\ Become([d \in Daemons |-> Off]) /\ agents' = plists
      /\ UNCHANGED <<legacyDir, home, disk, plists, inst>>
      /\ \A i \in Installers : inst[i].pc \notin {"stop", "wait", "data"}
  BY DEF Login, KillAll, Running
<1>2. /\ agents' \subseteq {"claudeq", "dispatchq"} /\ plists' \subseteq {"claudeq", "dispatchq"}
      /\ inst' \in [Installers -> Install]
  BY <1>1 DEF HandoverInv, HandoverType
<1>3. /\ HandoverType' /\ NobodyIsIn' /\ ClaudeQAlone'
      /\ \A x \in Openers : opening'[x] \in {"link", "opened"} => home' # "none"
      /\ \A i \in Installers : opening'[i] = opening[i]
  BY <1>1, <1>2, KillIsLess, LessPreserves DEF HandoverInv
<1>4. InTurn'
  BY <1>1, <1>3 DEF HandoverInv, InTurn
<1>5. ClaudeQGone'
  BY <1>1 DEF ClaudeQGone
<1> QED  BY <1>3, <1>4, <1>5 DEF HandoverInv

\* Only where an installer is changes, and it is neither about to make room for the
\* data directory nor to move it; unless it has found the room, or launchd has
\* refused to make it.
LEMMA InstallerGoesOn ==
  ASSUME HandoverInv, UNCHANGED <<legacyDir, home, proc, port>>,
         disk' \in Nat, disk' > ClaudeQ,
         agents' \subseteq agents \cup {"dispatchq"}, plists' \subseteq {"claudeq", "dispatchq"},
         NEW i \in Installers, inst' \in [Installers -> Install],
         \A j \in Installers \ {i} : inst'[j] = inst[j],
         inst'[i].pc \notin {"stop", "wait", "data"} \/ inst'[i].refused,
         opening'[i] = "idle", opening' \in [Openers -> OpeningPc],
         \A x \in Openers \ {i} : opening'[x] = opening[x]
  PROVE  HandoverInv'
<1>1. HandoverType'
  BY DEF HandoverInv, HandoverType
<1>2. NobodyIsIn' /\ ClaudeQAlone'
  BY DEF HandoverInv, NobodyIsIn, ClaudeQAlone
<1>3. InTurn'
  BY DEF HandoverInv, InTurn, Openers
<1>4. ASSUME NEW j \in Installers, ~inst'[j].refused
      PROVE  /\ inst'[j].pc \in {"stop", "wait", "data"} => "claudeq" \notin agents'
             /\ inst'[j].pc = "data" /\ home' = "none" /\ SharedPort
                => \A d \in Daemons : proc'[d].rel = ClaudeQ => proc'[d].pc = "close"
  <2>1. CASE j = i
    BY <1>4, <2>1
  <2>2. CASE j # i
    BY <1>4, <2>2 DEF HandoverInv, ClaudeQGone
  <2> QED  BY <2>1, <2>2
<1>5. ClaudeQGone'
  BY <1>4 DEF ClaudeQGone
<1> QED  BY <1>1, <1>2, <1>3, <1>5 DEF HandoverInv

\* The same where the data directory is not being opened by it.
LEMMA InstallerMoves ==
  ASSUME HandoverInv, UNCHANGED <<legacyDir, home, proc, port, opening, disk>>,
         agents' \subseteq agents \cup {"dispatchq"}, plists' \subseteq {"claudeq", "dispatchq"},
         NEW i \in Installers, inst[i].pc # "data",
         NEW pc \in {"bootstrap", "settle", "done", "failed"}, GoTo(i, pc)
  PROVE  HandoverInv'
<1>1. /\ inst' \in [Installers -> Install]
      /\ inst'[i].pc = pc
      /\ \A j \in Installers \ {i} : inst'[j] = inst[j]
  BY PcChanges DEF HandoverInv
<1>2. opening'[i] = "idle" /\ opening' \in [Openers -> OpeningPc] /\ disk' \in Nat /\ disk' > ClaudeQ
  BY DEF HandoverInv, HandoverType, InTurn
<1> QED  BY <1>1, <1>2, InstallerGoesOn

LEMMA InstallerQuietSteps ==
  ASSUME HandoverInv, NEW i \in Installers,
         DataMoved(i) \/ Bootstrap(i) \/ AlreadyLoaded(i) \/ BootstrapFails(i)
           \/ BootOutRefused(i) \/ BootOutOwnRefused(i)
  PROVE  HandoverInv'
<1>0. plists' \subseteq {"claudeq", "dispatchq"}
  BY DEF DataMoved, Bootstrap, AlreadyLoaded, BootstrapFails, BootOutRefused,
         BootOutOwnRefused, Same, HandoverInv, HandoverType
<1>1. CASE DataMoved(i)
  <2>1. /\ inst' \in [Installers -> Install]
        /\ inst'[i].pc = "stop again"
        /\ \A j \in Installers \ {i} : inst'[j] = inst[j]
    BY <1>1, PcChanges DEF HandoverInv, DataMoved
  <2>2. /\ opening'[i] = "idle" /\ opening' \in [Openers -> OpeningPc]
        /\ \A x \in Openers \ {i} : opening'[x] = opening[x]
    BY <1>1 DEF DataMoved, HandoverInv, HandoverType, OpeningPc, Openers
  <2> QED
    BY <1>0, <1>1, <2>1, <2>2, InstallerGoesOn DEF DataMoved, Same, HandoverInv, HandoverType
<1>2. CASE Bootstrap(i)
  BY <1>0, <1>2, InstallerMoves DEF Bootstrap, Same, Inst
<1>3. CASE AlreadyLoaded(i)
  BY <1>0, <1>3, InstallerMoves DEF AlreadyLoaded, Same, Inst
<1>4. CASE BootstrapFails(i)
  BY <1>0, <1>4, InstallerMoves DEF BootstrapFails, Inst
<1>5. CASE BootOutRefused(i)
  <2>1. inst[i] \in Install /\ inst' = [inst EXCEPT ![i] = [inst[i] EXCEPT !.pc = "stop", !.refused = TRUE]]
    BY <1>5 DEF BootOutRefused, HandoverInv, HandoverType
  <2>2. /\ [inst[i] EXCEPT !.pc = "stop", !.refused = TRUE] \in Install
        /\ [inst[i] EXCEPT !.pc = "stop", !.refused = TRUE].refused = TRUE
    BY <2>1 DEF Install
  <2>3. /\ inst' \in [Installers -> Install] /\ inst'[i].refused = TRUE
        /\ \A j \in Installers \ {i} : inst'[j] = inst[j]
    BY <2>1, <2>2 DEF HandoverInv, HandoverType
  <2>4. /\ UNCHANGED <<legacyDir, home, disk, opening, agents, proc, port>>
        /\ inst[i].pc = "bootout"
    BY <1>5 DEF BootOutRefused, Inst
  <2>5. opening'[i] = "idle" /\ opening' \in [Openers -> OpeningPc] /\ disk' \in Nat /\ disk' > ClaudeQ
    BY <2>4 DEF HandoverInv, HandoverType, InTurn
  <2> QED  BY <1>0, <2>3, <2>4, <2>5, InstallerGoesOn
<1>6. CASE BootOutOwnRefused(i)
  BY <1>0, <1>6, InstallerMoves DEF BootOutOwnRefused, Inst
<1> QED  BY <1>1, <1>2, <1>3, <1>4, <1>5, <1>6

LEMMA PackageQuietSteps ==
  ASSUME HandoverInv, Settled \/ NotSettled \/ Retry
  PROVE  HandoverInv'
<1>0. "package" \in Installers /\ plists' \subseteq {"claudeq", "dispatchq"}
  BY DEF Installers, Settled, NotSettled, Retry, Same, HandoverInv, HandoverType
<1>1. CASE Settled
  BY <1>0, <1>1, InstallerMoves DEF Settled, Same, Inst
<1>2. CASE NotSettled
  BY <1>0, <1>2, InstallerMoves DEF NotSettled, Same, Inst
<1>3. CASE Retry
  <2>1. /\ inst' \in [Installers -> Install]
        /\ inst'["package"].pc = "takeover"
        /\ \A j \in Installers \ {"package"} : inst'[j] = inst[j]
    BY <1>0, <1>3 DEF Retry, Starts, HandoverInv, HandoverType, Install
  <2>2. opening'["package"] = "idle" /\ opening' \in [Openers -> OpeningPc]
        /\ disk' \in Nat /\ disk' > ClaudeQ
    BY <1>0, <1>3 DEF Retry, Inst, Same, HandoverInv, HandoverType, InTurn
  <2> QED
    BY <1>0, <1>3, <2>1, <2>2, InstallerGoesOn DEF Retry, Same
<1> QED  BY <1>1, <1>2, <1>3

LEMMA InstallationsBegin ==
  ASSUME HandoverInv, WindowInstalls \/ Relaunch \/ PackageInstalls
  PROVE  HandoverInv'
<1>1. PICK i \in Installers, pc \in {"bootout", "takeover"} :
        ~Running(i) /\ inst' = [inst EXCEPT ![i] = Starts(pc, 1)]
  BY DEF WindowInstalls, Relaunch, PackageInstalls, OtherStarts, Installers
<1>2. /\ UNCHANGED <<legacyDir, home, proc, port, opening, agents, plists>>
      /\ disk' \in {disk, disk + 1}
  BY DEF WindowInstalls, Relaunch, PackageInstalls, OtherStarts
<1>3. /\ inst' \in [Installers -> Install] /\ inst'[i].pc = pc
      /\ \A j \in Installers \ {i} : inst'[j] = inst[j]
  BY <1>1 DEF HandoverInv, HandoverType, Install, Starts
<1>4. /\ opening'[i] = "idle" /\ opening' \in [Openers -> OpeningPc]
      /\ disk' \in Nat /\ disk' > ClaudeQ /\ plists' \subseteq {"claudeq", "dispatchq"}
  BY <1>1, <1>2 DEF Running, HandoverInv, HandoverType, InTurn, ClaudeQ
<1> QED  BY <1>2, <1>3, <1>4, InstallerGoesOn

\* The room is made: nobody has the port, or everybody has been ended.
LEMMA InstallerHasRoom ==
  ASSUME HandoverInv, NEW i \in Installers, PortIsFree(i) \/ PortStaysHeld(i)
  PROVE  HandoverInv'
<1>1. UNCHANGED <<legacyDir, home, disk, agents, plists>>
  BY DEF PortIsFree, PortStaysHeld, Same
<1>2. i \in Openers /\ i \notin Daemons
  BY HandoverAssumption DEF Openers, Installers
<1>3. PICK pc \in {"data", "agent"} :
        /\ GoTo(i, pc)
        /\ pc = "data" <=> inst[i].pc = "wait"
  BY DEF PortIsFree, PortStaysHeld, AfterStrays, Inst
<1>4. /\ inst' \in [Installers -> Install]
      /\ inst'[i].pc = pc /\ inst'[i].refused = inst[i].refused
      /\ \A j \in Installers \ {i} : inst'[j] = inst[j]
  BY <1>3, PcChanges DEF HandoverInv
<1>5. /\ proc' \in [Daemons -> Process] /\ \A d \in Daemons : Lesser(proc', d)
      /\ port' = Freed(port, proc')
      /\ inst[i].pc = "wait" /\ home = "none" /\ SharedPort
           => \A d \in Daemons : proc'[d].rel = ClaudeQ => proc'[d].pc = "close"
  <2>1. CASE PortIsFree(i)
    <3>1. UNCHANGED <<proc, port>> /\ port = NoDaemon
      BY <2>1 DEF PortIsFree
    <3>2. home = "none" /\ SharedPort
            => \A d \in Daemons : proc[d].rel = ClaudeQ => proc[d].pc = "close"
      BY <3>1, HandoverAssumption DEF HandoverInv, ClaudeQAlone
    <3> QED  BY <3>1, <3>2 DEF HandoverInv, HandoverType, Lesser, Freed
  <2>2. CASE PortStaysHeld(i)
    <3>1. proc' = [d \in Daemons |-> Off] /\ port' = NoDaemon /\ port \in Daemons
      BY <2>2 DEF PortStaysHeld, HandoverInv, HandoverType
    <3>2. proc'[port].pc = "off"
      BY <3>1 DEF Off
    <3>3. port' = Freed(port, proc')
      BY <3>1, <3>2 DEF Freed
    <3>4. \A d \in Daemons : proc'[d].rel # ClaudeQ
      BY <3>1 DEF Off, ClaudeQ
    <3> QED  BY <3>1, <3>3, <3>4, KillIsLess DEF HandoverInv
  <2> QED  BY <2>1, <2>2
<1>6. /\ StaysGone
      /\ port' \in Daemons \cup {NoDaemon} /\ ClaudeQAlone'
  BY <1>1, <1>5, Fewer
<1>7. /\ opening' \in [Openers -> OpeningPc]
      /\ \A x \in Openers : opening'[x] \in {opening[x], "idle", "look"}
      /\ opening'[i] # opening[i] => pc = "data"
      /\ \A j \in Installers \ {i} : opening'[j] = opening[j]
  <2>1. CASE PortIsFree(i)
    BY <1>2, <1>3, <2>1 DEF PortIsFree, AfterStrays, HandoverInv, HandoverType, OpeningPc, Openers
  <2>2. CASE PortStaysHeld(i)
    <3>1. opening' = [x \in Openers |->
                        IF x \in Daemons THEN "idle"
                        ELSE IF x = i /\ inst[i].pc = "wait" THEN "look" ELSE opening[x]]
      BY <2>2 DEF PortStaysHeld, Inst
    <3>2. \A j \in Installers : j \in Openers /\ j \notin Daemons
      BY HandoverAssumption DEF Openers, Installers
    <3> QED  BY <1>2, <1>3, <3>1, <3>2 DEF HandoverInv, HandoverType, OpeningPc
  <2> QED  BY <2>1, <2>2
<1>8. HandoverType'
  BY <1>1, <1>4, <1>5, <1>6, <1>7 DEF HandoverInv, HandoverType
<1>9. NobodyIsIn'
  BY <1>1, <1>7 DEF HandoverInv, NobodyIsIn
<1>10. InTurn'
  <2>1. \A x \in Openers : opening'[x] \in {"link", "opened"} => home' # "none"
    BY <1>1, <1>7 DEF HandoverInv, InTurn
  <2>2. opening'[i] # "idle" => inst'[i].pc = "data"
    BY <1>4, <1>7, <1>3 DEF HandoverInv, InTurn, PortIsFree, PortStaysHeld
  <2> QED  BY <1>4, <1>7, <2>1, <2>2 DEF HandoverInv, InTurn
<1>11. ASSUME NEW j \in Installers, ~inst'[j].refused
       PROVE  /\ inst'[j].pc \in {"stop", "wait", "data"} => "claudeq" \notin agents'
              /\ inst'[j].pc = "data" /\ home' = "none" /\ SharedPort
                 => \A d \in Daemons : proc'[d].rel = ClaudeQ => proc'[d].pc = "close"
  <2>1. CASE j = i
    BY <1>1, <1>3, <1>4, <1>5, <1>11, <2>1 DEF HandoverInv, ClaudeQGone
  <2>2. CASE j # i
    BY <1>1, <1>4, <1>6, <1>11, <2>2 DEF HandoverInv, ClaudeQGone, StaysGone
  <2> QED  BY <2>1, <2>2
<1>12. ClaudeQGone'
  BY <1>11 DEF ClaudeQGone
<1> QED  BY <1>6, <1>8, <1>9, <1>10, <1>12 DEF HandoverInv

\* DefaultHome and Open, one file operation at a time.
LEMMA OpeningStep ==
  ASSUME HandoverInv, NEW x \in Openers, Opening(x)
  PROVE  HandoverInv' /\ (home # "none" => home' # "none")
<1>1. UNCHANGED <<disk, agents, plists, proc, port, inst>>
  BY DEF Opening
<1>2. /\ opening[x] # "idle" /\ opening' \in [Openers -> OpeningPc]
      /\ \A y \in Openers \ {x} : opening'[y] = opening[y]
      /\ home' \in {"none", "data", "empty"}
      /\ home # "none" => home' # "none"
      /\ home' # home => legacyDir' # "data"
      /\ opening'[x] \in {"link", "opened"} => home' # "none"
      /\ legacyDir' = "data" =>
           legacyDir = "data" /\ home' = "none" /\ opening'[x] \notin {"link", "open", "opened"}
  <2>1. CASE LookHome(x)
    BY <2>1 DEF LookHome, HandoverInv, HandoverType, NobodyIsIn, OpeningPc
  <2>2. CASE LookLegacy(x)
    BY <2>2 DEF LookLegacy, HandoverInv, HandoverType, NobodyIsIn, OpeningPc
  <2>3. CASE Move(x)
    BY <2>3 DEF Move, HandoverInv, HandoverType, NobodyIsIn, OpeningPc
  <2>4. CASE Link(x)
    BY <2>4 DEF Link, HandoverInv, HandoverType, NobodyIsIn, OpeningPc
  <2>5. CASE Open(x)
    BY <2>5 DEF Open, HandoverInv, HandoverType, NobodyIsIn, OpeningPc
  <2> QED  BY <2>1, <2>2, <2>3, <2>4, <2>5 DEF Opening
<1>3. HandoverType'
  BY <1>1, <1>2 DEF HandoverInv, HandoverType
<1>4. NobodyIsIn'
  BY <1>2 DEF HandoverInv, NobodyIsIn
<1>5. InTurn'
  BY <1>1, <1>2 DEF HandoverInv, InTurn, Openers
<1>6. ClaudeQAlone' /\ ClaudeQGone'
  BY <1>1, <1>2 DEF HandoverInv, ClaudeQAlone, ClaudeQGone
<1> QED  BY <1>2, <1>3, <1>4, <1>5, <1>6 DEF HandoverInv

\* Somebody stops opening the directory, or has not begun to.
LEMMA OthersOpen ==
  ASSUME HandoverInv, UNCHANGED <<legacyDir, home, disk, agents, plists, proc, port, inst>>,
         NEW x \in Openers, NEW pc \in {"idle", "look"}, x \in Installers => pc = "idle",
         opening' = [opening EXCEPT ![x] = pc]
  PROVE  HandoverInv'
<1>1. opening' \in [Openers -> OpeningPc] /\ opening'[x] = pc
      /\ \A y \in Openers \ {x} : opening'[y] = opening[y]
  BY DEF HandoverInv, HandoverType, OpeningPc
<1>2. HandoverType'
  BY <1>1 DEF HandoverInv, HandoverType
<1>3. NobodyIsIn'
  BY <1>1 DEF HandoverInv, NobodyIsIn
<1>4. InTurn'
  BY <1>1 DEF HandoverInv, InTurn, Openers
<1>5. ClaudeQAlone' /\ ClaudeQGone'
  BY DEF HandoverInv, ClaudeQAlone, ClaudeQGone
<1> QED  BY <1>2, <1>3, <1>4, <1>5 DEF HandoverInv

LEMMA MoveFailsStep ==
  ASSUME HandoverInv, NEW x \in Openers, MoveFails(x)
  PROVE  HandoverInv'
<1>1. CASE x \in Daemons
  <2>1. x \notin Installers
    BY <1>1, HandoverAssumption DEF Installers
  <2> QED  BY <1>1, <2>1, DaemonGoes DEF MoveFails
<1>2. CASE x \in Installers
  <2>0. x \notin Daemons
    BY <1>2, HandoverAssumption DEF Installers
  <2>1. GoTo(x, "failed")
    BY <1>2, <2>0 DEF MoveFails
  <2>3. /\ inst' \in [Installers -> Install] /\ inst'[x].pc = "failed"
        /\ \A j \in Installers \ {x} : inst'[j] = inst[j]
    BY <1>2, <2>1, PcChanges DEF HandoverInv
  <2>4. /\ opening' \in [Openers -> OpeningPc] /\ opening'[x] = "idle"
        /\ \A y \in Openers \ {x} : opening'[y] = opening[y]
    BY <2>0 DEF MoveFails, HandoverInv, HandoverType, OpeningPc
  <2>5. UNCHANGED <<legacyDir, home, disk, agents, plists, proc, port>>
    BY <2>0 DEF MoveFails
  <2> QED  BY <1>2, <2>3, <2>4, <2>5, InstallerGoesOn DEF HandoverInv, HandoverType
<1>3. CASE x \notin Daemons /\ x \notin Installers
  BY <1>3, OthersOpen DEF MoveFails
<1> QED  BY <1>1, <1>2, <1>3

LEMMA CliSteps ==
  ASSUME HandoverInv, CliStarts \/ CliEnds
  PROVE  HandoverInv'
<1>1. "cli" \in Openers /\ "cli" \notin Installers
  BY DEF Openers, Installers
<1> QED  BY <1>1, OthersOpen DEF CliStarts, CliEnds

\* A daemon goes on by itself.  It starts to serve in DispatchQ's directory, so
\* that there is one.
LEMMA DaemonGoesOn ==
  ASSUME HandoverInv, NEW d \in Daemons, proc[d].rel # ClaudeQ, home # "none",
         UNCHANGED <<legacyDir, home, disk, agents, plists, inst>>,
         NEW pc \in {"lock", "start", "serve", "up", "close"},
         proc' = [proc EXCEPT ![d].pc = pc],
         port' \in {port, NoDaemon, d}, pc = "close" => port' # d,
         opening' \in [Openers -> OpeningPc],
         \A x \in Openers : opening'[x] \in {opening[x], "idle"},
         \A i \in Installers : opening'[i] = opening[i]
  PROVE  HandoverInv'
<1>1. proc[d] \in Process
  BY DEF HandoverInv, HandoverType
<1>2. proc' = [proc EXCEPT ![d] = [proc[d] EXCEPT !.pc = pc]]
  BY DEF HandoverInv, HandoverType
<1>3. /\ [proc[d] EXCEPT !.pc = pc] \in Process
      /\ [proc[d] EXCEPT !.pc = pc].pc = pc /\ [proc[d] EXCEPT !.pc = pc].rel = proc[d].rel
  BY <1>1 DEF Process
<1>4. /\ proc' \in [Daemons -> Process] /\ proc'[d].pc = pc /\ proc'[d].rel = proc[d].rel
      /\ \A e \in Daemons \ {d} : proc'[e] = proc[e]
  BY <1>2, <1>3 DEF HandoverInv, HandoverType
<1>5. HandoverType'
  BY <1>4 DEF HandoverInv, HandoverType
<1>6. NobodyIsIn' /\ InTurn'
  BY DEF HandoverInv, NobodyIsIn, InTurn
<1>7. ClaudeQAlone'
  BY <1>4 DEF HandoverInv, HandoverType, ClaudeQAlone
<1>8. ClaudeQGone'
  BY <1>4 DEF HandoverInv, ClaudeQGone
<1> QED  BY <1>5, <1>6, <1>7, <1>8 DEF HandoverInv

\* ClaudeQ closes its listener: from here on the port says nothing of it.
LEMMA ClaudeQDrained ==
  ASSUME HandoverInv, NEW d \in Daemons, Drained(d), proc[d].rel = ClaudeQ
  PROVE  HandoverInv'
<1>1. /\ proc' = [proc EXCEPT ![d].pc = "close"]
      /\ port' = IF port = d THEN NoDaemon ELSE port
      /\ UNCHANGED <<legacyDir, home, opening, disk, agents, plists, inst>>
  BY DEF Drained
<1>2. proc[d] \in Process
  BY DEF HandoverInv, HandoverType
<1>3. /\ proc' \in [Daemons -> Process]
      /\ proc'[d].pc = "close" /\ proc'[d].rel = ClaudeQ /\ proc'[d].agent = proc[d].agent
      /\ \A e \in Daemons \ {d} : proc'[e] = proc[e]
  <2>1. /\ [proc[d] EXCEPT !.pc = "close"] \in Process
        /\ [proc[d] EXCEPT !.pc = "close"].pc = "close"
        /\ [proc[d] EXCEPT !.pc = "close"].rel = ClaudeQ
        /\ [proc[d] EXCEPT !.pc = "close"].agent = proc[d].agent
    BY <1>2 DEF Process
  <2> QED  BY <1>1, <2>1 DEF HandoverInv, HandoverType
<1>4. HandoverType'
  BY <1>1, <1>3 DEF HandoverInv, HandoverType
<1>5. NobodyIsIn' /\ InTurn'
  BY <1>1 DEF HandoverInv, NobodyIsIn, InTurn
<1>6. ClaudeQAlone'
  BY <1>1, <1>3, HandoverAssumption DEF HandoverInv, HandoverType, ClaudeQAlone
<1>7. ClaudeQGone'
  BY <1>1, <1>3 DEF HandoverInv, ClaudeQGone
<1> QED  BY <1>4, <1>5, <1>6, <1>7 DEF HandoverInv

LEMMA DaemonStepsStep ==
  ASSUME HandoverInv, NEW d \in Daemons, DaemonSteps(d)
  PROVE  HandoverInv'
<1>0. /\ d \in Openers /\ opening \in [Openers -> OpeningPc]
      /\ \A i \in Installers : i \in Openers /\ i # d
  BY HandoverAssumption DEF Openers, Installers, HandoverInv, HandoverType
<1>1. proc[d].pc \in {"lock", "start", "serve"}
        => proc[d].rel # ClaudeQ /\ home # "none"
  BY DEF HandoverInv, ClaudeQAlone, ClaudeQ, HandoverType, Process
<1>2. CASE Opened(d)
  <2>1. proc[d].rel # ClaudeQ /\ home # "none"
    BY <1>0, <1>2 DEF Opened, HandoverInv, ClaudeQAlone, InTurn
  <2>2. opening' = [opening EXCEPT ![d] = "idle"]
    BY <1>2 DEF Opened
  <2>3. /\ opening' \in [Openers -> OpeningPc]
        /\ \A x \in Openers : opening'[x] \in {opening[x], "idle"}
        /\ \A i \in Installers : opening'[i] = opening[i]
    BY <1>0, <2>2 DEF OpeningPc
  <2>4. /\ UNCHANGED <<legacyDir, home, disk, agents, plists, inst>> /\ port' \in {port, NoDaemon, d}
        /\ proc' = [proc EXCEPT ![d].pc = "lock"]
    BY <1>2 DEF Opened
  <2> QED  BY <2>1, <2>3, <2>4, DaemonGoesOn
<1>3. CASE LockDaemon(d)
  BY <1>0, <1>1, <1>3, DaemonGoesOn DEF LockDaemon
<1>4. CASE Startup(d)
  BY <1>0, <1>1, <1>4, DaemonGoesOn DEF Startup
<1>5. CASE Serve(d)
  BY <1>0, <1>1, <1>5, DaemonGoesOn DEF Serve
<1>6. CASE Drained(d)
  <2>1. CASE proc[d].rel = ClaudeQ
    BY <1>6, <2>1, ClaudeQDrained
  <2>2. CASE proc[d].rel # ClaudeQ
    <3>1. home # "none" /\ proc' = [proc EXCEPT ![d].pc = "close"]
      BY <1>6, <2>2 DEF Drained, HandoverInv, ClaudeQAlone
    <3>2. /\ UNCHANGED <<legacyDir, home, opening, disk, agents, plists, inst>>
          /\ port' \in {port, NoDaemon, d} /\ port' # d
      BY <1>6, HandoverAssumption DEF Drained
    <3> QED  BY <1>0, <2>2, <3>1, <3>2, DaemonGoesOn
  <2> QED  BY <2>1, <2>2
<1>7. CASE LockTimesOut(d)
  BY <1>7, DaemonGoes DEF LockTimesOut
<1>8. CASE Released(d)
  BY <1>8, DaemonGoes DEF Released
<1> QED  BY <1>2, <1>3, <1>4, <1>5, <1>6, <1>7, <1>8 DEF DaemonSteps

\* ClaudeQ's daemon comes back only where its agent is loaded, and only when there
\* is none: its port is free, or DispatchQ has a directory.
LEMMA SpawnStep ==
  ASSUME HandoverInv, NEW rel \in Nat, NEW agent \in {"claudeq", "dispatchq", "none"},
         Spawn(rel, agent),
         rel = ClaudeQ => /\ agent = "claudeq" /\ "claudeq" \in agents
                          /\ \A d \in Daemons : proc[d].agent # "claudeq"
  PROVE  HandoverInv'
<1>1. PICK d \in Daemons :
        /\ ~Alive(d)
        /\ IF rel = ClaudeQ
           THEN /\ proc' = [proc EXCEPT ![d] = [pc |-> "up", rel |-> rel, agent |-> agent]]
                /\ legacyDir' = IF legacyDir = "gone" THEN "anew" ELSE legacyDir
                /\ port' = IF SharedPort /\ port = NoDaemon THEN d ELSE port
                /\ UNCHANGED opening
           ELSE /\ proc' = [proc EXCEPT ![d] = [pc |-> "open", rel |-> rel, agent |-> agent]]
                /\ opening' = [opening EXCEPT ![d] = "look"]
                /\ UNCHANGED <<legacyDir, port>>
        /\ UNCHANGED <<home, disk, agents, plists, lock, inst, errored>>
  BY DEF Spawn
<1>2. /\ proc[d].pc = "off" /\ port # d
      /\ d \in Openers /\ \A i \in Installers : i \in Openers /\ i # d
  BY <1>1, HandoverAssumption DEF Alive, HandoverInv, ClaudeQAlone, Openers, Installers
<1>3. CASE rel = ClaudeQ
  <2>1. \A e \in Daemons : proc[e].rel # ClaudeQ
    BY <1>3 DEF HandoverInv, ClaudeQAlone
  <2>2. [pc |-> "up", rel |-> rel, agent |-> agent] \in Process
    BY DEF Process
  <2>3. /\ proc' \in [Daemons -> Process]
        /\ proc'[d] = [pc |-> "up", rel |-> rel, agent |-> "claudeq"]
        /\ \A e \in Daemons \ {d} : proc'[e] = proc[e]
    BY <1>1, <1>3, <2>2 DEF HandoverInv, HandoverType
  <2>4. port' \in {d, port} /\ port' \in Daemons \cup {NoDaemon}
    BY <1>1, <1>3 DEF HandoverInv, HandoverType
  <2>5. HandoverType'
    BY <1>1, <1>3, <2>3, <2>4 DEF HandoverInv, HandoverType
  <2>6. NobodyIsIn' /\ InTurn'
    BY <1>1, <1>3 DEF HandoverInv, NobodyIsIn, InTurn
  <2>7. home = "none" /\ SharedPort => port' = d
    <3>1. home = "none" => port = NoDaemon
      BY <2>1 DEF HandoverInv, HandoverType, ClaudeQAlone
    <3> QED  BY <1>1, <1>3, <3>1
  <2>8. ClaudeQAlone'
    BY <1>1, <1>2, <2>1, <2>3, <2>4, <2>7, <1>3 DEF HandoverInv, HandoverType, ClaudeQAlone
  <2>9. \A i \in Installers : ~inst[i].refused => inst[i].pc \notin {"stop", "wait", "data"}
    BY <1>3 DEF HandoverInv, ClaudeQGone
  <2>10. ClaudeQGone'
    BY <1>1, <2>9 DEF ClaudeQGone
  <2> QED  BY <2>5, <2>6, <2>8, <2>10 DEF HandoverInv
<1>4. CASE rel # ClaudeQ
  <2>1. [pc |-> "open", rel |-> rel, agent |-> agent] \in Process
    BY DEF Process
  <2>2. /\ proc' \in [Daemons -> Process]
        /\ proc'[d] = [pc |-> "open", rel |-> rel, agent |-> agent]
        /\ \A e \in Daemons \ {d} : proc'[e] = proc[e]
    BY <1>1, <1>4, <2>1 DEF HandoverInv, HandoverType
  <2>3. /\ opening' \in [Openers -> OpeningPc] /\ opening'[d] = "look"
        /\ \A x \in Openers \ {d} : opening'[x] = opening[x]
    BY <1>1, <1>2, <1>4 DEF HandoverInv, HandoverType, OpeningPc
  <2>4. HandoverType'
    BY <1>1, <1>4, <2>2, <2>3 DEF HandoverInv, HandoverType
  <2>5. NobodyIsIn' /\ InTurn'
    BY <1>1, <1>2, <1>4, <2>3 DEF HandoverInv, NobodyIsIn, InTurn
  <2>6. ClaudeQAlone'
    BY <1>1, <1>2, <1>4, <2>2 DEF HandoverInv, HandoverType, ClaudeQAlone
  <2>7. ClaudeQGone'
    BY <1>1, <1>4, <2>2 DEF HandoverInv, ClaudeQGone
  <2> QED  BY <2>4, <2>5, <2>6, <2>7 DEF HandoverInv
<1> QED  BY <1>3, <1>4

LEMMA LaunchSteps ==
  ASSUME HandoverInv, WindowStarts \/ \E a \in {"claudeq", "dispatchq"} : LaunchdStarts(a)
  PROVE  HandoverInv'
<1>1. disk \in Nat /\ disk # ClaudeQ /\ ClaudeQ \in Nat
  BY DEF HandoverInv, HandoverType, ClaudeQ
<1>2. CASE WindowStarts
  BY <1>1, <1>2, SpawnStep DEF WindowStarts
<1>3. ASSUME NEW a \in {"claudeq", "dispatchq"}, LaunchdStarts(a)  PROVE HandoverInv'
  <2>1. CASE a = "claudeq"
    BY <1>1, <1>3, <2>1, SpawnStep DEF LaunchdStarts
  <2>2. CASE a = "dispatchq"
    BY <1>1, <1>3, <2>2, SpawnStep DEF LaunchdStarts
  <2> QED  BY <2>1, <2>2
<1> QED  BY <1>2, <1>3

LEMMA HandoverInvStep ==
  ASSUME HandoverInv, [HandoverNext]_handover
  PROVE  HandoverInv'
<1>1. ASSUME NEW x \in Openers, Opening(x) \/ MoveFails(x)  PROVE HandoverInv'
  BY <1>1, OpeningStep, MoveFailsStep
<1>2. CASE CliStarts \/ CliEnds
  BY <1>2, CliSteps
<1>3. CASE WindowStarts \/ \E a \in {"claudeq", "dispatchq"} : LaunchdStarts(a)
  BY <1>3, LaunchSteps
<1>4. CASE WindowInstalls \/ Relaunch \/ PackageInstalls
  BY <1>4, InstallationsBegin
<1>5. ASSUME NEW d \in Daemons, DaemonSteps(d) \/ LaunchdKills(d) \/ DaemonCrashes(d)
      PROVE  HandoverInv'
  BY <1>5, DaemonStepsStep, DaemonGoes DEF LaunchdKills, DaemonCrashes
<1>6. ASSUME NEW i \in Installers, InstallerSteps(i) \/ InstallerTroubles(i)
      PROVE  HandoverInv'
  BY <1>6, BootOutSteps, InstallerStopsStrays, InstallerHasRoom, InstallerQuietSteps
     DEF InstallerSteps, InstallerTroubles
<1>7. CASE PackageSteps \/ TakeOverFails \/ Login
  BY <1>7, PackageEndsSteps, PackageQuietSteps, TakeOverFailsStep, LoginStep DEF PackageSteps
<1>8. CASE UNCHANGED handover
  BY <1>8 DEF handover, HandoverInv, HandoverType, NobodyIsIn, InTurn, ClaudeQAlone, ClaudeQGone
<1> QED
  BY <1>1, <1>2, <1>3, <1>4, <1>5, <1>6, <1>7, <1>8 DEF HandoverNext

\* While ClaudeQ's directory still holds the operator's data, nobody has made an
\* empty one for DispatchQ, however many processes look for it, move it, fail to or
\* are killed meanwhile (migrateLegacyHome, Open).
THEOREM DataStaysTogether == Spec => []DataIsOne
<1>1. Init => HandoverInv
  BY HandoverInvInit DEF Init
<1>2. HandoverInv /\ [Next]_directory => HandoverInv'
  <2>1. [Next]_directory => [HandoverNext]_handover
    BY DEF Next, InStore, InHandover, directory
  <2> QED  BY <2>1, HandoverInvStep
<1>3. HandoverInv => DataIsOne
  BY DEF HandoverInv, NobodyIsIn, DataIsOne
<1> QED  BY <1>1, <1>2, <1>3, PTL DEF Spec

\* What an installer moves is what nobody is writing to.
LEMMA MovesAlone ==
  ASSUME HandoverInv, HandoverNext, NEW i \in Installers, SharedPort, ~inst[i].refused,
         opening[i] = "move", opening'[i] = "link"
  PROVE  \A d \in Daemons : proc[d].rel = ClaudeQ => proc[d].pc = "close"
<1>1. inst[i].pc = "data" /\ i \in Openers /\ i \notin Daemons
  BY HandoverAssumption DEF HandoverInv, InTurn, Openers, Installers
<1>2. opening \in [Openers -> OpeningPc]
  BY DEF HandoverInv, HandoverType
<1>3. home = "none"
  <2>1. ASSUME NEW x \in Openers, Opening(x)  PROVE home = "none"
    <3>1. CASE x = i
      BY <1>1, <1>2, <2>1, <3>1
         DEF Opening, LookHome, LookLegacy, Move, Link, Open
    <3>2. CASE x # i
      <4>1. opening'[i] = opening[i]
        BY <1>1, <1>2, <2>1, <3>2 DEF Opening, LookHome, LookLegacy, Move, Link, Open
      <4> QED  BY <4>1
    <3> QED  BY <3>1, <3>2
  <2>3. ASSUME NEW after, Become(after)  PROVE FALSE
    BY <1>1, <2>3 DEF Become
  <2>2. ASSUME NEW x \in Openers, MoveFails(x)  PROVE FALSE
    <3>1. Exit(x) \/ opening' = [opening EXCEPT ![x] = "idle"]
      BY <2>2 DEF MoveFails
    <3> QED  BY <1>1, <1>2, <2>3, <3>1 DEF Exit
  <2>4. ASSUME NEW rel, NEW agent, Spawn(rel, agent)  PROVE FALSE
    <3>1. \/ UNCHANGED opening
          \/ \E d \in Daemons : opening' = [opening EXCEPT ![d] = "look"]
      BY <2>4 DEF Spawn
    <3> QED  BY <1>1, <1>2, <3>1
  <2>5. CASE CliStarts \/ CliEnds
    BY <1>1, <1>2, <2>5 DEF CliStarts, CliEnds
  <2>6. CASE WindowStarts \/ \E a \in {"claudeq", "dispatchq"} : LaunchdStarts(a)
    BY <2>4, <2>6 DEF WindowStarts, LaunchdStarts
  <2>7. CASE WindowInstalls \/ Relaunch \/ PackageInstalls
    BY <2>7 DEF WindowInstalls, Relaunch, PackageInstalls, OtherStarts
  <2>8. ASSUME NEW d \in Daemons, DaemonSteps(d) \/ LaunchdKills(d) \/ DaemonCrashes(d)
        PROVE  FALSE
    <3>1. \/ UNCHANGED opening
          \/ opening' = [opening EXCEPT ![d] = "idle"]
          \/ \E after : Become(after)
      BY <2>8 DEF DaemonSteps, Opened, LockDaemon, LockTimesOut, Startup, Serve, Drained,
                  Released, LaunchdKills, DaemonCrashes, Exit
    <3> QED  BY <1>1, <1>2, <2>3, <3>1
  <2>9. ASSUME NEW j \in Installers, InstallerSteps(j) \/ InstallerTroubles(j)
        PROVE  FALSE
    <3>1. \/ UNCHANGED opening
          \/ \E after : Become(after)
          \/ \E pc \in {"idle", "look"} : opening' = [opening EXCEPT ![j] = pc]
          \/ opening' = [x \in Openers |->
                           IF x \in Daemons THEN "idle"
                           ELSE IF x = j /\ Inst(j, "wait") THEN "look" ELSE opening[x]]
      BY <2>9 DEF InstallerSteps, InstallerTroubles, BootOutRefused, BootOutOwnRefused,
                  AlreadyLoaded, BootOutFails, BootstrapFails, BootOutClaudeQ, StopStrays,
                  PortIsFree, PortStaysHeld, AfterStrays, DataMoved, BootOutOwn, Bootstrap,
                  BootOut, Terminate
    <3> QED  BY <1>1, <1>2, <2>3, <3>1
  <2>10. CASE PackageSteps \/ TakeOverFails \/ Login
    <3>1. \/ UNCHANGED opening
          \/ \E after : Become(after)
          \/ \E after : opening' = [x \in Openers |->
               IF x = "other" \/ (x \in Daemons /\ after[x].pc = "off") THEN "idle"
               ELSE opening[x]]
      BY <2>10 DEF PackageSteps, TakeOver, TakeOverFails, Sweep, Pkill, Settled, NotSettled,
                   Retry, Login, KillAll, BootOut, Terminate
    <3> QED  BY <1>1, <2>3, <3>1
  <2> QED
    BY <2>1, <2>2, <2>5, <2>6, <2>7, <2>8, <2>9, <2>10 DEF HandoverNext
<1> QED
  BY <1>1, <1>3 DEF HandoverInv, ClaudeQGone

\* An installer that launchd has let unload ClaudeQ's agent moves its data only when
\* every daemon of ClaudeQ is gone or past its listener, for any number of processes
\* and whatever fails or crashes meanwhile: an installer that finds the port free
\* finds it given up by ClaudeQ (while DispatchQ has no directory nobody else can
\* have taken it), and neither launchd nor a login brings ClaudeQ back in its time.
THEOREM DataMovesAlone == Spec => MovedAlone
<1>1. Init => HandoverInv
  BY HandoverInvInit DEF Init
<1>2. [Next]_directory => [HandoverNext]_handover
  BY DEF Next, InStore, InHandover, directory
<1>3. HandoverInv /\ [Next]_directory => HandoverInv'
  BY <1>2, HandoverInvStep
<1>4. HandoverInv /\ [Next]_directory =>
        [\A i \in Installers :
           /\ SharedPort /\ ~inst[i].refused
           /\ opening[i] = "move" /\ opening'[i] = "link"
           => \A d \in Daemons : proc[d].rel = ClaudeQ => proc[d].pc = "close"]_handover
  BY <1>2, MovesAlone
<1> QED  BY <1>1, <1>3, <1>4, PTL DEF Spec, MovedAlone

=============================================================================
