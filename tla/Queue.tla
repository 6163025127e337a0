------------------------------- MODULE Queue -------------------------------
(***************************************************************************)
(* The queue as the operator arranges it: the stored list is the priority  *)
(* order, the tasks of a group stand together, and every command of the    *)
(* CLI and every request of the dashboard that changes the list or the     *)
(* settings beside it in config.toml.                                      *)
(*                                                                         *)
(* A locked read-change-write of one file (UpdateConfig, UpdateState) is   *)
(* one action; what a handler reads before it takes the lock, and what it  *)
(* writes after it has let go, are actions of their own, so that anybody   *)
(* can come in between.  What the daemon does to the tasks is in Engine:   *)
(* here it only takes a finished one-shot off the list.  The scheduling    *)
(* state that removing and importing forget is Engine's too.               *)
(*                                                                         *)
(* A task is its place, its group, its switch and what it waits for; the   *)
(* switch stands for every setting a form shows.  Validation looks at one  *)
(* task alone: the tasks that occur here are the valid ones.               *)
(*                                                                         *)
(* An operator that stands right before another of the same stem           *)
(* (RenamedInPlace, Renamed) is a bug the properties have to notice.       *)
(***************************************************************************)
EXTENDS Clients, SequencesExt

CONSTANTS
    Ids,         \* ids of tasks
    Recurring,   \* the ids of cron tasks
    Groups,      \* names of groups
    NoGroup,     \* the name of the ungrouped section
    Files,       \* the tasks .dispatchq files hold
    InitialQueues

ASSUME QueueAssumption == NoGroup \notin Groups /\ Recurring \subseteq Ids

VARIABLES
    tasks,     \* Config.Tasks: the queue, highest priority first
    settings,  \* Config.Settings: the pause switch, and the rest as one text
    folded,    \* State.CollapsedGroups
    history,   \* the tasks that have a recorded run
    owed,      \* history: the ids queued and neither removed nor finished
    lost, back,  \* history: the ids a save of the settings dropped, revived
    known,     \* history: the ids that ever stood in the queue
    imported   \* history: a bundle was imported

queueVars == <<tasks, settings, folded, history, ops, left, owed, lost, back,
          known, imported>>
ghosts == <<owed, lost, back, known, imported>>

AnyGroup == Groups \union {NoGroup}

Task == [id : Ids, group : AnyGroup, on : BOOLEAN, deps : SUBSET Ids]

IdsOf(q)      == {q[i].id : i \in DOMAIN q}
GroupsOf(q)   == {q[i].group : i \in DOMAIN q}
IndexOf(q, id) == CHOOSE i \in DOMAIN q : q[i].id = id
TaskOf(q, id) == q[IndexOf(q, id)]

Distinct(q) == \A i, j \in DOMAIN q : q[i].id = q[j].id => i = j

\* The tasks of one group stand together.
Grouped(q) == \A i, j, k \in DOMAIN q :
    i < j /\ j < k /\ q[i].group = q[k].group => q[j].group = q[i].group

\* The list the operations begin with, and what is imported.
ASSUME InitialQueuesAssumption ==
    /\ \A q \in InitialQueues : q \in Seq(Task) /\ Distinct(q) /\ Grouped(q)
    /\ Files \subseteq Task

QueueInit ==
    /\ tasks \in InitialQueues
    /\ settings = [paused |-> FALSE, rest |-> FALSE]
    /\ folded = GroupsOf(tasks) \ {NoGroup}
    /\ history = {}
    /\ owed = IdsOf(tasks) /\ known = IdsOf(tasks)
    /\ lost = {} /\ back = {}
    /\ imported = FALSE

-----------------------------------------------------------------------------
(* The order of the list.                                                  *)

\* Where the section of a group begins: blockOrder is the order of these.
StartOf(q, g) == CHOOSE i \in DOMAIN q : q[i].group = g /\ \A j \in 1..(i - 1) : q[j].group # g

\* The tasks by their rank; those of one rank as they stand.
NotAfter(rank, j, i) == rank[j] < rank[i] \/ (rank[j] = rank[i] /\ j <= i)
Place(rank, i) == Cardinality({j \in DOMAIN rank : NotAfter(rank, j, i)})
ByRank(q, rank) == [k \in DOMAIN q |-> q[CHOOSE i \in DOMAIN q : Place(rank, i) = k]]

GroupedOrderAsIs(q) == q
GroupedOrder(q) == ByRank(q, [i \in DOMAIN q |-> StartOf(q, q[i].group)])

\* moveTask: the index is clamped, and the block follows its first task.
MovedTo(q, id, group, to) ==
    LET from == IndexOf(q, id)
        at   == IF to < 1 THEN 1 ELSE IF to > Len(q) THEN Len(q) ELSE to
    IN GroupedOrder(InsertAt(RemoveAt(q, from), at, [q[from] EXCEPT !.group = group]))

\* RenameGroup: a plain rename keeps the place of the group, a merge the place
\* of the group that was there, whose tasks stay ahead of the ones that join.
Regrouped(q, from, to) ==
    [i \in DOMAIN q |-> IF q[i].group = from THEN [q[i] EXCEPT !.group = to] ELSE q[i]]
RenamedInPlace(q, from, to) == GroupedOrder(Regrouped(q, from, to))
Renamed(q, from, to) ==
    ByRank(Regrouped(q, from, to),
           [i \in DOMAIN q |->
              IF q[i].group = from /\ to \in GroupsOf(q) THEN 2 * StartOf(q, to) + 1
              ELSE 2 * StartOf(q, q[i].group)])

\* MoveGroup: in front of another section, or behind all.
BlockMoved(q, name, before) ==
    LET there == IF before = {} THEN 2 * Len(q) + 1
                 ELSE 2 * StartOf(q, CHOOSE g \in before : TRUE) - 1
    IN ByRank(q, [i \in DOMAIN q |->
                    IF q[i].group = name THEN there ELSE 2 * StartOf(q, q[i].group)])

-----------------------------------------------------------------------------
(* Steps all operations share.                                             *)

PruneNext == [pc |-> "prune?"]

Queued(id) == owed' = owed \union {id} /\ known' = known \union {id}
Unqueued(id) == owed' = owed \ {id} /\ UNCHANGED known

\* Replace one task and restore the order; refused when it is gone.
Replaced(t) == GroupedOrder(ReplaceAt(tasks, IndexOf(tasks, t.id), t))

-----------------------------------------------------------------------------
(* Adding: `dispatchq add`, `dispatchq queue`, POST /api/tasks.            *)

\* checkDependencies, before the lock is taken.
CanBeWaitedFor(dep) ==
    IF dep \in IdsOf(tasks) THEN dep \notin Recurring ELSE dep \in history

\* The check comes first; a task that passes it is written under the lock.
Checked(c, t, retries) ==
    /\ Begin(c)
    /\ Goto(c, IF \A d \in t.deps : CanBeWaitedFor(d)
               THEN [pc |-> "add", task |-> t, retries |-> retries] ELSE Idle)
    /\ UNCHANGED <<tasks, settings, folded, history, ghosts>>

NewTask(id, group, deps) == [id |-> id, group |-> group, on |-> TRUE, deps |-> deps]
Waits(id) == IF id \in Recurring THEN {{}} ELSE SUBSET (Ids \ {id})

\* The command takes an id and no dependencies, the request both.
AddCommand(c, id) ==
    \E group \in AnyGroup : Checked(c, NewTask(id, group, {}), FALSE)
AddRequest(c, id) ==
    \E group \in AnyGroup, deps \in Waits(id) \ {{}} :
        Checked(c, NewTask(id, group, deps), FALSE)

\* A job queued by a run is a copy of the calling task: its group may be the
\* same.  Its dependencies are its own, and so is its id; when the id is taken
\* another is drawn.
FollowUp(id) == {NewTask(id, group, deps) : group \in AnyGroup, deps \in Waits(id)}
QueueCommand(c, id) ==
    /\ id \notin known
    /\ \E t \in FollowUp(id) : Checked(c, t, TRUE)

AddWrite(c) ==
    /\ At(c, "add")
    /\ LET t == ops[c].task IN
         IF t.id \in IdsOf(tasks)
         THEN /\ IF ops[c].retries /\ Ids \ (known \union Recurring \union t.deps) # {}
                 THEN \E id \in Ids \ (known \union Recurring \union t.deps) :
                        Goto(c, [ops[c] EXCEPT !.task.id = id])
                 ELSE Goto(c, Idle)
              /\ UNCHANGED <<tasks, ghosts>>
         ELSE /\ tasks' = GroupedOrder(Append(tasks, t))
              /\ Queued(t.id)
              /\ Goto(c, Idle)
              /\ UNCHANGED <<lost, back, imported>>
    /\ UNCHANGED <<settings, folded, history, left>>

\* ImportTask: an id that is taken gets another; the task goes to the end.
UniqueId(q, want) == IF want \in IdsOf(q) THEN Ids \ IdsOf(q) ELSE {want}
ImportTask(file) ==
    /\ OneEvent
    /\ \E id \in UniqueId(tasks, file.id) :
         /\ tasks' = Append(tasks, [file EXCEPT !.id = id])
         /\ Queued(id)
    /\ imported' = TRUE
    /\ UNCHANGED <<settings, folded, history, ops, lost, back>>

-----------------------------------------------------------------------------
(* Changing a task.                                                        *)

\* What an edit may ask for: another group, or another setting.
Edits(t) == {[t EXCEPT !.group = g] : g \in AnyGroup} \union {[t EXCEPT !.on = ~@]}

\* `dispatchq edit` with flags: the flags are applied under the lock.
EditFlags(c, id) ==
    /\ Begin(c) /\ id \in IdsOf(tasks)
    /\ \E t \in Edits(TaskOf(tasks, id)) : tasks' = Replaced(t)
    /\ Goto(c, PruneNext)
    /\ UNCHANGED <<settings, folded, history, ghosts>>

\* `dispatchq edit` with an editor: the document is compared under the lock
\* with the one the editor was given, and what it does not show is dropped.
EditorOpen(c, id) ==
    /\ Begin(c) /\ id \in IdsOf(tasks)
    /\ Goto(c, [pc |-> "editor", task |-> TaskOf(tasks, id)])
    /\ UNCHANGED <<tasks, settings, folded, history, ghosts>>

Document(t) == [id |-> t.id, group |-> t.group, on |-> t.on]

Decoded(t)  == [t EXCEPT !.deps = {}]

EditorSave(c) ==
    /\ At(c, "editor")
    /\ LET orig == ops[c].task IN
         IF orig.id \in IdsOf(tasks) /\ Document(TaskOf(tasks, orig.id)) = Document(orig)
         THEN /\ \E t \in Edits(orig) : tasks' = Replaced(Decoded(t))
              /\ Goto(c, PruneNext)
         ELSE Goto(c, Idle) /\ UNCHANGED tasks
    /\ UNCHANGED <<settings, folded, history, left, ghosts>>

\* The dashboard's form: loaded once, sent back whole (PUT).  The group is the
\* one the handler finds stored; everything else is what the form carries.
FormOpen(c, id) ==
    /\ Begin(c) /\ id \in IdsOf(tasks)
    /\ Goto(c, [pc |-> "form", task |-> TaskOf(tasks, id)])
    /\ UNCHANGED <<tasks, settings, folded, history, ghosts>>

FormReceived(c) ==
    /\ At(c, "form")
    /\ LET t == ops[c].task IN
         Goto(c, [pc |-> "put",
                  task |-> [t EXCEPT !.group =
                     IF t.id \in IdsOf(tasks) THEN TaskOf(tasks, t.id).group ELSE NoGroup]])
    /\ UNCHANGED <<tasks, settings, folded, history, left, ghosts>>

FormWriteUpserts(c) ==
    /\ At(c, "put")
    /\ tasks' = IF ops[c].task.id \in IdsOf(tasks) THEN Replaced(ops[c].task)
                ELSE GroupedOrder(Append(tasks, ops[c].task))
    /\ Goto(c, PruneNext)
    /\ UNCHANGED <<settings, folded, history, left, ghosts>>
FormWrite(c) ==
    /\ At(c, "put")
    /\ IF ops[c].task.id \in IdsOf(tasks)
       THEN tasks' = Replaced(ops[c].task) /\ Goto(c, PruneNext)
       ELSE UNCHANGED tasks /\ Goto(c, Idle)
    /\ UNCHANGED <<settings, folded, history, left, ghosts>>

SetEnabled(id) ==
    /\ OneEvent /\ id \in IdsOf(tasks)
    /\ tasks' = [tasks EXCEPT ![IndexOf(tasks, id)].on = ~@]
    /\ UNCHANGED <<settings, folded, history, ops, ghosts>>

RemoveTask(c, id) ==
    /\ Begin(c) /\ id \in IdsOf(tasks)
    /\ tasks' = RemoveAt(tasks, IndexOf(tasks, id))
    /\ Unqueued(id)
    /\ Goto(c, PruneNext)
    /\ UNCHANGED <<settings, folded, history, lost, back, imported>>

-----------------------------------------------------------------------------
(* Arranging the list.                                                     *)

Move(id) ==
    /\ OneEvent /\ id \in IdsOf(tasks)
    /\ \E to \in 1..Len(tasks) + 1 :
         tasks' = MovedTo(tasks, id, TaskOf(tasks, id).group, to)
    /\ UNCHANGED <<settings, folded, history, ops, ghosts>>

MoveToGroup(c, id) ==
    /\ Begin(c) /\ id \in IdsOf(tasks)
    /\ \E to \in 1..Len(tasks) + 1, group \in AnyGroup :
         tasks' = MovedTo(tasks, id, group, to)
    /\ Goto(c, PruneNext)
    /\ UNCHANGED <<settings, folded, history, ghosts>>

MoveGroup(name) ==
    /\ OneEvent /\ name \in GroupsOf(tasks)
    /\ \E before \in {{}} \union {{g} : g \in GroupsOf(tasks) \ {name}} :
         tasks' = BlockMoved(tasks, name, before)
    /\ UNCHANGED <<settings, folded, history, ops, ghosts>>

RenameGroup(c, from, to) ==
    /\ Begin(c) /\ from # to /\ from \in GroupsOf(tasks)
    /\ tasks' = Renamed(tasks, from, to)
    /\ Goto(c, [pc |-> "refold", from |-> from, to |-> to,
                merged |-> to \in GroupsOf(tasks)])
    /\ UNCHANGED <<settings, folded, history, ghosts>>

RenameFold(c) ==
    /\ At(c, "refold")
    /\ LET op == ops[c]
           joins == IF op.from \in folded /\ ~op.merged THEN {op.to} ELSE {}
       IN folded' = (folded \union joins) \ {op.from}
    /\ Goto(c, Idle)
    /\ UNCHANGED <<tasks, settings, history, left, ghosts>>

SetGroupCollapsed(g) ==
    /\ OneEvent
    /\ folded' \in {folded \union {g}, folded \ {g}}
    /\ UNCHANGED <<tasks, settings, history, ops, ghosts>>

\* pruneGroupState: the list is read before the state is locked.
PruneLook(c) ==
    /\ At(c, "prune?")
    /\ Goto(c, [pc |-> "prune", live |-> GroupsOf(tasks)])
    /\ UNCHANGED <<tasks, settings, folded, history, left, ghosts>>

PruneWrite(c) ==
    /\ At(c, "prune")
    /\ folded' = folded \intersect ops[c].live
    /\ Goto(c, Idle)
    /\ UNCHANGED <<tasks, settings, history, left, ghosts>>

-----------------------------------------------------------------------------
(* The settings beside the queue.                                          *)

SetPaused ==
    /\ OneEvent
    /\ settings' = [settings EXCEPT !.paused = ~@]
    /\ UNCHANGED <<tasks, folded, history, ops, ghosts>>

\* `dispatchq settings`, SetBackfillUrgency: changed under the lock.
PatchSettings ==
    /\ OneEvent
    /\ settings' = [settings EXCEPT !.rest = ~@]
    /\ UNCHANGED <<tasks, folded, history, ops, ghosts>>

\* putSettings: the whole configuration is loaded, and saved with the settings
\* of the form; only the switches that have endpoints of their own are kept.
SettingsLoad(c) ==
    /\ Begin(c)
    /\ Goto(c, [pc |-> "save", tasks |-> tasks,
                settings |-> [paused |-> settings.paused, rest |-> ~settings.rest]])
    /\ UNCHANGED <<tasks, settings, folded, history, ghosts>>

SettingsSave(c) ==
    /\ At(c, "save")
    /\ tasks' = ops[c].tasks
    /\ settings' = ops[c].settings
    /\ lost' = lost \union (IdsOf(tasks) \ IdsOf(tasks'))
    /\ back' = back \union (IdsOf(tasks') \ IdsOf(tasks))
    /\ Goto(c, Idle)
    /\ UNCHANGED <<folded, history, left, owed, known, imported>>

\* The daemon records a run, and takes the one-shot it was off the list.
DaemonRetires(id) ==
    /\ id \in IdsOf(tasks) /\ TaskOf(tasks, id).on /\ ~settings.paused
    /\ TaskOf(tasks, id).deps \subseteq history
    /\ history' = history \union {id}
    /\ IF id \in Recurring THEN UNCHANGED <<tasks, owed, known>>
       ELSE tasks' = RemoveAt(tasks, IndexOf(tasks, id)) /\ Unqueued(id)
    /\ UNCHANGED <<settings, folded, ops, left, lost, back, imported>>

-----------------------------------------------------------------------------
\* An operation of one step is over before it can be in anybody's way.
OneStep ==
    \/ \E id \in Ids : SetEnabled(id) \/ Move(id)
    \/ \E file \in Files : ImportTask(file)
    \/ \E g \in Groups : MoveGroup(g) \/ SetGroupCollapsed(g)
    \/ SetPaused \/ PatchSettings
Commands(c) ==
    \/ \E id \in Ids : \/ AddCommand(c, id) \/ AddRequest(c, id) \/ QueueCommand(c, id)
                       \/ EditFlags(c, id) \/ EditorOpen(c, id) \/ FormOpen(c, id)
                       \/ RemoveTask(c, id) \/ MoveToGroup(c, id)
    \/ \E g, to \in Groups : RenameGroup(c, g, to)
    \/ SettingsLoad(c)
Continues(c) ==
    \/ AddWrite(c) \/ EditorSave(c) \/ FormReceived(c) \/ FormWrite(c)
    \/ RenameFold(c) \/ PruneLook(c) \/ PruneWrite(c) \/ SettingsSave(c)
QueueNext == \/ OneStep
             \/ \E c \in Clients : Commands(c) \/ Continues(c)
             \/ \E id \in Ids : DaemonRetires(id)

-----------------------------------------------------------------------------
(* Properties                                                              *)

\* The stored list reads like the queue looks: the tasks of one group stand
\* together, in every order of commands (GroupedOrder's comment) -- until a
\* bundle is imported, which appends without restoring the order.
GroupsTogether == ~imported => Grouped(tasks)

\* Priority is the order of the list: only a move changes the order of two
\* tasks of which neither changes its group, except that an edit that takes a
\* task to another group may bring that group forward.  Adding, removing,
\* finishing, switching and renaming -- also onto a group that is there --
\* promote nobody.
SameOrder(p, q, stay) ==
    \A x, y \in stay : IndexOf(p, x) < IndexOf(p, y) => IndexOf(q, x) < IndexOf(q, y)
Stay(p, q) == {id \in IdsOf(p) \intersect IdsOf(q) : TaskOf(p, id).group = TaskOf(q, id).group}
Rearranges(c) ==
    \/ \E id \in Ids : EditFlags(c, id) \/ MoveToGroup(c, id)
    \/ EditorSave(c) \/ FormWrite(c) \/ SettingsSave(c)
PriorityKept ==
    [][\/ SameOrder(tasks, tasks', Stay(tasks, tasks'))
       \/ imported
       \/ \E id \in Ids : Move(id)
       \/ \E g \in Groups : MoveGroup(g)
       \/ \E c \in Clients : Rearranges(c)]_queueVars

\* Nobody's change of the queue is lost to anybody else's: what was queued is
\* there until it is removed or has finished, and what was removed stays away.
\* putSettings is the one exception (see ChangesKept).
QueueIsOwed == IdsOf(tasks) \ (lost \union back) = owed \ (lost \union back)

\* The same without the exception: app.go says that mutations go through the
\* store's atomic update helpers so concurrent callers never lose each other's
\* changes.  putSettings loads the configuration, and saves all of it later.
ChangesKept == IdsOf(tasks) = owed
=============================================================================
