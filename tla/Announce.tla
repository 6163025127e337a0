------------------------------ MODULE Announce ------------------------------
(***************************************************************************)
(* What tasks publish and say, and how the operator hears of it: artifacts *)
(* and their files, the outbox of `dispatchq notify`, the outcome of runs, *)
(* the inbox behind the Notifications view, and the read flags that carry  *)
(* over from a thing to the notification about it.                         *)
(*                                                                         *)
(* Three kinds of process share the files: the daemon (its loop, the       *)
(* goroutines that send, the requests of its API), and `dispatchq`         *)
(* processes started by tasks, which survive a crash of the daemon.  One   *)
(* action is one locked read or write of one file: everything a handler    *)
(* does between two of them can be interleaved with anybody else's steps.  *)
(*                                                                         *)
(* Simplifications: an id is drawn from 24 random bits and the second, so  *)
(* no two are equal; an entry of the inbox is written or the machine is    *)
(* broken; the channels behind the inbox (macOS, Pushover) keep no state.  *)
(* An operator that stands right before another of the same stem           *)
(* (LoopTakeLater, LoopTake) is a bug the properties have to notice.         *)
(***************************************************************************)
EXTENDS Integers, Sequences, FiniteSets, SequencesExt

CONSTANTS
    Artifacts,   \* ids of artifacts
    Runs,        \* ids of runs
    Messages,    \* ids of messages a task sends
    Cli,         \* `dispatchq publish` processes
    Requests,    \* requests the daemon's API serves at a time
    InboxLimit,  \* how many notifications the inbox keeps
    MaxCrashes,  \* bound: how often the daemon dies
    MaxSwitches  \* bound: how often the operator flips the setting

ASSUME AnnounceAssumption ==
    /\ InboxLimit \in Nat \ {0}
    /\ Artifacts \intersect (Runs \union Messages) = {}
    /\ Runs \intersect Messages = {}
    /\ Cli \intersect Requests = {}

VARIABLES
    arts,      \* artifacts.json: the ids, oldest first
    files,     \* artifacts/<id>/: "none", "partial" or "full"
    state,     \* state.json: the artifacts notified and read, the runs read
    outbox,    \* notifications.json: the messages queued, oldest first
    damaged,   \* the outbox cannot be parsed
    stale,     \* the queued messages that are older than taskNotifyMaxAge
    inbox,     \* inbox.json: what was announced and whether it was read
    muted,     \* Settings.ArtifactNotifyDisabled
    ended,     \* the runs history has the outcome of
    up,        \* the daemon runs
    loop,      \* its loop: where it is, what it read, what it has to send
    senders,   \* its goroutines: the messages each has left to send
    ops,       \* what every process and request is in the middle of
    crashes, switches,
    sent,      \* history: how often a thing was announced
    used,      \* history: the ids drawn so far
    gone,      \* history: the artifacts deleted
    quiet      \* history: the artifacts taken to stay unannounced

vars == <<arts, files, state, outbox, damaged, stale, inbox, muted, ended, up,
          loop, senders, ops, crashes, switches, sent, used, gone, quiet>>
bookVars == <<crashes, switches, sent, gone, quiet>>
daemonVars == <<up, loop, senders>>

Clients == Cli \union Requests
Items   == Artifacts \union Runs \union Messages
Idle    == [pc |-> "idle", ids |-> {}, all |-> FALSE]
AtRest  == [pc |-> "look", seen |-> <<>>, muted |-> FALSE, left |-> <<>>]

\* A list without what is dropped from it, in its order.
Without(list, dropped) ==
    LET kept[n \in 0..Len(list)] ==
          IF n = 0 THEN <<>>
          ELSE IF list[n] \in dropped THEN kept[n - 1]
          ELSE Append(kept[n - 1], list[n])
    IN  kept[Len(list)]

\* The daemon may find artifacts of a time before it announced any.  The ids
\* that are not in cast never occur.
InitWith(cast) ==
    /\ \E backlog \in {<<>>} \union {<<a>> : a \in cast \intersect Artifacts} :
         /\ arts = backlog
         /\ files = [a \in Artifacts |->
                       IF a \in ToSet(backlog) THEN "full" ELSE "none"]
    /\ state = [notified |-> {}, read |-> {}, primed |-> FALSE]
    /\ outbox = <<>> /\ damaged = FALSE /\ stale = {}
    /\ inbox = <<>> /\ ended = {}
    /\ muted \in BOOLEAN
    /\ up = TRUE /\ loop = AtRest /\ senders = {}
    /\ ops = [c \in Clients |-> Idle]
    /\ crashes = 0 /\ switches = 0
    /\ sent = [i \in Items |-> 0] /\ quiet = {}
    /\ used = ToSet(arts) \union (Items \ cast) /\ gone = {}

Init == InitWith(Items)

-----------------------------------------------------------------------------
(* `dispatchq publish`: make the directory, copy the file, list it.        *)

Step(c, op) == ops' = [ops EXCEPT ![c] = op]
At(c, pc)   == ops[c].pc = pc
Go(c, pc)   == Step(c, [ops[c] EXCEPT !.pc = pc])
Named(c)    == CHOOSE a \in ops[c].ids : TRUE

\* A directory that exists already makes the caller draw another id.
PublishBegin(c, a) ==
    /\ At(c, "idle")
    /\ a \notin used
    /\ used' = used \union {a}
    /\ files' = [files EXCEPT ![a] = "partial"]
    /\ Step(c, [pc |-> "copy", ids |-> {a}, all |-> FALSE])
    /\ UNCHANGED <<arts, state, outbox, damaged, stale, inbox, muted, ended,
                   bookVars, daemonVars>>

PublishCopyUnchecked(c) ==
    /\ At(c, "copy")
    /\ files' \in {[files EXCEPT ![Named(c)] = f] : f \in {"full", "partial"}}
    /\ Go(c, "record")
    /\ UNCHANGED <<arts, state, outbox, damaged, stale, inbox, muted, ended,
                   used, bookVars, daemonVars>>

\* A copy that fails takes its directory along.
PublishCopy(c) ==
    /\ At(c, "copy")
    /\ \/ /\ files' = [files EXCEPT ![Named(c)] = "full"]
          /\ Go(c, "record")
       \/ /\ files' = [files EXCEPT ![Named(c)] = "none"]
          /\ Step(c, Idle)
    /\ UNCHANGED <<arts, state, outbox, damaged, stale, inbox, muted, ended,
                   used, bookVars, daemonVars>>

\* A list that cannot be written takes the copy along.
PublishRecord(c) ==
    /\ At(c, "record")
    /\ \/ arts' = Append(arts, Named(c)) /\ UNCHANGED files
       \/ files' = [files EXCEPT ![Named(c)] = "none"] /\ UNCHANGED arts
    /\ Step(c, Idle)
    /\ UNCHANGED <<state, outbox, damaged, stale, inbox, muted, ended, used,
                   bookVars, daemonVars>>

\* The task is killed and its `dispatchq publish` with it: what it had copied
\* stays behind, unlisted.
CliDies(c) ==
    /\ ~At(c, "idle")
    /\ Step(c, Idle)
    /\ UNCHANGED <<arts, files, state, outbox, damaged, stale, inbox, muted,
                   ended, used, bookVars, daemonVars>>

-----------------------------------------------------------------------------
(* `dispatchq notify`, and what can happen to its outbox.                  *)

QueueNotification(m) ==
    /\ ~damaged
    /\ m \notin used
    /\ used' = used \union {m}
    /\ outbox' = Append(outbox, m)
    /\ UNCHANGED <<arts, files, state, damaged, stale, inbox, muted, ended,
                   ops, bookVars, daemonVars>>

\* Nobody took the outbox for a day: the daemon was down or the Mac asleep.
OutboxAges ==
    /\ outbox # <<>>
    /\ stale' = stale \union ToSet(outbox)
    /\ stale' # stale
    /\ UNCHANGED <<arts, files, state, outbox, damaged, inbox, muted, ended,
                   ops, used, bookVars, daemonVars>>

OutboxDamaged ==
    /\ outbox # <<>> /\ ~damaged
    /\ damaged' = TRUE
    /\ UNCHANGED <<arts, files, state, outbox, stale, inbox, muted, ended,
                   ops, used, bookVars, daemonVars>>

-----------------------------------------------------------------------------
(* The daemon's loop, after every tick.                                    *)

\* send: the inbox first, then the channels; the oldest entry makes room.
Entry(i) == [about |-> i, read |-> FALSE]
Newest(list) ==
    SubSeq(list, IF Len(list) > InboxLimit THEN Len(list) - InboxLimit + 1
                 ELSE 1, Len(list))
Send(i) ==
    /\ inbox' = Newest(Append(inbox, Entry(i)))
    /\ sent' = [sent EXCEPT ![i] = @ + 1]

\* The setting and the list are read without the state's lock.
LoopLook ==
    /\ up /\ loop.pc = "look"
    /\ loop' = [loop EXCEPT !.pc = "take", !.muted = muted, !.seen = arts]
    /\ UNCHANGED <<arts, files, state, outbox, damaged, stale, inbox, muted,
                   ended, up, senders, ops, used, bookVars>>

\* takeUnnotifiedArtifacts: recorded as notified before anything is sent.  The
\* first pass only takes stock.
Unnotified == Without(loop.seen, state.notified)
LoopTakeUnrecorded ==
    /\ up /\ loop.pc = "take"
    /\ state' = [state EXCEPT !.primed = TRUE,
                 !.notified = IF state.primed THEN @ ELSE ToSet(loop.seen)]
    /\ loop' = [AtRest EXCEPT !.pc = "send",
                   !.left = IF state.primed THEN Unnotified ELSE <<>>]
    /\ UNCHANGED <<arts, files, outbox, damaged, stale, inbox, muted, ended,
                   up, senders, ops, used, bookVars>>
LoopTakeLater ==
    /\ up /\ loop.pc = "take"
    /\ LET loud == state.primed /\ ~loop.muted IN
         /\ state' = [state EXCEPT !.primed = TRUE,
                      !.notified = IF loop.muted THEN @ ELSE @ \union ToSet(loop.seen)]
         /\ loop' = [AtRest EXCEPT !.pc = "send",
                                   !.left = IF loud THEN Unnotified ELSE <<>>]
         /\ quiet' = IF loud THEN quiet ELSE quiet \union ToSet(Unnotified)
    /\ UNCHANGED <<arts, files, outbox, damaged, stale, inbox, muted, ended,
                   up, senders, ops, used, gone, crashes, switches, sent>>
LoopTake ==
    /\ up /\ loop.pc = "take"
    /\ LET loud == state.primed /\ ~loop.muted IN
         /\ state' = [state EXCEPT !.primed = TRUE,
                                   !.notified = @ \union ToSet(loop.seen)]
         /\ loop' = [AtRest EXCEPT !.pc = "send",
                                   !.left = IF loud THEN Unnotified ELSE <<>>]
         /\ quiet' = IF loud THEN quiet ELSE quiet \union ToSet(Unnotified)
    /\ UNCHANGED <<arts, files, outbox, damaged, stale, inbox, muted, ended,
                   up, senders, ops, used, gone, crashes, switches, sent>>

LoopSend ==
    /\ up /\ loop.pc = "send"
    /\ IF loop.left = <<>>
       THEN /\ loop' = [loop EXCEPT !.pc = "outbox"]
            /\ UNCHANGED <<inbox, sent>>
       ELSE /\ Send(Head(loop.left))
            /\ loop' = [loop EXCEPT !.left = Tail(@)]
    /\ UNCHANGED <<arts, files, state, outbox, damaged, stale, muted, ended,
                   up, senders, ops, used, gone, crashes, switches, quiet>>

\* deliverTaskNotifications: the outbox is emptied before anything is sent; a
\* damaged one is set aside, and what is a day old is dropped.
LoopOutboxWedged ==
    /\ up /\ loop.pc = "outbox"
    /\ senders' = IF damaged \/ outbox = <<>> THEN senders
                  ELSE senders \union {outbox}
    /\ outbox' = IF damaged THEN outbox ELSE <<>>
    /\ loop' = AtRest
    /\ UNCHANGED <<arts, files, state, damaged, stale, inbox, muted, ended, up,
                   ops, used, bookVars>>
LoopOutbox ==
    /\ up /\ loop.pc = "outbox"
    /\ LET fresh == Without(outbox, stale) IN
         senders' = IF damaged \/ fresh = <<>> THEN senders
                    ELSE senders \union {fresh}
    /\ outbox' = <<>>
    /\ damaged' = FALSE
    /\ loop' = AtRest
    /\ UNCHANGED <<arts, files, state, stale, inbox, muted, ended, up, ops,
                   used, bookVars>>

SenderStep(s) ==
    /\ Send(Head(s))
    /\ senders' = (senders \ {s}) \union (IF Len(s) = 1 THEN {} ELSE {Tail(s)})
    /\ UNCHANGED <<arts, files, state, outbox, damaged, stale, muted, ended,
                   up, loop, ops, used, gone, crashes, switches, quiet>>

\* finish records the outcome, then the run's goroutine announces it: a failure
\* always, a success when the task asks for it.
RunEnds(r) ==
    /\ up /\ r \notin used
    /\ used' = used \union {r}
    /\ ended' = ended \union {r}
    /\ senders' \in {senders, senders \union {<<r>>}}
    /\ UNCHANGED <<arts, files, state, outbox, damaged, stale, inbox, muted,
                   up, loop, ops, bookVars>>

\* The daemon dies, and its goroutines and requests with it.
Crash ==
    /\ up /\ crashes < MaxCrashes
    /\ up' = FALSE /\ crashes' = crashes + 1
    /\ loop' = AtRest /\ senders' = {}
    /\ ops' = [c \in Clients |-> IF c \in Requests THEN Idle ELSE ops[c]]
    /\ UNCHANGED <<arts, files, state, outbox, damaged, stale, inbox, muted,
                   ended, switches, sent, used, gone, quiet>>

Restart ==
    /\ ~up /\ up' = TRUE
    /\ UNCHANGED <<arts, files, state, outbox, damaged, stale, inbox, muted,
                   ended, loop, senders, ops, used, bookVars>>

SwitchNotifications ==
    /\ up /\ switches < MaxSwitches
    /\ muted' = ~muted /\ switches' = switches + 1
    /\ UNCHANGED <<arts, files, state, outbox, damaged, stale, inbox, ended,
                   daemonVars, ops, crashes, sent, used, gone, quiet>>

-----------------------------------------------------------------------------
(* The requests of the operator.  Reading marks the thing, then looks for  *)
(* unread notifications about it, and only then writes the inbox.          *)

\* One thing (all = FALSE), or every artifact or run listed at this moment.
ReadBegin(c) ==
    /\ up /\ At(c, "idle")
    /\ \/ \E i \in ToSet(arts) \union ended :
            Step(c, [pc |-> "mark", ids |-> {i}, all |-> FALSE])
       \/ arts # <<>> /\ Step(c, [pc |-> "mark", ids |-> ToSet(arts), all |-> TRUE])
       \/ ended # {} /\ Step(c, [pc |-> "mark", ids |-> ended, all |-> TRUE])
    /\ UNCHANGED <<arts, files, state, outbox, damaged, stale, inbox, muted,
                   ended, used, bookVars, daemonVars>>

ReadMark(c) ==
    /\ At(c, "mark")
    /\ state' = [state EXCEPT !.read = @ \union ops[c].ids]
    /\ Go(c, "carry?")
    /\ UNCHANGED <<arts, files, outbox, damaged, stale, inbox, muted, ended,
                   used, bookVars, daemonVars>>

\* Marking all takes every notification about an artifact (about a run).
Matching(c) ==
    IF ~ops[c].all THEN ops[c].ids
    ELSE (IF ops[c].ids \subseteq Artifacts THEN Artifacts ELSE {})
           \union (IF ops[c].ids \subseteq Runs THEN Runs ELSE {})

MarkInbox(items) ==
    inbox' = [n \in DOMAIN inbox |-> [inbox[n] EXCEPT !.read = @ \/ inbox[n].about \in items]]

CarryLook(c) ==
    /\ At(c, "carry?")
    /\ IF \E n \in DOMAIN inbox : ~inbox[n].read /\ inbox[n].about \in Matching(c)
       THEN Go(c, "carry") ELSE Step(c, Idle)
    /\ UNCHANGED <<arts, files, state, outbox, damaged, stale, inbox, muted,
                   ended, used, bookVars, daemonVars>>

CarryWrite(c) ==
    /\ At(c, "carry")
    /\ MarkInbox(Matching(c))
    /\ Step(c, Idle)
    /\ UNCHANGED <<arts, files, state, outbox, damaged, stale, muted, ended,
                   used, bookVars, daemonVars>>

\* A click on one notification (a pruned one is not found), or all of them.
ReadNotification ==
    /\ up
    /\ \/ \E n \in DOMAIN inbox : inbox' = [inbox EXCEPT ![n].read = TRUE]
       \/ MarkInbox(Items)
    /\ UNCHANGED <<arts, files, state, outbox, damaged, stale, muted, ended,
                   ops, used, bookVars, daemonVars>>

\* DeleteArtifact: the record, the files, what the state knows of it.
DeleteBegin(c, a) ==
    /\ up /\ At(c, "idle") /\ a \in ToSet(arts)
    /\ arts' = Without(arts, {a})
    /\ gone' = gone \union {a}
    /\ Step(c, [pc |-> "unlink", ids |-> {a}, all |-> FALSE])
    /\ UNCHANGED <<files, state, outbox, damaged, stale, inbox, muted, ended,
                   crashes, switches, sent, quiet, used, daemonVars>>

DeleteFiles(c) ==
    /\ At(c, "unlink")
    /\ files' = [files EXCEPT ![Named(c)] = "none"]
    /\ Go(c, "forget")
    /\ UNCHANGED <<arts, state, outbox, damaged, stale, inbox, muted, ended,
                   used, bookVars, daemonVars>>

DeleteForget(c) ==
    /\ At(c, "forget")
    /\ state' = [state EXCEPT !.notified = @ \ ops[c].ids,
                              !.read = @ \ ops[c].ids]
    /\ Step(c, Idle)
    /\ UNCHANGED <<arts, files, outbox, damaged, stale, inbox, muted, ended,
                   used, bookVars, daemonVars>>

\* artifactContent: find the record, then open the file (404 when it is gone).
OpenFind(c, a) ==
    /\ up /\ At(c, "idle") /\ a \in ToSet(arts)
    /\ Step(c, [pc |-> "open", ids |-> {a}, all |-> FALSE])
    /\ UNCHANGED <<arts, files, state, outbox, damaged, stale, inbox, muted,
                   ended, used, bookVars, daemonVars>>

OpenServe(c) ==
    /\ At(c, "open")
    /\ Step(c, Idle)
    /\ UNCHANGED <<arts, files, state, outbox, damaged, stale, inbox, muted,
                   ended, used, bookVars, daemonVars>>

-----------------------------------------------------------------------------
Loop     == LoopLook \/ LoopTake \/ LoopSend \/ LoopOutbox
Sending  == \E s \in senders : SenderStep(s)
Publish  == \E c \in Cli : \/ \E a \in Artifacts : PublishBegin(c, a)
                           \/ PublishCopy(c) \/ PublishRecord(c) \/ CliDies(c)
Handle(c) == \/ ReadMark(c) \/ CarryLook(c) \/ CarryWrite(c)
             \/ DeleteFiles(c) \/ DeleteForget(c) \/ OpenServe(c)
Request  == \E c \in Requests :
              \/ ReadBegin(c) \/ Handle(c)
              \/ \E a \in Artifacts : DeleteBegin(c, a) \/ OpenFind(c, a)

Next ==
    \/ Loop \/ Sending \/ Publish \/ Request
    \/ \E m \in Messages : QueueNotification(m)
    \/ \E r \in Runs : RunEnds(r)
    \/ ReadNotification \/ SwitchNotifications
    \/ OutboxAges \/ OutboxDamaged \/ Crash \/ Restart

\* The loop ticks, goroutines run, and launchd starts the daemon again.
Fairness == WF_vars(Loop) /\ WF_vars(Sending) /\ WF_vars(Restart)
Spec == Init /\ [][Next]_vars /\ Fairness

-----------------------------------------------------------------------------
(* Properties                                                              *)

\* What the Artifacts view lists can be opened: its copy is complete, whoever
\* published, failed, deleted or died in between; and a request that found a
\* record serves the whole file or none (PublishArtifact copies before it
\* lists, DeleteArtifact unlists before it removes).
ListedCanBeOpened ==
    /\ \A a \in ToSet(arts) : files[a] = "full"
    /\ \A c \in Requests : At(c, "open") => \A a \in ops[c].ids : files[a] # "partial"

\* An artifact, a message and the outcome of a run is announced at most once,
\* also by a daemon that died in between and was started again: it is taken off
\* the list before it is sent.  (A deleted artifact is the exception: its id
\* may come back onto the record, and then it is taken once more.)
AnnouncedOnce == \A i \in Items \ gone : sent[i] <= 1

\* What was there before the daemon announced anything, and what was published
\* while the notifications were switched off, is never announced later.
QuietStaysQuiet == \A a \in quiet \ gone : sent[a] = 0

\* Nothing stays undelivered for good: a published artifact is taken, a queued
\* message leaves the outbox and is announced unless it had become a day old,
\* the file was damaged or the daemon died with it, and a damaged outbox does
\* not stop the ones that come later.
NothingStuck ==
    /\ \A a \in Artifacts : a \in ToSet(arts) ~> (a \in state.notified \union gone)
    /\ \A m \in Messages : (m \in ToSet(outbox)) ~>
         \/ m \notin ToSet(outbox) /\ (sent[m] = 1 \/ m \in stale \/ crashes > 0)
         \/ damaged
    /\ damaged ~> ~damaged
=============================================================================
