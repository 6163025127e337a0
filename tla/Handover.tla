------------------------------ MODULE Handover ------------------------------
(***************************************************************************)
(* How the background service changes hands when an installation is        *)
(* updated: the data directory of ClaudeQ (1.x) becomes DispatchQ's, and   *)
(* the running daemon gives way to the one on disk.                        *)
(*                                                                         *)
(* Daemons are processes that go through DefaultHome, LockDaemon and the   *)
(* start-up of `dispatchqd run`; installers are runs of `dispatchqd        *)
(* install` (by the package's postinstall script, by the window, or by the *)
(* relaunch request); a command of the CLI is one more process that opens  *)
(* the data directory.  All of them run at once.  launchd restarts the     *)
(* process of a loaded agent whenever it is gone.                          *)
(*                                                                         *)
(* `left` bounds what happens from outside: crashes, failures and requests.*)
(*                                                                         *)
(* An operator that stands right before another of the same stem is a bug  *)
(* the properties have to notice.                                          *)
(***************************************************************************)
EXTENDS Naturals, FiniteSets

CONSTANTS
  Daemons,      \* slots for daemon processes
  NoDaemon,     \* no process
  MaxEvents,    \* how much happens from outside
  FirstRelease, \* the release of DispatchQ on disk at the start
  SharedPort    \* ClaudeQ listens where DispatchQ does; its oldest releases did not

ASSUME HandoverAssumption ==
  /\ NoDaemon \notin Daemons /\ Daemons # {}
  /\ Daemons \cap {"package", "other", "cli"} = {}
  /\ MaxEvents \in Nat /\ FirstRelease \in Nat /\ FirstRelease > 1
  /\ SharedPort \in BOOLEAN

ClaudeQ    == 1                               \* a release of ClaudeQ
Installers == {"package", "other"}  \* "other": by the window or a relaunch
Openers    == Daemons \cup Installers \cup {"cli"}

VARIABLES
  legacyDir,  \* ClaudeQ's directory: "data", "gone", "link", or made anew
  home,       \* DispatchQ's directory: "none", "data" or "empty"
  opening,    \* how far each process is in DefaultHome
  disk,       \* the release of the app on disk
  agents,     \* the agents launchd keeps alive
  plists,     \* the agents it loads at the next login
  proc,       \* the daemon processes
  lock,       \* who holds the daemon lock
  port,       \* who listens on the dashboard port
  inst,       \* how far each installer is
  errored,    \* the installers since whose start an installation ended in an error
  left        \* events left

handover == <<legacyDir, home, opening, disk, agents, plists, proc, lock, port, inst,
              errored, left>>

Off == [pc |-> "off", rel |-> 0, agent |-> "none"]

Alive(d)      == proc[d].pc # "off"
Serving       == port # NoDaemon /\ proc[port].rel # ClaudeQ
\* Before it handles signals, a daemon dies of the first one.
StartingUp(d) == proc[d].pc \in {"open", "lock", "start"}

Event == left > 0 /\ left' = left - 1
Calm  == UNCHANGED left

-----------------------------------------------------------------------------
(* Signals.  SIGTERM lets a serving daemon drain; SIGKILL frees what it had. *)

Terminated(ds) ==
  [d \in Daemons |->
     IF d \notin ds \/ ~Alive(d) THEN proc[d]
     ELSE IF StartingUp(d) THEN Off
     ELSE IF proc[d].pc \in {"serve", "up"} THEN [proc[d] EXCEPT !.pc = "drain"]
     ELSE proc[d]]

Freed(holder, after) ==
  IF holder # NoDaemon /\ after[holder].pc = "off" THEN NoDaemon ELSE holder

Become(after) ==
  /\ proc' = after
  /\ lock' = Freed(lock, after)
  /\ port' = Freed(port, after)
  /\ opening' = [x \in Openers |->
                   IF x \in Daemons /\ after[x].pc = "off" THEN "idle" ELSE opening[x]]

Terminate(ds) == Become(Terminated(ds))
KillAll       == Become([d \in Daemons |-> Off])
Exit(d)       == Become([proc EXCEPT ![d] = Off])

\* An installer goes on to another point of its way.  The package tries twice
\* before it gives up.
GoTo(i, pc) ==
  /\ inst' = [inst EXCEPT ![i].pc = pc]
  /\ errored' = IF pc = "failed" /\ (i = "other" \/ inst[i].try = 2)
                THEN Installers ELSE errored

-----------------------------------------------------------------------------
(* DefaultHome and migrateLegacyHome, one file operation at a time.         *)

LookHome(x) ==
  /\ opening[x] = "look"
  /\ opening' = [opening EXCEPT ![x] = IF home = "none" THEN "look back" ELSE "open"]
  /\ UNCHANGED <<legacyDir, home>>

LookLegacy(x) ==
  /\ opening[x] = "look back"
  /\ opening' = [opening EXCEPT
       ![x] = IF legacyDir \in {"data", "anew"} THEN "move" ELSE "open"]
  /\ UNCHANGED <<legacyDir, home>>

\* The rename fails on a directory that is there already: somebody moved it.
Move(x) ==
  /\ opening[x] = "move"
  /\ IF home = "none"
     THEN /\ home' = "data" /\ legacyDir' = "gone"
          /\ opening' = [opening EXCEPT ![x] = "link"]
     ELSE /\ opening' = [opening EXCEPT ![x] = "open"]
          /\ UNCHANGED <<legacyDir, home>>

Link(x) ==
  /\ opening[x] = "link"
  /\ legacyDir' = IF legacyDir = "gone" THEN "link" ELSE legacyDir
  /\ opening' = [opening EXCEPT ![x] = "open"]
  /\ UNCHANGED home

\* Open makes the directory when there is none.
Open(x) ==
  /\ opening[x] = "open"
  /\ home' = IF home = "none" THEN "empty" ELSE home
  /\ opening' = [opening EXCEPT ![x] = "opened"]
  /\ UNCHANGED legacyDir

Opening(x) ==
  /\ LookHome(x) \/ LookLegacy(x) \/ Move(x) \/ Link(x) \/ Open(x)
  /\ UNCHANGED <<disk, agents, plists, proc, lock, port, inst, errored>> /\ Calm

MoveFailsSilently(x) ==
  /\ opening[x] = "move" /\ home = "none" /\ Event
  /\ opening' = [opening EXCEPT ![x] = "open"]
  /\ UNCHANGED <<legacyDir, home, disk, agents, plists, proc, lock, port, inst, errored>>

\* A move or a link that fails for another reason than that it is there already
\* ends the process; after the link, the move is done all the same.
MoveFails(x) ==
  /\ \/ opening[x] = "move" /\ home = "none"
     \/ opening[x] = "link" /\ legacyDir = "gone"
  /\ Event
  /\ IF x \in Daemons THEN Exit(x)
     ELSE opening' = [opening EXCEPT ![x] = "idle"] /\ UNCHANGED <<proc, lock, port>>
  /\ IF x \in Installers THEN GoTo(x, "failed") ELSE UNCHANGED <<inst, errored>>
  /\ UNCHANGED <<legacyDir, home, disk, agents, plists>>

CliStarts ==
  /\ opening["cli"] = "idle" /\ disk # 0 /\ Event
  /\ opening' = [opening EXCEPT !["cli"] = "look"]
  /\ UNCHANGED <<legacyDir, home, disk, agents, plists, proc, lock, port, inst, errored>>

CliEnds ==
  /\ opening["cli"] = "opened"
  /\ opening' = [opening EXCEPT !["cli"] = "idle"]
  /\ UNCHANGED <<legacyDir, home, disk, agents, plists, proc, lock, port, inst, errored>> /\ Calm

-----------------------------------------------------------------------------
(* A daemon's life.  ClaudeQ's daemon is not part of this code: it listens   *)
(* on a port, works in its own directory, and knows no daemon lock.          *)

Spawn(rel, agent) ==
  \E d \in Daemons :
    /\ ~Alive(d)
    /\ IF rel = ClaudeQ
       THEN /\ proc' = [proc EXCEPT ![d] = [pc |-> "up", rel |-> rel, agent |-> agent]]
            /\ legacyDir' = IF legacyDir = "gone" THEN "anew" ELSE legacyDir
            /\ port' = IF SharedPort /\ port = NoDaemon THEN d ELSE port
            /\ UNCHANGED opening
       ELSE /\ proc' = [proc EXCEPT ![d] = [pc |-> "open", rel |-> rel, agent |-> agent]]
            /\ opening' = [opening EXCEPT ![d] = "look"]
            /\ UNCHANGED <<legacyDir, port>>
    /\ UNCHANGED <<home, disk, agents, plists, lock, inst, errored>>

\* KeepAlive and RunAtLoad: the agent's process is started whenever it is gone.
LaunchdStarts(a) ==
  /\ a \in agents
  /\ \A d \in Daemons : proc[d].agent # a
  /\ Spawn(IF a = "claudeq" THEN ClaudeQ ELSE disk, a) /\ Calm

\* launchd kills what a booted-out agent leaves running.
LaunchdKills(d) ==
  /\ proc[d].pc \in {"drain", "close"} /\ proc[d].agent \notin agents \cup {"none"}
  /\ Exit(d)
  /\ UNCHANGED <<legacyDir, home, disk, agents, plists, inst, errored>> /\ Calm

\* The window starts a daemon of its own when none answers its probes.
WindowStarts ==
  /\ disk # 0 /\ Event
  /\ Spawn(disk, "none")

Opened(d) ==
  /\ proc[d].pc = "open" /\ opening[d] = "opened"
  /\ opening' = [opening EXCEPT ![d] = "idle"]
  /\ proc' = [proc EXCEPT ![d].pc = "lock"]
  /\ UNCHANGED <<legacyDir, home, disk, agents, plists, lock, port, inst, errored>> /\ Calm

LockDaemonUnasked(d) ==
  /\ proc[d].pc = "lock"
  /\ lock' = d
  /\ proc' = [proc EXCEPT ![d].pc = "start"]
  /\ UNCHANGED <<legacyDir, home, opening, disk, agents, plists, port, inst, errored>> /\ Calm

LockDaemon(d) ==
  /\ proc[d].pc = "lock" /\ lock = NoDaemon
  /\ lock' = d
  /\ proc' = [proc EXCEPT ![d].pc = "start"]
  /\ UNCHANGED <<legacyDir, home, opening, disk, agents, plists, port, inst, errored>> /\ Calm

\* After daemonLockWait the daemon exits, naming the one that holds the lock.
LockTimesOut(d) ==
  /\ proc[d].pc = "lock" /\ lock # NoDaemon
  /\ Exit(d)
  /\ UNCHANGED <<legacyDir, home, disk, agents, plists, inst, errored>> /\ Calm

\* The files are primed, reconciled, pruned and migrated.
Startup(d) ==
  /\ proc[d].pc = "start"
  /\ proc' = [proc EXCEPT ![d].pc = "serve"]
  /\ UNCHANGED <<legacyDir, home, opening, disk, agents, plists, lock, port, inst, errored>> /\ Calm

\* A port that is taken leaves the daemon without a dashboard.
Serve(d) ==
  /\ proc[d].pc = "serve"
  /\ proc' = [proc EXCEPT ![d].pc = "up"]
  /\ port' = IF port = NoDaemon THEN d ELSE port
  /\ UNCHANGED <<legacyDir, home, opening, disk, agents, plists, lock, inst, errored>> /\ Calm

\* The deferred calls of cmdRun: the listener goes first, the lock and the
\* process last of all.  ClaudeQ is taken to do the same.
Drained(d) ==
  /\ proc[d].pc = "drain"
  /\ proc' = [proc EXCEPT ![d].pc = "close"]
  /\ port' = IF port = d THEN NoDaemon ELSE port
  /\ UNCHANGED <<legacyDir, home, opening, disk, agents, plists, lock, inst, errored>> /\ Calm

Released(d) ==
  /\ proc[d].pc = "close"
  /\ Exit(d)
  /\ UNCHANGED <<legacyDir, home, disk, agents, plists, inst, errored>> /\ Calm

DaemonCrashes(d) ==
  /\ Alive(d) /\ Event
  /\ Exit(d)
  /\ UNCHANGED <<legacyDir, home, disk, agents, plists, inst, errored>>
=============================================================================
