----------------------------- MODULE Installer -----------------------------
(***************************************************************************)
(* `dispatchqd install` and the package's postinstall script around it:    *)
(* old agents are booted out, their daemons stopped, the data directory    *)
(* moved, and DispatchQ's agent is set up for the release on disk.         *)
(***************************************************************************)
EXTENDS Handover

Running(i)   == inst[i].pc \notin {"off", "done", "failed"}
Inst(i, pc)  == inst[i].pc = pc
Starts(pc, try) == [pc |-> pc, try |-> try, refused |-> FALSE]

OfAgent(a) == {d \in Daemons : proc[d].agent = a}

\* launchctl bootout: the job goes, its process is asked to end.  When launchctl
\* refuses, the job stays, and its error is dropped by all who call it.
BootOut(as) ==
  /\ agents' = agents \ as
  /\ Terminate(UNION {OfAgent(a) : a \in as})

Same == UNCHANGED <<legacyDir, home, disk, plists>> /\ Calm

-----------------------------------------------------------------------------
(* postinstall: the take-over, verified and tried twice.                    *)

\* pkill by name ends the daemons, and any other `dispatchqd install`, which
\* says nothing any more.
Pkill(after, pc) ==
  /\ proc' = after /\ lock' = Freed(lock, after) /\ port' = Freed(port, after)
  /\ opening' = [x \in Openers |->
       IF x = "other" \/ (x \in Daemons /\ after[x].pc = "off") THEN "idle"
       ELSE opening[x]]
  /\ inst' = [inst EXCEPT !["package"].pc = pc,
                          !["other"].pc = IF Running("other") THEN "off" ELSE @]
  /\ UNCHANGED <<legacyDir, home, disk, errored>>

\* Both agents first, so that launchd revives nothing, as far as it lets them go.
TakeOver ==
  /\ Inst("package", "takeover")
  /\ \/ agents' = {} /\ Calm
     \/ agents' \in SUBSET agents \ {{}} /\ Event
  /\ plists' = {}
  /\ Pkill(Terminated(Daemons), "sweep")

\* A plist that cannot be removed ends the attempt, ClaudeQ's before the other
\* agent is looked at.
TakeOverFails ==
  /\ Inst("package", "takeover") /\ Event
  /\ \E a \in plists :
       /\ BootOut(IF a = "claudeq" THEN {a} ELSE {"claudeq", "dispatchq"})
       /\ plists' = IF a = "claudeq" THEN plists ELSE {a}
  /\ GoTo("package", "failed")
  /\ UNCHANGED <<legacyDir, home, disk>>

Sweep ==
  /\ Inst("package", "sweep")
  /\ Pkill([d \in Daemons |-> Off], "bootout")
  /\ UNCHANGED <<agents, plists>> /\ Calm

\* The script asks the dashboard which release answers.
IsSettled == /\ Serving /\ proc[port].rel = disk
             /\ \A d \in Daemons : proc[d].rel # ClaudeQ

Settled ==
  /\ Inst("package", "settle") /\ IsSettled
  /\ GoTo("package", "done")
  /\ Same /\ UNCHANGED <<opening, agents, proc, lock, port>>

NotSettled ==
  /\ Inst("package", "settle") /\ ~IsSettled
  /\ GoTo("package", "failed")
  /\ Same /\ UNCHANGED <<opening, agents, proc, lock, port>>

Retry ==
  /\ Inst("package", "failed") /\ inst["package"].try = 1
  /\ inst' = [inst EXCEPT !["package"] = Starts("takeover", 2)]
  /\ Same /\ UNCHANGED <<opening, agents, proc, lock, port, errored>>

-----------------------------------------------------------------------------
(* cmdInstall.                                                              *)

\* ClaudeQ's agent goes before anything else.
BootOutClaudeQ(i) ==
  /\ Inst(i, "bootout")
  /\ BootOut({"claudeq"}) /\ plists' = plists \ {"claudeq"}
  /\ GoTo(i, "stop")
  /\ UNCHANGED <<legacyDir, home, disk>> /\ Calm

\* The error of launchctl is dropped: ClaudeQ is still loaded, and its plist gone.
BootOutRefused(i) ==
  /\ Inst(i, "bootout") /\ "claudeq" \in agents /\ Event
  /\ plists' = plists \ {"claudeq"}
  /\ inst' = [inst EXCEPT ![i].pc = "stop", ![i].refused = TRUE]
  /\ UNCHANGED <<legacyDir, home, disk, opening, agents, proc, lock, port, errored>>

\* A plist that cannot be removed ends the installation, and is there at the next
\* login.
BootOutFails(i) ==
  /\ Inst(i, "bootout") /\ "claudeq" \in plists /\ Event
  /\ BootOut({"claudeq"}) /\ GoTo(i, "failed")
  /\ UNCHANGED <<legacyDir, home, disk, plists>>

\* killStrayDaemons, before the data is moved and again before the agent is
\* installed: SIGTERM, and SIGKILL when the port is not free in time.
StopStrays(i) ==
  /\ inst[i].pc \in {"stop", "stop again"}
  /\ Terminate(Daemons)
  /\ GoTo(i, IF Inst(i, "stop") THEN "wait" ELSE "wait again")
  /\ Same /\ UNCHANGED agents

AfterStrays(i, from) ==
  IF from = "wait"
  THEN GoTo(i, "data") /\ opening' = [opening EXCEPT ![i] = "look"]
  ELSE GoTo(i, "agent") /\ UNCHANGED opening

PortIsNotAsked(i) ==
  /\ inst[i].pc \in {"wait", "wait again"}
  /\ AfterStrays(i, inst[i].pc)
  /\ Same /\ UNCHANGED <<agents, proc, lock, port>>

PortIsFree(i) ==
  /\ inst[i].pc \in {"wait", "wait again"} /\ port = NoDaemon
  /\ AfterStrays(i, inst[i].pc)
  /\ Same /\ UNCHANGED <<agents, proc, lock, port>>

PortStaysHeld(i) ==
  /\ inst[i].pc \in {"wait", "wait again"} /\ port # NoDaemon
  /\ proc' = [d \in Daemons |-> Off] /\ lock' = NoDaemon /\ port' = NoDaemon
  /\ GoTo(i, IF Inst(i, "wait") THEN "data" ELSE "agent")
  /\ opening' = [x \in Openers |->
       IF x \in Daemons THEN "idle"
       ELSE IF x = i /\ Inst(i, "wait") THEN "look" ELSE opening[x]]
  /\ Same /\ UNCHANGED agents

DataMoved(i) ==
  /\ Inst(i, "data") /\ opening[i] = "opened"
  /\ opening' = [opening EXCEPT ![i] = "idle"]
  /\ GoTo(i, "stop again")
  /\ Same /\ UNCHANGED <<agents, proc, lock, port>>

\* Agent.Install: the plist is written, what is loaded goes out, or stays if
\* launchctl refuses; the release on disk comes in.
BootOutOwn(i) ==
  /\ Inst(i, "agent")
  /\ plists' = plists \cup {"dispatchq"}
  /\ BootOut({"dispatchq"}) /\ GoTo(i, "bootstrap")
  /\ UNCHANGED <<legacyDir, home, disk>> /\ Calm

BootOutOwnRefused(i) ==
  /\ Inst(i, "agent") /\ "dispatchq" \in agents /\ Event
  /\ plists' = plists \cup {"dispatchq"}
  /\ GoTo(i, "bootstrap")
  /\ UNCHANGED <<legacyDir, home, disk, opening, agents, proc, lock, port>>

Bootstrap(i) ==
  /\ Inst(i, "bootstrap") /\ "dispatchq" \notin agents
  /\ agents' = agents \cup {"dispatchq"}
  /\ GoTo(i, IF i = "package" THEN "settle" ELSE "done")
  /\ Same /\ UNCHANGED <<opening, proc, lock, port>>

\* launchctl bootstraps nothing that is loaded already.
AlreadyLoaded(i) ==
  /\ Inst(i, "bootstrap") /\ "dispatchq" \in agents
  /\ GoTo(i, "failed")
  /\ Same /\ UNCHANGED <<opening, agents, proc, lock, port>>

\* Before the agent is loaded (enable, bootstrap) or after it (kickstart).
BootstrapFails(i) ==
  /\ Inst(i, "bootstrap") /\ Event
  /\ agents' \in {agents, agents \cup {"dispatchq"}}
  /\ GoTo(i, "failed")
  /\ UNCHANGED <<legacyDir, home, disk, plists, opening, proc, lock, port>>

-----------------------------------------------------------------------------
(* Who starts an installation, besides the package.                         *)

OtherStarts ==
  /\ ~Running("other") /\ disk # 0 /\ Event
  /\ inst' = [inst EXCEPT !["other"] = Starts("bootout", 1)]
  /\ errored' = errored \ {"other"}
  /\ UNCHANGED <<legacyDir, home, disk, opening, agents, plists, proc, lock, port>>

\* The window finds ClaudeQ's plist still in place.
WindowInstalls == "claudeq" \in plists /\ OtherStarts

\* The dashboard's relaunch: the release on disk takes over.
Relaunch == Serving /\ OtherStarts

\* The macOS Installer puts a release on disk and runs postinstall.
PackageInstalls ==
  /\ ~Running("package") /\ Event
  /\ disk' = disk + 1
  /\ inst' = [inst EXCEPT !["package"] = Starts("takeover", 1)]
  /\ errored' = errored \ {"package"}
  /\ UNCHANGED <<legacyDir, home, opening, agents, plists, proc, lock, port>>

\* The operator logs out and in again while nothing is being installed: launchd
\* loads what has a plist.
Login ==
  /\ \A i \in Installers : ~Running(i)
  /\ ~(Inst("package", "failed") /\ inst["package"].try = 1)
  /\ opening["cli"] = "idle" /\ Event
  /\ KillAll /\ agents' = plists
  /\ UNCHANGED <<legacyDir, home, disk, plists, inst, errored>>

-----------------------------------------------------------------------------

\* ClaudeQ runs and the package has just put DispatchQ on disk; or nothing of
\* either was here before.
HandoverInit ==
  \E updated \in BOOLEAN :
    /\ legacyDir = IF updated THEN "data" ELSE "gone"
    /\ home = "none"
    /\ opening = [x \in Openers |-> "idle"]
    /\ disk = FirstRelease
    /\ agents = IF updated THEN {"claudeq"} ELSE {}
    /\ plists = agents
    /\ LET d == CHOOSE d \in Daemons : TRUE
       IN /\ proc = [e \in Daemons |->
                       IF updated /\ e = d
                       THEN [pc |-> "up", rel |-> ClaudeQ, agent |-> "claudeq"] ELSE Off]
          /\ port = IF updated /\ SharedPort THEN d ELSE NoDaemon
    /\ lock = NoDaemon
    /\ inst = [i \in Installers |-> Starts(IF i = "package" THEN "takeover" ELSE "off", 1)]
    /\ errored = {}
    /\ left = MaxEvents

DaemonSteps(d) ==
  Opened(d) \/ LockDaemon(d) \/ LockTimesOut(d) \/ Startup(d) \/ Serve(d)
    \/ Drained(d) \/ Released(d)

InstallerSteps(i) ==
  BootOutClaudeQ(i) \/ StopStrays(i) \/ PortIsFree(i) \/ PortStaysHeld(i)
    \/ DataMoved(i) \/ BootOutOwn(i) \/ Bootstrap(i) \/ AlreadyLoaded(i)

InstallerTroubles(i) ==
  BootOutRefused(i) \/ BootOutFails(i) \/ BootOutOwnRefused(i) \/ BootstrapFails(i)

PackageSteps == TakeOver \/ Sweep \/ Settled \/ NotSettled \/ Retry

HandoverNext ==
  \/ \E x \in Openers : Opening(x) \/ MoveFails(x)
  \/ CliStarts \/ CliEnds \/ WindowStarts \/ WindowInstalls \/ Relaunch \/ PackageInstalls
  \/ Login
  \/ \E a \in {"claudeq", "dispatchq"} : LaunchdStarts(a)
  \/ \E d \in Daemons : DaemonSteps(d) \/ LaunchdKills(d) \/ DaemonCrashes(d)
  \/ \E i \in Installers : InstallerSteps(i) \/ InstallerTroubles(i)
  \/ PackageSteps \/ TakeOverFails

-----------------------------------------------------------------------------
(* Properties                                                              *)

\* An installer moves ClaudeQ's data only when every daemon of ClaudeQ is gone or
\* past its listener: none is left over from the kill, and launchd has revived
\* none in between (cmdInstall's order; store/rename.go).  What it waits for is the
\* port and not the process, so a daemon that has closed its listener may not have
\* ended yet, and an old ClaudeQ that listened elsewhere is not waited for at all.
\* And the error of launchctl is dropped (launchd.go:137): when it refuses to let
\* ClaudeQ go, launchd revives it, and the data is moved under a daemon that writes.
MovedAlone ==
  [][\A i \in Installers :
       /\ SharedPort /\ ~inst[i].refused
       /\ opening[i] = "move" /\ opening'[i] = "link"
       => \A d \in Daemons : proc[d].rel = ClaudeQ => proc[d].pc = "close"]_handover

\* The operator's data is in one place: while ClaudeQ's directory still holds
\* it, no process has made an empty one for DispatchQ, whoever else was moving
\* it, failed to, or was killed half-way (migrateLegacyHome, Open).
DataIsOne == legacyDir = "data" => home = "none"

\* An installation that is done is followed by a daemon of the release on disk,
\* holding the lock and answering on the dashboard's port, with nothing of ClaudeQ
\* left; unless an installation has ended in an error since it began, one beside it
\* or a later one.  The exception is the dropped error again: an installation may
\* be done with ClaudeQ still loaded.
NewTakesOver ==
  \A i \in Installers :
    inst[i].pc = "done" /\ ~inst[i].refused
      ~> (IsSettled /\ lock = port) \/ i \in errored
=============================================================================
