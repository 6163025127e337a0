------------------------------ MODULE Updates ------------------------------
(***************************************************************************)
(* How a running build learns of a newer release and gets it: the cached   *)
(* answer of GitHub, which the hourly worker and the operator's request    *)
(* refresh; the status the dashboard shows; the download of the package    *)
(* and the installer it opens; and the release that is on disk already     *)
(* while an older daemon still runs.                                       *)
(*                                                                         *)
(* Releases are numbers and are published in any order; none is withdrawn. *)
(* A development build is older than none and newer than none.  The        *)
(* hand-over itself is the subject of Installer.                           *)
(***************************************************************************)
EXTENDS Naturals, FiniteSets, FiniteSetsExt

CONSTANTS
  Releases,        \* what may be published
  WithoutPackage,  \* the releases that ship no installer
  DataFloor,       \* the oldest release that reads this build's data
  MaxDownloads     \* bound: how many downloads are asked for

ASSUME UpdatesAssumption ==
  /\ Releases \subseteq Nat \ {0} /\ Releases # {} /\ WithoutPackage \subseteq Releases
  /\ DataFloor \in Nat /\ MaxDownloads \in Nat

VARIABLES
  published, \* on GitHub
  disk,      \* the app in /Applications
  copy,      \* the app the daemon runs from, when that is another one
  running,   \* the build of the daemon
  releases,  \* Service.releases: the cached answer
  check,     \* the checks of the worker and of a request
  wanted,    \* what the operator asked for, and what was offered then
  download,  \* the download under way
  opened,    \* the package open in the macOS Installer
  dismissed, \* State.DismissedUpdate
  offered,   \* history: the newest release this daemon has offered
  downloads  \* how many downloads were asked for

updates == <<published, disk, copy, running, releases, check, wanted, download,
             opened, dismissed, offered, downloads>>

Dev      == 0
NotThere == 0
Checkers == {"worker", "request"}

NoCheck    == [pc |-> "off", got |-> {}]
NoDownload == [pc |-> "off", rel |-> NotThere]
Nothing    == [via |-> "none"]

Latest(rs)     == IF rs = {} THEN NotThere ELSE Max(rs)
HasPackage(r)  == r # NotThere /\ r \notin WithoutPackage

\* InstalledApp: the newer of the bundle the daemon lives in and the canonical one.
Installed == Latest({disk, copy} \ {NotThere})

-----------------------------------------------------------------------------
(* buildUpdateStatus.                                                       *)

RestartRequired == running # Dev /\ Installed > running

Available ==
  /\ running # Dev /\ ~RestartRequired
  /\ HasPackage(Latest(releases))
  /\ Latest(releases) > running
  /\ Latest(releases) # dismissed

Reinstall ==
  /\ running = Dev
  /\ HasPackage(Latest(releases))
  /\ Latest(releases) >= DataFloor

\* The dashboard asks for the status.
GetUpdate ==
  /\ offered' = IF Available \/ Reinstall THEN Max({offered, Latest(releases)}) ELSE offered
  /\ UNCHANGED <<published, disk, copy, running, releases, check, wanted, download,
                 opened, dismissed, downloads>>

\* The page names the release it shows, which may not be the latest any more.
DismissUpdate ==
  /\ offered # NotThere
  /\ dismissed' = offered
  /\ UNCHANGED <<published, disk, copy, running, releases, check, wanted, download,
                 opened, offered, downloads>>

-----------------------------------------------------------------------------
(* Service.CheckNow, one at a time.                                         *)

CheckAsked(c) ==
  /\ check[c].pc = "off"
  /\ check' = [check EXCEPT ![c].pc = "waiting"]
  /\ UNCHANGED <<published, disk, copy, running, releases, wanted, download, opened,
                 dismissed, offered, downloads>>

CheckMuUnasked == TRUE
CheckMuFree == \A c \in Checkers : check[c].pc \in {"off", "waiting"}

CheckLocks(c) ==
  /\ check[c].pc = "waiting" /\ CheckMuFree
  /\ check' = [check EXCEPT ![c].pc = "fetching"]
  /\ UNCHANGED <<published, disk, copy, running, releases, wanted, download, opened,
                 dismissed, offered, downloads>>

GitHubAnswers(c) ==
  /\ check[c].pc = "fetching"
  /\ check' = [check EXCEPT ![c] = [pc |-> "answered", got |-> published]]
  /\ UNCHANGED <<published, disk, copy, running, releases, wanted, download, opened,
                 dismissed, offered, downloads>>

CheckEnds(c) ==
  /\ check[c].pc = "answered"
  /\ releases' = check[c].got
  /\ check' = [check EXCEPT ![c] = NoCheck]
  /\ UNCHANGED <<published, disk, copy, running, wanted, download, opened, dismissed,
                 offered, downloads>>

\* A failure leaves what is known.
CheckFails(c) ==
  /\ check[c].pc = "fetching"
  /\ check' = [check EXCEPT ![c] = NoCheck]
  /\ UNCHANGED <<published, disk, copy, running, releases, wanted, download, opened,
                 dismissed, offered, downloads>>

-----------------------------------------------------------------------------
(* Service.Download.                                                        *)

AskDownload ==
  /\ wanted = Nothing /\ downloads < MaxDownloads
  /\ downloads' = downloads + 1
  /\ wanted' = [via |-> "download", offered |-> offered]
  /\ UNCHANGED <<published, disk, copy, running, releases, check, download, opened,
                 dismissed, offered>>

\* reinstallRelease refuses what the status does not offer, and then downloads.
AskReinstall ==
  /\ wanted = Nothing /\ downloads < MaxDownloads
  /\ downloads' = downloads + 1
  /\ Reinstall
  /\ wanted' = [via |-> "reinstall", offered |-> offered]
  /\ UNCHANGED <<published, disk, copy, running, releases, check, download, opened,
                 dismissed, offered>>

\* The release is the latest one now, whatever was asked for.
DownloadBegins ==
  /\ wanted # Nothing
  /\ download' = IF download.pc = "off" /\ HasPackage(Latest(releases))
                 THEN [pc |-> "fetching", rel |-> Latest(releases), ask |-> wanted]
                 ELSE download
  /\ wanted' = Nothing
  /\ UNCHANGED <<published, disk, copy, running, releases, check, opened, dismissed,
                 offered, downloads>>

\* The whole file takes its name at once, and is opened, if that works.
DownloadEnds ==
  /\ download.pc = "fetching"
  /\ opened' \in {opened, download.rel}
  /\ download' = NoDownload
  /\ UNCHANGED <<published, disk, copy, running, releases, check, wanted, dismissed,
                 offered, downloads>>

-----------------------------------------------------------------------------
(* The daemon is replaced: all that was in its memory is gone.              *)

Replaced(build) ==
  /\ running' = build
  /\ releases' = {} /\ check' = [c \in Checkers |-> NoCheck]
  /\ wanted' = Nothing /\ download' = NoDownload /\ offered' = NotThere

\* The installer puts its release on disk; the daemon may live on.
InstallerRuns ==
  /\ opened # NotThere
  /\ disk' = opened /\ opened' = NotThere
  /\ \/ Replaced(disk') /\ copy' = NotThere
     \/ UNCHANGED <<running, releases, check, wanted, download, offered, copy>>
  /\ UNCHANGED <<published, dismissed, downloads>>

\* relaunchUpdate hands over to the newest bundle there is.
RelaunchUpdate ==
  /\ Installed # NotThere
  /\ Replaced(Installed)
  /\ copy' = IF copy = Installed /\ disk # Installed THEN copy ELSE NotThere
  /\ UNCHANGED <<published, disk, opened, dismissed, downloads>>

\* launchd starts the same binary again, which may have become another build.
DaemonRestarts ==
  /\ Replaced(IF running # Dev /\ copy = NotThere THEN disk ELSE running)
  /\ UNCHANGED <<published, disk, copy, opened, dismissed, downloads>>

Publish ==
  /\ \E r \in Releases \ published : published' = published \cup {r}
  /\ UNCHANGED <<disk, copy, running, releases, check, wanted, download, opened,
                 dismissed, offered, downloads>>

-----------------------------------------------------------------------------

\* A release runs from /Applications or from a second copy, or a development
\* build runs beside whatever is installed.
UpdatesInit ==
  /\ published = {Min(Releases)}
  /\ disk = Min(Releases)
  /\ running \in {Dev, Min(Releases)}
  /\ copy \in {NotThere, running}
  /\ releases = {} /\ check = [c \in Checkers |-> NoCheck]
  /\ wanted = Nothing /\ download = NoDownload /\ opened = NotThere
  /\ dismissed = NotThere /\ offered = NotThere /\ downloads = 0

UpdatesNext ==
  \/ GetUpdate \/ DismissUpdate \/ Publish
  \/ \E c \in Checkers :
       CheckAsked(c) \/ CheckLocks(c) \/ GitHubAnswers(c) \/ CheckEnds(c) \/ CheckFails(c)
  \/ AskDownload \/ AskReinstall \/ DownloadBegins \/ DownloadEnds
  \/ InstallerRuns \/ RelaunchUpdate \/ DaemonRestarts

-----------------------------------------------------------------------------

\* The installer that opens is never of an older release than the newest the
\* dashboard had offered when it was asked for, however the checks of the
\* worker and of the operator overlap with the download; and what replaces a
\* development build through the reinstallation reads its data.
OpensWhatWasOffered ==
  [][opened' \notin {opened, NotThere} =>
       /\ opened' >= download.ask.offered
       /\ download.ask.via = "reinstall" => opened' >= DataFloor]_updates
=============================================================================
