--------------------------- MODULE DataDirectory ---------------------------
(***************************************************************************)
(* The data directory: how it is shared by the processes that use it       *)
(* (Store), and how it changes hands when an installation is updated       *)
(* (Installer).  The first is about the files in it and the second about   *)
(* whose it is; neither reads the state of the other, and a behaviour is   *)
(* one of either.                                                          *)
(***************************************************************************)
EXTENDS Store, Installer

VARIABLE part  \* the one this behaviour is about

directory == <<part, store, handover>>

\* The part it is not about stands still in one of its states.
Init ==
  /\ part \in {"shared", "handed over"}
  /\ StoreInit /\ HandoverInit
  /\ part = "shared" => legacyDir = "data"

InStore(A)    == part = "shared" /\ A /\ UNCHANGED <<part, handover>>
InHandover(A) == part = "handed over" /\ A /\ UNCHANGED <<part, store>>

Next == InStore(StoreNext) \/ InHandover(HandoverNext)

Spec == Init /\ [][Next]_directory

\* Goroutines are scheduled and programs run on; launchd starts the process of
\* a loaded agent once there is a slot for it.  Nothing from outside, and no
\* crash, has to happen.
FairSpec ==
  /\ Spec
  /\ \A t \in Threads : WF_directory(InStore(Steps(t)))
  /\ WF_directory(InHandover(CliEnds \/ \E x \in Openers : Opening(x)))
  /\ WF_directory(InHandover(\E i \in Installers : InstallerSteps(i)))
  /\ WF_directory(InHandover(PackageSteps))
  /\ \A a \in {"claudeq", "dispatchq"} : SF_directory(InHandover(LaunchdStarts(a)))
  /\ \A d \in Daemons : WF_directory(InHandover(DaemonSteps(d)))
=============================================================================
