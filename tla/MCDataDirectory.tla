-------------------------- MODULE MCDataDirectory --------------------------
(***************************************************************************)
(* Instances of DataDirectory for TLC: a daemon of two goroutines and a    *)
(* command share it; two daemons at a time, two installers and a command   *)
(* hand it over.                                                           *)
(***************************************************************************)
EXTENDS DataDirectory, TLC

CONSTANTS daemon, cli, g1, g2, c1
Owners == g1 :> daemon @@ g2 :> daemon @@ c1 :> cli
=============================================================================
