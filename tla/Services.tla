------------------------------ MODULE Services ------------------------------
(***************************************************************************)
(* The services the daemon keeps beside the queue: what it remembers of    *)
(* its providers (Readings), the search for a newer release (Updates), the *)
(* wakes it has registered (Wakes), and the two kinds of prompt review     *)
(* (Reviews).  They share no state and never wait for one another, so      *)
(* their interleavings say nothing that each of them alone does not: a     *)
(* behaviour is one of one service.                                        *)
(***************************************************************************)
EXTENDS Readings, Updates, Wakes, Reviews

VARIABLE service  \* the one this behaviour is about

services == <<service, readings, updates, wakes, reviews>>

Init ==
  /\ service \in {"readings", "updates", "wakes", "rename check", "draft reviews"}
  /\ ReadingsInit /\ UpdatesInit /\ WakesInit /\ ReviewsInit
  \* A service the behaviour is not about stands still in one of its states.
  /\ service # "updates" => copy = NotThere /\ running = Dev
  /\ service \notin {"rename check", "draft reviews"} => done /\ \A p \in Prompts : ~text[p].names

ServeReadings == service = "readings" /\ ReadingsNext /\ UNCHANGED <<updates, wakes, reviews>>
ServeUpdates  == service = "updates" /\ UpdatesNext /\ UNCHANGED <<readings, wakes, reviews>>
ServeWakes    == service = "wakes" /\ WakesNext /\ UNCHANGED <<readings, updates, reviews>>
ServeRename   == service = "rename check" /\ CheckingNext /\ UNCHANGED <<readings, updates, wakes>>
ServeDrafts   == service = "draft reviews" /\ DraftingNext /\ UNCHANGED <<readings, updates, wakes>>

Next ==
  /\ UNCHANGED service
  /\ \/ ServeReadings \/ ServeUpdates \/ ServeWakes
     \/ ServeRename \/ ServeDrafts

Spec == Init /\ [][Next]_services
=============================================================================
