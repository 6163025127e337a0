----------------------------- MODULE MCAnnounce -----------------------------
(* Announce on small instances: one behaviour has two artifacts, another an *)
(* artifact and a run, another an artifact and messages.                    *)
EXTENDS Announce

CONSTANTS a1, a2, m1, m2, r1

Casts == {{a1, a2}, {a1, r1}, {m1, m2}, {a1, m1}}

MCInit == \E cast \in Casts : InitWith(cast)
MCSpec == MCInit /\ [][Next]_vars /\ Fairness
=============================================================================
