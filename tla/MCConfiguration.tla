-------------------------- MODULE MCConfiguration --------------------------
(***************************************************************************)
(* Configuration for TLC.  The queue starts with a join behind the job it  *)
(* waits for, each in a group, or with a recurring task; the providers     *)
(* with a fresh installation, or with a fallback, a pool and a task.       *)
(***************************************************************************)
EXTENDS Configuration

CONSTANTS a, b, c, g, h, k1, k2, p, q, r, claude, codex, t1

T(id, group, deps) == [id |-> id, group |-> group, on |-> TRUE, deps |-> deps]
Arranged == {<<T(a, g, {}), T(b, h, {a})>>, <<T(c, g, {})>>}
OneUngroupedFile == {T(a, NoGroup, {})}

On(kind, fallback) == [kind |-> kind, on |-> TRUE, fallback |-> fallback]
NoPools == [i \in {} |-> <<>>]
Configs ==
    { [providers |-> p :> On(claude, None), pools |-> NoPools, default |-> p,
       tasks |-> [t \in Tasks |-> [provider |-> None, pool |-> None]]],
      [providers |-> p :> On(claude, q) @@ q :> On(claude, None),
       pools |-> r :> <<q>>, default |-> p,
       tasks |-> [t \in Tasks |-> [provider |-> None, pool |-> r]]] }

\* Nothing tells two clients apart.
AnyClient == Permutations(Clients)
=============================================================================
