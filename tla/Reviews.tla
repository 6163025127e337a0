------------------------------ MODULE Reviews ------------------------------
(***************************************************************************)
(* What a harness is asked about prompts.  While the operator types, the   *)
(* dashboard has the draft reviewed, and only the newest review matters.   *)
(* After the update from ClaudeQ, one check in the background reviews      *)
(* every prompt that still names it, a few at a time; the operator applies *)
(* the rewrites, unless the prompt was edited in between.                  *)
(*                                                                         *)
(* A prompt is whether it names ClaudeQ and the last edit it holds; the    *)
(* custom system prompt is one of them.                                    *)
(***************************************************************************)
EXTENDS Naturals, FiniteSets

CONSTANTS
  Prompts,              \* the tasks with a prompt, and the system prompt
  RenameCheckParallel,  \* how many are reviewed at once
  MaxPromptEdits,       \* bound: how often a prompt is edited
  MaxChecks,            \* bound: how often the check is started
  MaxDrafts             \* bound: how many drafts are reviewed

ASSUME ReviewsAssumption ==
  {RenameCheckParallel, MaxPromptEdits, MaxChecks, MaxDrafts} \subseteq Nat \ {0}

VARIABLES
  text,      \* the prompts in config.toml
  edited,    \* history: how often the operator edited each
  done,      \* State.RenameCheckDone
  rename,    \* renameJob.check
  asking,    \* what the requests that start a check have read
  jobs,      \* the background work of the checks that were started
  started,   \* how many were
  apply,     \* the request that applies rewrites
  drafts,    \* the reviews of drafts in flight
  reviewGen, reviewCancel  \* the number of the newest, and whom to cancel

checking == <<text, edited, done, rename, asking, jobs, started, apply>>
drafting == <<drafts, reviewGen, reviewCancel>>
reviews  == <<checking, drafting>>

\* Reviewer.Review ends within its time-out: with an error, with nothing to
\* say, or with a finding that may come with a rewrite.
Results == {"error", "ok", "finding", "rewrite"}

-----------------------------------------------------------------------------
(* The rename check.                                                        *)

NoRename == [state |-> "idle", total |-> 0, checked |-> 0, errors |-> 0, findings |-> {}]
NoApply  == [pc |-> "none"]

RenameCandidates(prompts) == {p \in Prompts : prompts[p].names}

\* settled: every prompt was reviewed, and no rewrite is waiting.
Clean(c) == c.errors = 0 /\ \A f \in c.findings : ~f.rewrite

\* startRenameCheck reads the prompts, and whether a reviewer can answer,
\* before it takes the lock.
StartRead ==
  /\ started + Cardinality(asking) < MaxChecks
  /\ \E ok \in BOOLEAN : asking' = asking \cup {[prompts |-> text, ok |-> ok]}
  /\ UNCHANGED <<text, edited, done, rename, jobs, started, apply, drafting>>

\* A check that runs is left to finish.
MayStart == rename.state # "running"

StartRenameCheck(a) ==
  /\ asking' = asking \ {a}
  /\ started' = started + 1
  /\ IF ~MayStart THEN UNCHANGED <<rename, jobs>>
     ELSE IF ~a.ok
     THEN rename' = [NoRename EXCEPT !.state = "unavailable"] /\ UNCHANGED jobs
     ELSE LET todo == RenameCandidates(a.prompts) IN
            /\ rename' = [NoRename EXCEPT !.state = "running",
                                          !.total = Cardinality(todo)]
            /\ jobs' = jobs \cup {[id |-> started, prompts |-> a.prompts, pc |-> "review",
                                   todo |-> todo, busy |-> {}]}
  /\ UNCHANGED <<text, edited, done, apply, drafting>>

Become(j, k) == jobs' = (jobs \ {j}) \cup {k}

\* The semaphore.
LaunchReview(j) ==
  /\ Cardinality(j.busy) < RenameCheckParallel
  /\ \E p \in j.todo :
       Become(j, [j EXCEPT !.todo = @ \ {p}, !.busy = @ \cup {p}])
  /\ UNCHANGED <<text, edited, done, rename, asking, started, apply, drafting>>

Finding(p, prompt, result) == [task |-> p, prompt |-> prompt, rewrite |-> result = "rewrite"]

ReviewEnds(j) ==
  /\ \E p \in j.busy, result \in Results :
       /\ Become(j, [j EXCEPT !.busy = @ \ {p}])
       /\ rename' = [rename EXCEPT
            !.checked = @ + 1,
            !.errors = IF result = "error" THEN @ + 1 ELSE @,
            !.findings = IF result \in {"finding", "rewrite"}
                         THEN @ \cup {Finding(p, j.prompts[p], result)} ELSE @]
  /\ UNCHANGED <<text, edited, done, asking, started, apply, drafting>>

AllReviewed(j) == j.todo = {} /\ j.busy = {}

\* That nothing is left to do is remembered before "done" is published; if it
\* cannot be, that is an error of the check.
RememberCheck(j) ==
  /\ j.pc = "review" /\ AllReviewed(j)
  /\ \E saved \in BOOLEAN :
       /\ done' = (done \/ (Clean(rename) /\ saved))
       /\ Become(j, [j EXCEPT !.pc = IF Clean(rename) /\ ~saved THEN "unsaved" ELSE "saved"])
  /\ UNCHANGED <<text, edited, rename, asking, started, apply, drafting>>

PublishCheck(j) ==
  /\ j.pc \in {"saved", "unsaved"}
  /\ jobs' = jobs \ {j}
  /\ rename' = [rename EXCEPT !.state = "done",
                              !.errors = IF j.pc = "unsaved" THEN @ + 1 ELSE @]
  /\ UNCHANGED <<text, edited, done, asking, started, apply, drafting>>

DismissRenameCheck ==
  /\ ~done /\ done' = TRUE
  /\ UNCHANGED <<text, edited, rename, asking, jobs, started, apply, drafting>>

-----------------------------------------------------------------------------
(* applyRename.                                                             *)

ApplyRename ==
  /\ apply = NoApply /\ rename.state = "done"
  /\ \E ps \in (SUBSET Prompts) \ {{}} : apply' = [pc |-> "read", of |-> ps]
  /\ UNCHANGED <<text, edited, done, rename, asking, jobs, started, drafting>>

\* The findings are read in a lock of their own.
ApplyRead ==
  /\ apply.pc = "read"
  /\ apply' = [pc |-> "write",
               of |-> {f \in rename.findings : f.rewrite /\ f.task \in apply.of}]
  /\ UNCHANGED <<text, edited, done, rename, asking, jobs, started, drafting>>

\* A prompt that is not the one that was reviewed is left alone.
FitsAnyway(f) == TRUE
StillFits(f) == text[f.task] = f.prompt

ApplyWrite ==
  /\ apply.pc = "write"
  /\ LET applied == {f \in apply.of : StillFits(f)} IN
       /\ text' = [p \in Prompts |->
            IF \E f \in applied : f.task = p
            THEN [names |-> FALSE,
                  edit |-> (CHOOSE f \in applied : f.task = p).prompt.edit]
            ELSE text[p]]
       /\ apply' = [pc |-> "tail", of |-> {f.task : f \in applied}]
  /\ UNCHANGED <<edited, done, rename, asking, jobs, started, drafting>>

\* The findings of the check there is now lose what was applied.
ApplyTail ==
  /\ apply.pc = "tail"
  /\ rename' = [rename EXCEPT !.findings = {f \in @ : f.task \notin apply.of}]
  /\ apply' = [pc |-> "mark", settled |-> rename'.state = "done" /\ Clean(rename')]
  /\ UNCHANGED <<text, edited, done, asking, jobs, started, drafting>>

ApplyMark ==
  /\ apply.pc = "mark"
  /\ done' = (done \/ apply.settled)
  /\ apply' = NoApply
  /\ UNCHANGED <<text, edited, rename, asking, jobs, started, drafting>>

\* The operator edits a task or the settings.
Edit(p) ==
  /\ edited[p] < MaxPromptEdits
  /\ edited' = [edited EXCEPT ![p] = @ + 1]
  /\ \E names \in BOOLEAN :
       text' = [text EXCEPT ![p] = [names |-> names, edit |-> edited'[p]]]
  /\ UNCHANGED <<done, rename, asking, jobs, started, apply, drafting>>

\* Whatever the daemon was doing is gone with it.
DaemonStartsAgain ==
  /\ rename' = NoRename /\ asking' = {} /\ jobs' = {} /\ apply' = NoApply
  /\ UNCHANGED <<text, edited, done, started, drafting>>

-----------------------------------------------------------------------------
(* The review of a draft: a new one cancels the one still running.          *)

Canceled(d) == [d EXCEPT !.canceled = TRUE]

BeginReview ==
  /\ reviewGen < MaxDrafts
  /\ reviewGen' = reviewGen + 1 /\ reviewCancel' = reviewGen'
  /\ drafts' = {IF d.gen = reviewCancel THEN Canceled(d) ELSE d : d \in drafts}
                 \cup {[gen |-> reviewGen', canceled |-> FALSE, pc |-> "asking"]}
  /\ UNCHANGED checking

\* A cancelled review ends too, without an answer.
DraftAnswered(d) ==
  /\ d.pc = "asking"
  /\ drafts' = (drafts \ {d}) \cup {[d EXCEPT !.pc = "retiring"]}
  /\ UNCHANGED <<checking, reviewGen, reviewCancel>>

\* Only a slot that no later review has claimed is cleared.
SlotClearedAlways(d) == 0
SlotCleared(d) == IF reviewGen = d.gen THEN 0 ELSE reviewCancel

RetireReview(d) ==
  /\ d.pc = "retiring"
  /\ drafts' = drafts \ {d}
  /\ reviewCancel' = SlotCleared(d)
  /\ UNCHANGED <<checking, reviewGen>>

-----------------------------------------------------------------------------

\* PrimeWhatsNew has nothing to check on a fresh installation.
ReviewsInit ==
  /\ text \in [Prompts -> {[names |-> n, edit |-> 0] : n \in BOOLEAN}]
  /\ done \in BOOLEAN
  /\ done => RenameCandidates(text) = {}
  /\ edited = [p \in Prompts |-> 0]
  /\ rename = NoRename /\ asking = {} /\ jobs = {} /\ started = 0
  /\ apply = NoApply
  /\ drafts = {} /\ reviewGen = 0 /\ reviewCancel = 0

CheckingNext ==
  \/ StartRead \/ \E a \in asking : StartRenameCheck(a)
  \/ \E j \in jobs : LaunchReview(j) \/ ReviewEnds(j) \/ RememberCheck(j) \/ PublishCheck(j)
  \/ DismissRenameCheck
  \/ ApplyRename \/ ApplyRead \/ ApplyWrite \/ ApplyTail \/ ApplyMark
  \/ \E p \in Prompts : Edit(p)
  \/ DaemonStartsAgain

DraftingNext == BeginReview \/ \E d \in drafts : DraftAnswered(d) \/ RetireReview(d)

-----------------------------------------------------------------------------

\* No edit of the operator is overwritten by a rewrite, whenever the rewrite
\* was asked for and applied.
EditKept == \A p \in Prompts : text[p].edit = edited[p]

\* Of the reviews of drafts in flight, only the newest one is not told to
\* stop: an older one cannot answer after it.
OnlyNewestReviewRuns ==
  \A d \in drafts : d.pc = "asking" /\ ~d.canceled => d.gen = reviewGen
=============================================================================
