--------------------------- MODULE ServicesProofs ---------------------------
(***************************************************************************)
(* The daemon's services beside the queue, for any number of callers,      *)
(* instances, prompts, releases and tasks, and for as long as they run:    *)
(* what is answered fits what was asked, a rewrite never undoes an edit,   *)
(* the installer that opens is not older than what was offered, and the    *)
(* machine wakes in time.                                                  *)
(***************************************************************************)
EXTENDS Services, WellFoundedInduction, TLAPS

-----------------------------------------------------------------------------
(* Readings.                                                                *)

Verdicts == [of : Settings \cup {Nobody}, at : Int]
Limits   == [of : Settings \cup {Nobody},
             state : {"none", "ok", "unavailable", "unsupported", "disabled"},
             windows : Int, checked : Int]
Question == [pc : {"check", "probe", "lock", "read", "answered"},
             about : {"verdict", "limits"}, id : Ids, inst : Settings,
             fresh : BOOLEAN, force : BOOLEAN, asked : Int, start : Int,
             prev : Limits, answer : Verdicts \cup Limits, cut : BOOLEAN]
Ops      == Question \cup {Idle} \cup [pc : {"forget"}, id : Ids]

ReadingsType ==
  /\ settings \in [Ids -> Settings] /\ clock \in Nat
  /\ cached \in [Ids -> Verdicts] /\ entries \in [Ids -> Limits]
  /\ ops \in [Callers -> Ops]

\* An answer belongs to the settings and the moment of its question (AnswersFit).
Fitting(op) ==
  /\ op.answer.of = op.inst
  /\ op.about = "verdict" /\ ~op.cut =>
       op.answer.at > op.asked - (IF op.fresh THEN 1 ELSE TTL)
  /\ op.about = "limits" /\ op.fresh =>
       op.answer.checked > op.asked - (IF op.force THEN 1 ELSE MinAge)

\* What is under way for a caller began after it had asked.
Timely(op) ==
  /\ op.pc \in {"check", "lock", "probe", "read"} => op.asked <= clock
  /\ op.pc \in {"check", "probe"} => op.about = "verdict"
  /\ op.pc \in {"lock", "read"} => op.about = "limits"
  /\ op.pc \in {"probe", "read"} => op.start >= op.asked
  /\ op.pc = "answered" => Fitting(op)

ReadingsInv == ReadingsType /\ \A c \in Callers : Timely(ops[c])

LEMMA ReadingsInvInit == ReadingsInit => ReadingsInv
<1> SUFFICES ASSUME ReadingsInit PROVE ReadingsInv
  OBVIOUS
<1>1. NoVerdict \in Verdicts /\ NoLimits \in Limits /\ Idle \in Ops
  BY DEF NoVerdict, NoLimits, Verdicts, Limits, Ops, Never
<1>2. ReadingsType
  BY <1>1 DEF ReadingsInit, ReadingsType
<1>3. \A c \in Callers : Timely(ops[c])
  BY DEF ReadingsInit, Timely, Idle
<1> QED  BY <1>2, <1>3 DEF ReadingsInv

\* A step of one caller is good if what it leaves it in the middle of is.
LEMMA OneCaller ==
  ASSUME ReadingsInv, NEW c \in Callers, NEW op \in Ops, Goto(c, op), Timely(op),
         UNCHANGED clock, settings' \in [Ids -> Settings],
         cached' \in [Ids -> Verdicts], entries' \in [Ids -> Limits]
  PROVE  ReadingsInv'
<1>1. ops' \in [Callers -> Ops] /\ ops'[c] = op /\ \A e \in Callers \ {c} : ops'[e] = ops[e]
  BY DEF Goto, ReadingsInv, ReadingsType
<1>2. ReadingsType'
  BY <1>1 DEF ReadingsInv, ReadingsType
<1>3. \A o \in Ops : Timely(o)' = Timely(o)
  BY DEF Timely, Fitting
<1>4. ASSUME NEW e \in Callers  PROVE Timely(ops'[e])
  BY <1>1 DEF ReadingsInv
<1>5. ASSUME NEW e \in Callers  PROVE Timely(ops[e])'
  BY <1>1, <1>4 DEF Timely, Fitting
<1> QED  BY <1>2, <1>5 DEF ReadingsInv

LEMMA OpIsQuestion ==
  ASSUME ReadingsInv, NEW c \in Callers,
         ops[c].pc \in {"check", "probe", "lock", "read", "answered"}
  PROVE  ops[c] \in Question /\ Timely(ops[c])
  BY DEF ReadingsInv, ReadingsType, Ops, Idle

LEMMA AskingFits ==
  ASSUME ReadingsInv, NEW c \in Callers, NEW id \in Ids, NEW pc \in {"check", "lock"},
         NEW fresh \in BOOLEAN, NEW force \in BOOLEAN, Ask(c, id, pc, fresh, force)
  PROVE  ReadingsInv'
<1> DEFINE op == [pc |-> pc, about |-> IF pc = "check" THEN "verdict" ELSE "limits",
                  id |-> id, inst |-> settings[id], fresh |-> fresh, force |-> force,
                  asked |-> clock, start |-> Never, prev |-> NoLimits,
                  answer |-> NoVerdict, cut |-> FALSE]
<1>1. NoVerdict \in Verdicts /\ NoLimits \in Limits
  BY DEF NoVerdict, NoLimits, Verdicts, Limits, Never
<1>2. op \in Question
  BY <1>1 DEF Question, ReadingsInv, ReadingsType, Never
<1>3. Timely(op)
  BY DEF Timely, ReadingsInv, ReadingsType
<1>4. Goto(c, op)
  BY DEF Ask
<1> HIDE DEF op
<1> QED  BY <1>2, <1>3, <1>4, OneCaller DEF Ask, Ops, ReadingsInv, ReadingsType

LEMMA CheckingFits ==
  ASSUME ReadingsInv, NEW c \in Callers, CheckLook(c) \/ ProbeEnds(c) \/ ProbeCut(c)
  PROVE  ReadingsInv'
<1>1. ops[c] \in Question /\ Timely(ops[c]) /\ ops[c].pc \in {"check", "probe"}
  BY OpIsQuestion DEF CheckLook, ProbeEnds, ProbeCut
<1>2. /\ ops[c].id \in Ids /\ ops[c].inst \in Settings /\ ops[c].start \in Int
      /\ ops[c].asked \in Int /\ clock \in Nat /\ TTL \in Nat /\ TTL > 0
      /\ cached \in [Ids -> Verdicts] /\ ops[c].about = "verdict"
  BY <1>1, ReadingsAssumption DEF Question, ReadingsInv, ReadingsType, Timely
<1>3. cached[ops[c].id] \in Verdicts /\ cached[ops[c].id].at \in Int
  BY <1>2 DEF Verdicts
<1>4. /\ clock' = clock /\ settings' \in [Ids -> Settings]
      /\ entries' \in [Ids -> Limits]
  BY DEF CheckLook, ProbeEnds, ProbeCut, ReadingsInv, ReadingsType
<1>5. CASE CheckLook(c) /\ ~ops[c].fresh /\ Fits(ops[c]) /\ cached[ops[c].id] # NoVerdict
  <2> DEFINE op == [ops[c] EXCEPT !.pc = "answered", !.answer = cached[ops[c].id]]
  <2>1. /\ op \in Question /\ op.pc = "answered" /\ op.answer = cached[ops[c].id]
        /\ op.about = "verdict" /\ op.inst = ops[c].inst /\ op.fresh = ops[c].fresh
        /\ op.asked = ops[c].asked
    <3>1. cached[ops[c].id] \in Verdicts \cup Limits
      BY <1>3
    <3> QED  BY <1>1, <1>2, <3>1 DEF Question
  <2>2. Goto(c, op) /\ cached' = cached
    BY <1>5 DEF CheckLook, Answered
  <2> HIDE DEF op
  <2>3. Timely(op)
    BY <1>1, <1>2, <1>3, <1>5, <2>1 DEF Timely, Fitting, Fits, CheckLook
  <2> QED  BY <1>2, <1>4, <2>1, <2>2, <2>3, OneCaller DEF Ops
<1>6. CASE CheckLook(c) /\ ~(~ops[c].fresh /\ cached[ops[c].id] # NoVerdict /\ Fits(ops[c]))
  <2> DEFINE op == [ops[c] EXCEPT !.pc = "probe", !.start = clock]
  <2>1. /\ op \in Question /\ op.pc = "probe" /\ op.start = clock
        /\ op.about = "verdict" /\ op.asked = ops[c].asked
    <3>1. clock \in Int
      BY <1>2
    <3> QED  BY <1>1, <1>2, <3>1 DEF Question
  <2>2. Goto(c, op) /\ cached' = cached
    BY <1>6 DEF CheckLook
  <2> HIDE DEF op
  <2>3. Timely(op)
    BY <1>1, <1>6, <2>1 DEF Timely, CheckLook
  <2> QED  BY <1>2, <1>4, <2>1, <2>2, <2>3, OneCaller DEF Ops
<1>7. CASE ProbeEnds(c)
  <2> DEFINE verdict == [of |-> ops[c].inst, at |-> ops[c].start]
             op == [ops[c] EXCEPT !.pc = "answered", !.answer = verdict]
  <2>0. verdict \in Verdicts /\ verdict.of = ops[c].inst /\ verdict.at = ops[c].start
    BY <1>2 DEF Verdicts
  <2>1. cached' \in [Ids -> Verdicts] /\ Goto(c, op)
    BY <1>2, <1>7, <2>0 DEF ProbeEnds, Answered
  <2> HIDE DEF verdict
  <2>2. /\ op \in Question /\ op.pc = "answered" /\ op.answer = verdict
        /\ op.about = "verdict" /\ op.inst = ops[c].inst /\ op.fresh = ops[c].fresh
        /\ op.asked = ops[c].asked
    BY <1>1, <1>2, <2>0 DEF Question
  <2> HIDE DEF op
  <2>3. Timely(op)
    BY <1>1, <1>2, <1>7, <2>0, <2>2 DEF Timely, Fitting, ProbeEnds
  <2> QED  BY <1>4, <2>1, <2>2, <2>3, OneCaller DEF Ops
<1>8. CASE ProbeCut(c)
  <2> DEFINE before == IF cached[ops[c].id].of = ops[c].inst THEN cached[ops[c].id]
                       ELSE [of |-> ops[c].inst, at |-> ops[c].start]
             op == [ops[c] EXCEPT !.pc = "answered", !.cut = TRUE, !.answer = before]
  <2>0. before \in Verdicts /\ before.of = ops[c].inst
    BY <1>2, <1>3 DEF Verdicts
  <2>1. Goto(c, op) /\ cached' = cached
    BY <1>8 DEF ProbeCut
  <2> HIDE DEF before
  <2>2. /\ op \in Question /\ op.pc = "answered" /\ op.answer = before
        /\ op.about = "verdict" /\ op.inst = ops[c].inst /\ op.cut = TRUE
    BY <1>1, <1>2, <2>0 DEF Question
  <2> HIDE DEF op
  <2>3. Timely(op)
    BY <2>0, <2>2 DEF Timely, Fitting
  <2> QED  BY <1>2, <1>4, <2>1, <2>2, <2>3, OneCaller DEF Ops
<1> QED  BY <1>5, <1>6, <1>7, <1>8 DEF CheckLook

LEMMA LimitsFit ==
  ASSUME ReadingsInv, NEW c \in Callers, ReadLock(c) \/ ReadEnds(c)
  PROVE  ReadingsInv'
<1>1. ops[c] \in Question /\ Timely(ops[c]) /\ ops[c].pc \in {"lock", "read"}
  BY OpIsQuestion DEF ReadLock, ReadEnds
<1>2. /\ ops[c].id \in Ids /\ ops[c].inst \in Settings /\ ops[c].start \in Int
      /\ ops[c].asked \in Int /\ clock \in Nat /\ MinAge \in Nat /\ MinAge > 0
      /\ entries \in [Ids -> Limits] /\ ops[c].about = "limits" /\ ops[c].prev \in Limits
  BY <1>1, ReadingsAssumption DEF Question, ReadingsInv, ReadingsType, Timely
<1>3. /\ entries[ops[c].id] \in Limits /\ entries[ops[c].id].checked \in Int
      /\ NoLimits \in Limits
  BY <1>2 DEF Limits, NoLimits, Never
<1>4. /\ clock' = clock /\ settings' \in [Ids -> Settings]
      /\ cached' \in [Ids -> Verdicts]
  BY DEF ReadLock, ReadEnds, ReadingsInv, ReadingsType
<1>5. CASE ReadLock(c) /\ Enough(ops[c])
  <2> DEFINE op == [ops[c] EXCEPT !.pc = "answered", !.answer = entries[ops[c].id]]
  <2>1. /\ op \in Question /\ op.pc = "answered" /\ op.answer = entries[ops[c].id]
        /\ op.about = "limits" /\ op.inst = ops[c].inst /\ op.fresh = ops[c].fresh
        /\ op.asked = ops[c].asked /\ op.force = ops[c].force
    <3>1. entries[ops[c].id] \in Verdicts \cup Limits
      BY <1>3
    <3> QED  BY <1>1, <1>2, <3>1 DEF Question
  <2>2. Goto(c, op) /\ entries' = entries
    BY <1>5 DEF ReadLock, Answered
  <2> HIDE DEF op
  <2>3. Timely(op)
    BY <1>1, <1>2, <1>3, <1>5, <2>1 DEF Timely, Fitting, Enough, Remembered, ReadLock
  <2> QED  BY <1>2, <1>4, <2>1, <2>2, <2>3, OneCaller DEF Ops
<1>6. CASE ReadLock(c) /\ ~Enough(ops[c])
  <2> DEFINE known == IF Remembered(ops[c]) THEN entries[ops[c].id] ELSE NoLimits
             op == [ops[c] EXCEPT !.pc = "read", !.start = clock, !.prev = known]
  <2>0. known \in Limits
    BY <1>3
  <2>1. Goto(c, op) /\ entries' = entries
    BY <1>6 DEF ReadLock
  <2> HIDE DEF known
  <2>2. /\ op \in Question /\ op.pc = "read" /\ op.start = clock
        /\ op.about = "limits" /\ op.asked = ops[c].asked
    <3>1. clock \in Int
      BY <1>2
    <3> QED  BY <1>1, <1>2, <2>0, <3>1 DEF Question
  <2> HIDE DEF op
  <2>3. Timely(op)
    BY <1>1, <1>6, <2>2 DEF Timely, ReadLock
  <2> QED  BY <1>2, <1>4, <2>1, <2>2, <2>3, OneCaller DEF Ops
<1>7. CASE ReadEnds(c)
  <2>1. PICK l \in Outcomes(ops[c]), cut \in BOOLEAN :
          /\ entries' = IF Stored(cut, l) THEN [entries EXCEPT ![ops[c].id] = l] ELSE entries
          /\ Goto(c, [ops[c] EXCEPT !.pc = "answered", !.cut = cut, !.answer = l])
    BY <1>7 DEF ReadEnds
  <2>2. l \in Limits /\ l.of = ops[c].inst /\ l.checked = ops[c].start
    <3>1. ops[c].prev.windows \in Int
      BY <1>2 DEF Limits
    <3>2. \E state \in {"ok", "unavailable", "unsupported", "disabled"}, windows \in Int :
            l = [of |-> ops[c].inst, state |-> state, windows |-> windows,
                 checked |-> ops[c].start]
      BY <1>2, <3>1 DEF Outcomes, Never
    <3> QED  BY <1>2, <3>2 DEF Limits
  <2> DEFINE op == [ops[c] EXCEPT !.pc = "answered", !.cut = cut, !.answer = l]
  <2>3. /\ op \in Question /\ op.pc = "answered" /\ op.answer = l
        /\ op.about = "limits" /\ op.inst = ops[c].inst /\ op.fresh = ops[c].fresh
        /\ op.asked = ops[c].asked /\ op.force = ops[c].force
    <3>1. l \in Verdicts \cup Limits
      BY <2>2
    <3> QED  BY <1>1, <1>2, <3>1 DEF Question
  <2>4. Goto(c, op) /\ entries' \in [Ids -> Limits]
    BY <1>2, <2>1, <2>2
  <2> HIDE DEF op
  <2>5. Timely(op)
    <3>1. ops[c].start >= ops[c].asked
      BY <1>1, <1>7 DEF Timely, ReadEnds
    <3>2. Fitting(op)
      BY <1>2, <2>2, <2>3, <3>1 DEF Fitting
    <3> QED  BY <2>3, <3>2 DEF Timely
  <2> QED  BY <1>4, <2>3, <2>4, <2>5, OneCaller DEF Ops
<1> QED  BY <1>5, <1>6, <1>7

LEMMA OtherReadingSteps ==
  ASSUME ReadingsInv, NEW c \in Callers, NEW id \in Ids,
         EditRequest(c, id) \/ Forget(c) \/ TakeAnswer(c)
  PROVE  ReadingsInv'
<1>1. Timely(Idle) /\ Timely([pc |-> "forget", id |-> id]) /\ NoVerdict \in Verdicts
  BY DEF Timely, Idle, NoVerdict, Verdicts, Never
<1>2. Idle \in Ops /\ [pc |-> "forget", id |-> id] \in Ops
  BY DEF Ops
<1>3. /\ clock' = clock /\ settings' \in [Ids -> Settings]
      /\ cached' \in [Ids -> Verdicts] /\ entries' \in [Ids -> Limits]
  BY <1>1 DEF EditRequest, Forget, TakeAnswer, ReadingsInv, ReadingsType
<1> QED
  BY <1>1, <1>2, <1>3, OneCaller DEF EditRequest, Forget, TakeAnswer

LEMMA ReadingsInvStep ==
  ASSUME ReadingsInv, [ReadingsNext]_readings
  PROVE  ReadingsInv'
<1>1. ASSUME NEW c \in Callers, NEW id \in Ids,
             AskCheck(c, id) \/ AskFresh(c, id) \/ AskLimits(c, id) \/ AskNewLimits(c, id)
               \/ RefreshID(c, id)
      PROVE  ReadingsInv'
  BY <1>1, AskingFits DEF AskCheck, AskFresh, AskLimits, AskNewLimits, RefreshID
<1>2. ASSUME NEW c \in Callers,
             CheckLook(c) \/ ProbeEnds(c) \/ ProbeCut(c) \/ ReadLock(c) \/ ReadEnds(c)
      PROVE  ReadingsInv'
  BY <1>2, CheckingFits, LimitsFit
<1>3. ASSUME NEW c \in Callers, NEW id \in Ids, EditRequest(c, id)  PROVE ReadingsInv'
  BY <1>3, OtherReadingSteps
<1>4. ASSUME NEW c \in Callers, Forget(c) \/ TakeAnswer(c)  PROVE ReadingsInv'
  <2>1. Timely(Idle) /\ Idle \in Ops /\ NoVerdict \in Verdicts
    BY DEF Timely, Idle, NoVerdict, Verdicts, Never, Ops
  <2>2. /\ clock' = clock /\ settings' \in [Ids -> Settings]
        /\ cached' \in [Ids -> Verdicts] /\ entries' \in [Ids -> Limits]
    BY <1>4, <2>1 DEF Forget, TakeAnswer, ReadingsInv, ReadingsType
  <2> QED  BY <1>4, <2>1, <2>2, OneCaller DEF Forget, TakeAnswer
<1>5. ASSUME NEW id \in Ids, EditCommand(id)  PROVE ReadingsInv'
  BY <1>5 DEF EditCommand, ReadingsInv, ReadingsType, Timely, Fitting
<1>6. CASE TimePasses
  <2>1. /\ clock' = clock + 1 /\ clock \in Nat
        /\ UNCHANGED <<settings, cached, entries, ops>>
    BY <1>6 DEF TimePasses, ReadingsInv, ReadingsType
  <2>2. ReadingsType'
    BY <2>1 DEF ReadingsInv, ReadingsType
  <2>3. ASSUME NEW c \in Callers  PROVE Timely(ops[c])'
    <3>1. ops[c] \in Ops /\ Timely(ops[c])
      BY DEF ReadingsInv, ReadingsType
    <3>2. ops[c].pc \in {"check", "lock", "probe", "read"} => ops[c].asked \in Int
      BY <3>1 DEF Ops, Question, Idle
    <3> QED  BY <2>1, <3>1, <3>2 DEF Timely, Fitting
  <2> QED  BY <2>2, <2>3 DEF ReadingsInv
<1>7. CASE UNCHANGED readings
  BY <1>7 DEF readings, ReadingsInv, ReadingsType, Timely, Fitting
<1> QED
  BY <1>1, <1>2, <1>3, <1>4, <1>5, <1>6, <1>7 DEF ReadingsNext

\* Nobody is told of other settings than those it asked about, nor of a longer ago
\* than it was content with, however many callers ask at once, are cut short, and
\* edit the instances meanwhile (Checker, LimitMonitor).
THEOREM AnswersFitQuestions == Spec => []AnswersFit
<1>1. Init => ReadingsInv
  BY ReadingsInvInit DEF Init
<1>2. ReadingsInv /\ [Next]_services => ReadingsInv'
  <2>1. [Next]_services => [ReadingsNext]_readings
    BY DEF Next, ServeReadings, ServeUpdates, ServeWakes, ServeRename, ServeDrafts, services,
           reviews
  <2> QED  BY <2>1, ReadingsInvStep
<1>3. ReadingsInv => AnswersFit
  BY DEF ReadingsInv, Timely, Fitting, AnswersFit
<1> QED  BY <1>1, <1>2, <1>3, PTL DEF Spec

-----------------------------------------------------------------------------
(* Reviews.                                                                 *)

ReviewsNext == CheckingNext \/ DraftingNext

LEMMA ServesReviews == [Next]_services => [ReviewsNext]_reviews
  BY DEF Next, ServeReadings, ServeUpdates, ServeWakes, ServeRename, ServeDrafts, services,
         reviews, ReviewsNext

PromptText == [names : BOOLEAN, edit : Nat]

EditsInv ==
  /\ text \in [Prompts -> PromptText] /\ edited \in [Prompts -> Nat]
  /\ EditKept

LEMMA EditsInvInit == ReviewsInit => EditsInv
  BY DEF ReviewsInit, EditsInv, PromptText, EditKept

\* A rewrite is applied to the prompt that was reviewed, so that the edit it is
\* of is the one the prompt holds.
LEMMA ApplyKeepsEdits ==
  ASSUME EditsInv, ApplyWrite
  PROVE  EditsInv'
<1> DEFINE applied == {f \in apply.of : StillFits(f)}
           of(p) == CHOOSE f \in applied : f.task = p
<1>1. /\ text' = [p \in Prompts |->
                    IF \E f \in applied : f.task = p
                    THEN [names |-> FALSE, edit |-> of(p).prompt.edit] ELSE text[p]]
      /\ edited' = edited
  BY DEF ApplyWrite
<1>2. ASSUME NEW p \in Prompts, \E f \in applied : f.task = p
      PROVE  of(p).prompt.edit = text[p].edit
  <2>1. of(p) \in applied /\ of(p).task = p
    BY <1>2
  <2>2. of(p).prompt = text[p]
    BY <2>1 DEF StillFits
  <2> QED  BY <2>2
<1> HIDE DEF of, applied
<1>3. ASSUME NEW p \in Prompts
      PROVE  text'[p] \in PromptText /\ text'[p].edit = text[p].edit
  <2>0. text[p] \in PromptText /\ text[p].edit \in Nat
    BY DEF EditsInv, PromptText
  <2>1. CASE \E f \in applied : f.task = p
    <3>1. text'[p] = [names |-> FALSE, edit |-> text[p].edit]
      BY <1>1, <1>2, <2>1
    <3> QED  BY <2>0, <3>1 DEF PromptText
  <2>2. CASE ~(\E f \in applied : f.task = p)
    BY <1>1, <2>0, <2>2
  <2> QED  BY <2>1, <2>2
<1> QED  BY <1>1, <1>3 DEF EditsInv, EditKept

LEMMA EditsInvStep ==
  ASSUME EditsInv, [ReviewsNext]_reviews
  PROVE  EditsInv'
<1>1. ASSUME UNCHANGED <<text, edited>>  PROVE EditsInv'
  BY <1>1 DEF EditsInv, EditKept
<1>2. CASE ApplyWrite
  BY <1>2, ApplyKeepsEdits
<1>3. ASSUME NEW p \in Prompts, Edit(p)  PROVE EditsInv'
  BY <1>3 DEF Edit, EditsInv, EditKept, PromptText
<1>4. CASE \/ StartRead \/ \E a \in asking : StartRenameCheck(a)
           \/ \E j \in jobs : LaunchReview(j) \/ ReviewEnds(j) \/ RememberCheck(j) \/ PublishCheck(j)
           \/ DismissRenameCheck \/ ApplyRename \/ ApplyRead \/ ApplyTail \/ ApplyMark
           \/ DaemonStartsAgain \/ DraftingNext \/ UNCHANGED reviews
  BY <1>1, <1>4 DEF StartRead, StartRenameCheck, LaunchReview, ReviewEnds, RememberCheck,
    PublishCheck, DismissRenameCheck, ApplyRename, ApplyRead, ApplyTail, ApplyMark,
    DaemonStartsAgain, DraftingNext, BeginReview, DraftAnswered, RetireReview, checking, reviews
<1> QED  BY <1>2, <1>3, <1>4 DEF ReviewsNext, CheckingNext

\* No edit of the operator is lost to a rewrite, for any number of prompts, checks
\* and requests to apply their findings: what a rewrite replaces is what was
\* reviewed (applyRename).
THEOREM EditsAreKept == Spec => []EditKept
<1>1. Init => EditsInv
  BY EditsInvInit DEF Init
<1>2. EditsInv /\ [Next]_services => EditsInv'
  BY ServesReviews, EditsInvStep
<1>3. EditsInv => EditKept
  BY DEF EditsInv
<1> QED  BY <1>1, <1>2, <1>3, PTL DEF Spec

Draft == [gen : Nat, canceled : BOOLEAN, pc : {"asking", "retiring"}]

\* The reviews of drafts are numbered as they begin, and the one that may be
\* cancelled is the newest, while it runs.
DraftsInv ==
  /\ drafts \subseteq Draft /\ reviewGen \in Nat
  /\ \A d \in drafts : d.gen <= reviewGen
  /\ \A d \in drafts, e \in drafts : d.gen = e.gen => d = e
  /\ \A d \in drafts :
       d.pc = "asking" /\ ~d.canceled => d.gen = reviewGen /\ d.gen = reviewCancel

LEMMA DraftsInvStep ==
  ASSUME DraftsInv, [ReviewsNext]_reviews
  PROVE  DraftsInv'
<1>1. CASE BeginReview
  <2> DEFINE told(d) == IF d.gen = reviewCancel THEN Canceled(d) ELSE d
             new == [gen |-> reviewGen + 1, canceled |-> FALSE, pc |-> "asking"]
  <2>1. /\ reviewGen' = reviewGen + 1 /\ reviewCancel' = reviewGen + 1 /\ reviewGen \in Nat
        /\ drafts' = {told(d) : d \in drafts} \cup {new}
    BY <1>1 DEF BeginReview, DraftsInv
  <2>2. new \in Draft /\ new.gen = reviewGen + 1
    BY <2>1 DEF Draft
  <2>3. ASSUME NEW d \in drafts
        PROVE  /\ told(d) \in Draft /\ told(d).gen = d.gen /\ d.gen <= reviewGen /\ d.gen \in Nat
               /\ told(d).pc = "asking" => told(d).canceled
    <3>1. d \in Draft
      BY DEF DraftsInv
    <3> QED  BY <3>1 DEF DraftsInv, Draft, Canceled
  <2> HIDE DEF told, new
  <2>4. \A x \in drafts' : x = new \/ \E d \in drafts : x = told(d)
    BY <2>1
  <2>5. drafts' \subseteq Draft /\ \A x \in drafts' : x.gen <= reviewGen'
    BY <2>1, <2>2, <2>3, <2>4
  <2>6. \A x \in drafts', y \in drafts' : x.gen = y.gen => x = y
    <3> SUFFICES ASSUME NEW x \in drafts', NEW y \in drafts', x.gen = y.gen  PROVE x = y
      OBVIOUS
    <3>1. CASE x = new
      BY <2>1, <2>2, <2>3, <2>4, <3>1
    <3>2. CASE y = new
      BY <2>1, <2>2, <2>3, <2>4, <3>2
    <3>3. ASSUME NEW d \in drafts, NEW e \in drafts, x = told(d), y = told(e)  PROVE x = y
      <4>1. d = e
        BY <2>3, <3>3 DEF DraftsInv
      <4> QED  BY <3>3, <4>1
    <3> QED  BY <2>4, <3>1, <3>2, <3>3
  <2>7. \A x \in drafts' :
          x.pc = "asking" /\ ~x.canceled => x.gen = reviewGen' /\ x.gen = reviewCancel'
    BY <2>1, <2>2, <2>3, <2>4
  <2> QED  BY <2>1, <2>5, <2>6, <2>7 DEF DraftsInv
<1>2. ASSUME NEW d \in drafts, DraftAnswered(d)  PROVE DraftsInv'
  <2> DEFINE retired == [d EXCEPT !.pc = "retiring"]
  <2>1. /\ drafts' = (drafts \ {d}) \cup {retired}
        /\ UNCHANGED <<reviewGen, reviewCancel>>
    BY <1>2 DEF DraftAnswered
  <2>2. retired \in Draft /\ retired.gen = d.gen /\ retired.pc = "retiring"
    BY DEF DraftsInv, Draft
  <2> HIDE DEF retired
  <2> QED  BY <2>1, <2>2 DEF DraftsInv
<1>3. ASSUME NEW d \in drafts, RetireReview(d)  PROVE DraftsInv'
  BY <1>3 DEF RetireReview, SlotCleared, DraftsInv
<1>4. ASSUME CheckingNext \/ UNCHANGED reviews  PROVE DraftsInv'
  <2>1. UNCHANGED drafting
    BY <1>4 DEF CheckingNext, StartRead, StartRenameCheck, LaunchReview, ReviewEnds,
      RememberCheck, PublishCheck, DismissRenameCheck, ApplyRename, ApplyRead, ApplyWrite,
      ApplyTail, ApplyMark, Edit, DaemonStartsAgain, reviews
  <2> QED  BY <2>1 DEF drafting, DraftsInv
<1> QED  BY <1>1, <1>2, <1>3, <1>4 DEF ReviewsNext, DraftingNext

\* Only the newest review of a draft is not told to stop, however many begin and
\* whenever they answer and give up their slot (Reviewer, reviewGen).
THEOREM NewestReviewRuns == Spec => []OnlyNewestReviewRuns
<1>1. Init => DraftsInv
  <2>1. ReviewsInit => drafts = {} /\ reviewGen = 0
    BY DEF ReviewsInit
  <2>2. drafts = {} /\ reviewGen = 0 => DraftsInv
    BY DEF DraftsInv
  <2> QED  BY <2>1, <2>2 DEF Init
<1>2. DraftsInv /\ [Next]_services => DraftsInv'
  BY ServesReviews, DraftsInvStep
<1>3. DraftsInv => OnlyNewestReviewRuns
  BY DEF DraftsInv, OnlyNewestReviewRuns
<1> QED  BY <1>1, <1>2, <1>3, PTL DEF Spec

-----------------------------------------------------------------------------
\* The least and the greatest of numbers.

LEMMA LeastNumber ==
  ASSUME NEW S \in SUBSET Nat, S # {}
  PROVE  \E n \in S : \A m \in S : n <= m
<1> DEFINE R == OpToRel(<, Nat)
<1>1. IsWellFoundedOn(R, Nat)
  BY NatLessThanWellFounded
<1>2. PICK n \in S : \A m \in S : ~(<<m, n>> \in R)
  <2> HIDE DEF R
  <2> QED  BY <1>1, WFMin
<1>3. \A m \in S : ~(m < n)
  BY <1>2 DEF OpToRel
<1> QED  BY <1>3

LEMMA MinIsLeast ==
  ASSUME NEW S \in SUBSET Nat, S # {}
  PROVE  Min(S) \in S /\ \A m \in S : Min(S) <= m
  BY LeastNumber DEF Min

Bounded(S) == S \subseteq Nat /\ \E n \in Nat : \A m \in S : m <= n

LEMMA MaxIsGreatest ==
  ASSUME NEW S, Bounded(S), S # {}
  PROVE  Max(S) \in S /\ \A m \in S : m <= Max(S)
<1> DEFINE B == {n \in Nat : \A m \in S : m <= n}
<1>1. PICK n \in B : \A b \in B : n <= b
  BY LeastNumber DEF Bounded
<1>2. n \in S
  <2> SUFFICES ASSUME n \notin S PROVE FALSE
    OBVIOUS
  <2>1. \A m \in S : m \in Nat /\ m < n
    BY <1>1 DEF Bounded
  <2>2. PICK k \in S : TRUE
    OBVIOUS
  <2>3. n \in Nat /\ n > k /\ k \in Nat
    BY <1>1, <2>1, <2>2
  <2>4. n - 1 \in Nat /\ \A m \in S : m <= n - 1
    BY <2>1, <2>3
  <2>5. n - 1 \in B
    BY <2>4
  <2> QED  BY <1>1, <2>3, <2>5
<1>3. \A m \in S : n >= m
  BY <1>1 DEF Bounded
<1> QED  BY <1>2, <1>3 DEF Max, Bounded

LEMMA BoundedSubset ==
  ASSUME NEW S, Bounded(S), NEW T \in SUBSET S
  PROVE  Bounded(T)
  BY DEF Bounded

LEMMA BoundedAdd ==
  ASSUME NEW S, Bounded(S), NEW r \in Nat
  PROVE  Bounded(S \cup {r})
<1>1. PICK n \in Nat : \A m \in S : m <= n
  BY DEF Bounded
<1>2. \A m \in S \cup {r} : m <= n + r /\ m \in Nat
  BY <1>1 DEF Bounded
<1> QED  BY <1>1, <1>2 DEF Bounded

-----------------------------------------------------------------------------
(* Wakes.                                                                   *)

WakesType ==
  /\ time \in Nat /\ blockedUntil \in Nat /\ last \in Nat \cup {Unknown}
  /\ plans \in [FixedTasks \cup CronTasks -> [enabled : BOOLEAN, at : Nat]]

\* The wake the Scheduler believes in is registered or has been, unless it has
\* itself withdrawn it.
WakesInv ==
  /\ WakesType
  /\ last # Unknown /\ ~withdrawn => last \in registered \/ last <= time

LEMMA WantedIsLater ==
  ASSUME WakesType
  PROVE  Wanted \in Nat /\ Wanted > time
<1> DEFINE concrete == IF pausedNow THEN {} ELSE WakeCandidates \cup {blockedUntil}
           S == {c \in concrete : c > time} \cup {time + Heartbeat}
<1>1. Period \in Nat \ {0} /\ Heartbeat \in Nat \ {0}
  BY WakesAssumption
<1>2. \A n \in Nat : NextStart(n) \in Int
  BY <1>1 DEF NextStart
<1>3. \A t \in FixedTasks \cup CronTasks : plans[t].at \in Nat
  BY DEF WakesType
<1>4. WakeCandidates \subseteq Int
  BY <1>2, <1>3 DEF WakeCandidates, WakesType
<1>5. S \in SUBSET Nat /\ S # {} /\ \A c \in S : c > time
  <2>1. concrete \subseteq Int
    <3>1. blockedUntil \in Int
      BY DEF WakesType
    <3> QED  BY <1>4, <3>1
  <2>2. time + Heartbeat \in Nat /\ time + Heartbeat > time /\ time \in Nat
    BY <1>1 DEF WakesType
  <2> HIDE DEF concrete
  <2>3. \A c \in S : c \in Nat /\ c > time
    BY <2>1, <2>2
  <2> QED  BY <2>3
<1>6. Wanted = Min(S)
  BY DEF Wanted
<1> HIDE DEF S
<1> QED  BY <1>5, <1>6, MinIsLeast

LEMMA WakesInvInit == WakesInit => WakesInv
  BY DEF WakesInit, WakesInv, WakesType, Unknown, Gone

LEMMA PlansInWakes ==
  ASSUME WakesInv, PlanWake
  PROVE  /\ WakesInv'
         /\ ~wakeErr' /\ ~withdrawn' =>
              \/ Wanted <= time + MinReschedule
              \/ \E w \in registered' : w <= Wanted + MinReschedule
<1>1. Wanted \in Nat /\ Wanted > time /\ time \in Nat
  BY WantedIsLater DEF WakesInv, WakesType
<1>2. UNCHANGED <<time, plans, blockedUntil>>
  BY DEF PlanWake
<1>3. CASE LeaveIt
  <2>1. last \in Nat /\ last - Wanted <= 1 /\ Wanted - last <= 1
    BY <1>1, <1>3 DEF LeaveIt, Within, MinReschedule, WakesInv, WakesType
  <2>2. UNCHANGED <<registered, last, withdrawn>>
    BY <1>3 DEF LeaveIt
  <2>3. WakesInv'
    BY <1>2, <2>2 DEF WakesInv, WakesType
  <2>4. ~withdrawn => last \in registered \/ last <= time
    BY <2>1 DEF WakesInv, Unknown
  <2> QED  BY <1>1, <2>1, <2>2, <2>3, <2>4 DEF MinReschedule
<1>4. CASE Replace
  <2>1. PICK cancels \in BOOLEAN, ok \in BOOLEAN :
          LET kept == IF cancels THEN registered \ {last} ELSE registered IN
            /\ registered' = IF ok THEN kept \cup {Wanted} ELSE kept
            /\ last' = Known(ok)
            /\ withdrawn' = (~ok /\ (withdrawn \/ (cancels /\ last # Unknown)))
            /\ wakeErr' = ~ok
    BY <1>4 DEF Replace
  <2>2. CASE ok
    <3>1. Wanted \in registered' /\ last' = Wanted
      BY <2>1, <2>2 DEF Known
    <3>2. WakesInv'
      BY <1>1, <1>2, <3>1 DEF WakesInv, WakesType
    <3> QED  BY <1>1, <3>1, <3>2 DEF MinReschedule
  <2>3. CASE ~ok
    <3>1. last' = last /\ wakeErr'
      BY <2>1, <2>3 DEF Known
    <3>2. ~withdrawn' => ~withdrawn /\ (last = Unknown \/ registered' = registered)
      BY <2>1, <2>3
    <3> QED  BY <1>2, <3>1, <3>2 DEF WakesInv, WakesType
  <2> QED  BY <2>2, <2>3
<1> QED  BY <1>3, <1>4 DEF PlanWake

LEMMA WakesInvStep ==
  ASSUME WakesInv, [WakesNext]_wakes
  PROVE  WakesInv'
<1>1. CASE PlanWake
  BY <1>1, PlansInWakes
<1>2. CASE TimeGoesOn
  BY <1>2 DEF TimeGoesOn, WakesInv, WakesType, Gone, Unknown
<1>3. ASSUME NEW t \in FixedTasks \cup CronTasks, RunStarts(t) \/ EditTask(t)
      PROVE  WakesInv'
  <2>0. /\ plans[t] \in [enabled : BOOLEAN, at : Nat] /\ time \in Nat
        /\ \A n \in Nat : [plans[t] EXCEPT !.at = n] \in [enabled : BOOLEAN, at : Nat]
        /\ [plans[t] EXCEPT !.enabled = ~@] \in [enabled : BOOLEAN, at : Nat]
    BY DEF WakesInv, WakesType
  <2>1. \/ \E n \in Nat : plans' = [plans EXCEPT ![t] = [plans[t] EXCEPT !.at = n]]
        \/ plans' = [plans EXCEPT ![t] = [plans[t] EXCEPT !.enabled = ~@]]
    <3>1. CASE RunStarts(t)
      <4>1. \E n \in {Gone, time} : plans' = [plans EXCEPT ![t] = [plans[t] EXCEPT !.at = n]]
        BY <3>1 DEF RunStarts, WakesInv, WakesType
      <4> QED  BY <2>0, <4>1 DEF Gone
    <3>2. CASE EditTask(t)
      BY <3>2 DEF EditTask, Instants, WakesInv, WakesType
    <3> QED  BY <1>3, <3>1, <3>2
  <2>2. plans' \in [FixedTasks \cup CronTasks -> [enabled : BOOLEAN, at : Nat]]
    BY <2>0, <2>1 DEF WakesInv, WakesType
  <2> QED  BY <1>3, <2>2 DEF RunStarts, EditTask, WakesInv, WakesType
<1>4. CASE SetPaused \/ LimitHits \/ Restart
  BY <1>4 DEF SetPaused, LimitHits, Restart, Instants, Gone, Unknown, WakesInv, WakesType
<1>5. CASE UNCHANGED wakes
  BY <1>5 DEF wakes, WakesInv, WakesType
<1> QED  BY <1>1, <1>2, <1>3, <1>4, <1>5 DEF WakesNext

\* After a plan that reports no error the machine is woken in time, for any tasks,
\* period and heartbeat, whatever was planned, refused or forgotten before: what
\* the Scheduler leaves alone, believing it registered, is registered or past.
THEOREM WakesInTime == Spec => WokenInTime
<1>1. Init => WakesInv
  BY WakesInvInit DEF Init
<1>2. [Next]_services => [WakesNext]_wakes
  BY DEF Next, ServeReadings, ServeUpdates, ServeWakes, ServeRename, ServeDrafts, services
<1>3. WakesInv /\ [Next]_services => WakesInv'
  BY <1>2, WakesInvStep
<1>4. WakesInv /\ [Next]_services =>
        [PlanWake /\ ~wakeErr' /\ ~withdrawn'
           => \/ Wanted <= time + MinReschedule
              \/ \E w \in registered' : w <= Wanted + MinReschedule]_wakes
  BY PlansInWakes
<1> QED  BY <1>1, <1>3, <1>4, PTL DEF Spec, WokenInTime

-----------------------------------------------------------------------------
(* Updates.                                                                 *)

LEMMA LatestOf ==
  ASSUME NEW rs, Bounded(rs)
  PROVE  /\ Latest(rs) \in Nat
         /\ \A r \in rs : r <= Latest(rs)
         /\ rs # {} => Latest(rs) \in rs
  BY MaxIsGreatest DEF Latest, NotThere, Bounded

LEMMA LatestGrows ==
  ASSUME NEW rs, NEW more, Bounded(more), rs \subseteq more
  PROVE  Latest(rs) <= Latest(more)
<1>1. Bounded(rs)
  BY BoundedSubset
<1>2. CASE rs = {}
  BY <1>2, LatestOf DEF Latest, NotThere
<1>3. CASE rs # {}
  BY <1>1, <1>3, LatestOf
<1> QED  BY <1>2, <1>3

Check   == [pc : {"off", "waiting", "fetching", "answered"}, got : SUBSET Nat]
Request == [via : {"download", "reinstall"}, offered : Nat]

UpdatesType ==
  /\ Bounded(published) /\ offered \in Nat
  /\ check \in [Checkers -> Check]
  /\ wanted = Nothing \/ wanted \in Request
  /\ \/ download = NoDownload
     \/ download.pc = "fetching" /\ download.rel \in Nat /\ download.ask \in Request

\* What is known was published; what a check has been told is at least that, for
\* one check is under way at a time.
KnownGrows ==
  /\ releases \subseteq published
  /\ \A c \in Checkers : check[c].pc = "answered" =>
       releases \subseteq check[c].got /\ check[c].got \subseteq published
  /\ \A c, d \in Checkers :
       check[c].pc \in {"fetching", "answered"} /\ check[d].pc \in {"fetching", "answered"} => c = d

\* A release is as good as what was offered, and, for a reinstallation, reads the data.
Honours(rel, request) ==
  /\ rel >= request.offered
  /\ request.via = "reinstall" => rel >= DataFloor

\* So what was offered, and what was asked for, is never more than what is known;
\* nor than what is being fetched for it.
OffersHold ==
  /\ offered <= Latest(releases)
  /\ wanted # Nothing => Honours(Latest(releases), wanted)
  /\ download # NoDownload => Honours(download.rel, download.ask)

UpdatesInv == UpdatesType /\ KnownGrows /\ OffersHold

LEMMA UpdatesInvInit == UpdatesInit => UpdatesInv
<1> SUFFICES ASSUME UpdatesInit PROVE UpdatesInv
  OBVIOUS
<1>1. Min(Releases) \in Nat
  BY MinIsLeast, UpdatesAssumption
<1>2. Bounded(published)
  BY <1>1 DEF UpdatesInit, Bounded
<1>3. UpdatesType
  BY <1>2 DEF UpdatesInit, UpdatesType, NoCheck, Check, NotThere
<1>4. KnownGrows
  BY DEF UpdatesInit, KnownGrows, NoCheck
<1>5. OffersHold
  BY DEF UpdatesInit, OffersHold, Latest, NotThere
<1> QED  BY <1>3, <1>4, <1>5 DEF UpdatesInv

LEMMA KnownIsBounded ==
  ASSUME UpdatesInv
  PROVE  Bounded(releases) /\ Latest(releases) \in Nat
  BY BoundedSubset, LatestOf DEF UpdatesInv, UpdatesType, KnownGrows

LEMMA OfferSteps ==
  ASSUME UpdatesInv, GetUpdate
  PROVE  UpdatesInv'
<1>1. UNCHANGED <<published, releases, check, wanted, download>>
  BY DEF GetUpdate
<1>2. Latest(releases) \in Nat /\ offered \in Nat /\ offered <= Latest(releases)
  BY KnownIsBounded DEF UpdatesInv, UpdatesType, OffersHold
<1>3. Bounded({offered, Latest(releases)})
  BY <1>2 DEF Bounded
<1>4. Max({offered, Latest(releases)}) \in {offered, Latest(releases)}
  BY <1>3, MaxIsGreatest
<1>5. offered' \in Nat /\ offered' <= Latest(releases)
  BY <1>2, <1>4 DEF GetUpdate
<1>6. UpdatesType' /\ KnownGrows'
  BY <1>1, <1>5 DEF UpdatesInv, UpdatesType, KnownGrows
<1>7. OffersHold'
  BY <1>1, <1>5 DEF UpdatesInv, OffersHold
<1> QED  BY <1>6, <1>7 DEF UpdatesInv

LEMMA PublishStep ==
  ASSUME UpdatesInv, Publish
  PROVE  UpdatesInv'
<1>1. PICK r \in Releases \ published : published' = published \cup {r}
  BY DEF Publish
<1>2. Bounded(published')
  BY <1>1, BoundedAdd, UpdatesAssumption DEF UpdatesInv, UpdatesType
<1>3. UNCHANGED <<releases, check, wanted, download, offered>>
  BY DEF Publish
<1>4. UpdatesType'
  BY <1>2, <1>3 DEF UpdatesInv, UpdatesType
<1>5. KnownGrows' /\ OffersHold'
  BY <1>1, <1>3 DEF UpdatesInv, KnownGrows, OffersHold
<1> QED  BY <1>4, <1>5 DEF UpdatesInv

\* A check goes on, or ends with more than was known.
LEMMA CheckSteps ==
  ASSUME UpdatesInv, NEW c \in Checkers,
         CheckAsked(c) \/ CheckLocks(c) \/ GitHubAnswers(c) \/ CheckEnds(c) \/ CheckFails(c)
  PROVE  UpdatesInv'
<1>0. /\ check[c] \in Check /\ published \subseteq Nat
      /\ UNCHANGED <<published, wanted, download, offered>>
  BY DEF CheckAsked, CheckLocks, GitHubAnswers, CheckEnds, CheckFails, UpdatesInv, UpdatesType,
         Bounded
<1>1. PICK k \in Check : check' = [check EXCEPT ![c] = k]
  <2>1. \A pc \in {"waiting", "fetching"} :
          /\ [check[c] EXCEPT !.pc = pc] \in Check
          /\ [check EXCEPT ![c].pc = pc] = [check EXCEPT ![c] = [check[c] EXCEPT !.pc = pc]]
    BY <1>0 DEF Check, UpdatesInv, UpdatesType
  <2>2. NoCheck \in Check /\ [pc |-> "answered", got |-> published] \in Check
    BY <1>0 DEF NoCheck, Check
  <2> QED
    BY <2>1, <2>2 DEF CheckAsked, CheckLocks, GitHubAnswers, CheckEnds, CheckFails
<1>2. check' \in [Checkers -> Check] /\ check'[c] = k /\ \A d \in Checkers \ {c} : check'[d] = check[d]
  BY <1>1 DEF UpdatesInv, UpdatesType
<1>3. UpdatesType'
  BY <1>0, <1>2 DEF UpdatesInv, UpdatesType
<1>4. KnownGrows' /\ releases \subseteq releases' /\ releases' \subseteq published
  <2>1. CASE CheckAsked(c)
    <3>1. k.pc = "waiting" /\ releases' = releases
      BY <1>0, <1>2, <2>1 DEF CheckAsked, Check, UpdatesInv, UpdatesType
    <3> QED  BY <1>0, <1>2, <3>1 DEF UpdatesInv, KnownGrows
  <2>2. CASE CheckLocks(c)
    <3>1. k.pc = "fetching" /\ releases' = releases
      BY <1>0, <1>2, <2>2 DEF CheckLocks, Check, UpdatesInv, UpdatesType
    <3>2. \A d \in Checkers : check[d].pc \notin {"fetching", "answered"}
      BY <2>2 DEF CheckLocks, CheckMuFree
    <3> QED  BY <1>0, <1>2, <3>1, <3>2 DEF UpdatesInv, KnownGrows
  <2>3. CASE GitHubAnswers(c)
    <3>1. k = [pc |-> "answered", got |-> published] /\ releases' = releases /\ check[c].pc = "fetching"
      BY <1>1, <1>2, <2>3 DEF GitHubAnswers, UpdatesInv, UpdatesType
    <3>2. k.pc = "answered" /\ k.got = published
      BY <3>1
    <3> QED  BY <1>0, <1>2, <3>1, <3>2 DEF UpdatesInv, KnownGrows
  <2>4. CASE CheckEnds(c)
    <3>1. k.pc = "off" /\ releases' = check[c].got /\ check[c].pc = "answered"
      BY <1>1, <1>2, <2>4 DEF CheckEnds, NoCheck, UpdatesInv, UpdatesType
    <3>2. /\ releases \subseteq check[c].got /\ check[c].got \subseteq published
          /\ \A d \in Checkers \ {c} : check[d].pc \notin {"fetching", "answered"}
      BY <3>1 DEF UpdatesInv, KnownGrows
    <3> QED  BY <1>0, <1>2, <3>1, <3>2 DEF KnownGrows
  <2>5. CASE CheckFails(c)
    <3>1. k.pc = "off" /\ releases' = releases
      BY <1>1, <1>2, <2>5 DEF CheckFails, NoCheck, UpdatesInv, UpdatesType
    <3> QED  BY <1>0, <1>2, <3>1 DEF UpdatesInv, KnownGrows
  <2> QED  BY <2>1, <2>2, <2>3, <2>4, <2>5
<1>5. Latest(releases) <= Latest(releases') /\ Latest(releases) \in Nat /\ Latest(releases') \in Nat
  <2>1. Bounded(releases')
    BY <1>4, BoundedSubset DEF UpdatesInv, UpdatesType
  <2> QED  BY <1>4, <2>1, LatestGrows, LatestOf, KnownIsBounded
<1>6. OffersHold'
  <2>1. \A q \in Request : Honours(Latest(releases), q) => Honours(Latest(releases'), q)
    BY <1>5, UpdatesAssumption DEF Honours, Request
  <2>2. offered' <= Latest(releases')
    BY <1>0, <1>5 DEF UpdatesInv, UpdatesType, OffersHold
  <2>3. wanted' # Nothing => Honours(Latest(releases'), wanted')
    BY <1>0, <2>1 DEF UpdatesInv, UpdatesType, OffersHold
  <2> QED  BY <1>0, <2>2, <2>3 DEF UpdatesInv, OffersHold, Honours
<1> QED  BY <1>3, <1>4, <1>6 DEF UpdatesInv

\* What is asked for is what is offered, and what is fetched for it the latest there is.
LEMMA DownloadSteps ==
  ASSUME UpdatesInv, AskDownload \/ AskReinstall \/ DownloadBegins \/ DownloadEnds
  PROVE  UpdatesInv'
<1>0. /\ UNCHANGED <<published, releases, check, offered>>
      /\ offered \in Nat /\ Latest(releases) \in Nat /\ offered <= Latest(releases)
  BY KnownIsBounded DEF AskDownload, AskReinstall, DownloadBegins, DownloadEnds, UpdatesInv,
     UpdatesType, OffersHold
<1>1. KnownGrows'
  BY <1>0 DEF UpdatesInv, KnownGrows
<1>2. ASSUME AskDownload \/ AskReinstall  PROVE UpdatesType' /\ OffersHold'
  <2>1. wanted' \in Request /\ wanted'.offered = offered /\ download' = download
    BY <1>0, <1>2 DEF AskDownload, AskReinstall, Request
  <2>2. wanted'.via = "reinstall" => Latest(releases) >= DataFloor
    BY <1>2 DEF AskDownload, AskReinstall, Reinstall
  <2>3. Honours(Latest(releases), wanted')
    BY <1>0, <2>1, <2>2 DEF Honours
  <2> QED  BY <1>0, <2>1, <2>3 DEF UpdatesInv, UpdatesType, OffersHold, Honours
<1>3. ASSUME DownloadBegins  PROVE UpdatesType' /\ OffersHold'
  <2>1. wanted' = Nothing /\ wanted \in Request /\ Honours(Latest(releases), wanted)
    BY <1>3 DEF DownloadBegins, UpdatesInv, UpdatesType, OffersHold
  <2>2. \/ download' = download
        \/ download' = [pc |-> "fetching", rel |-> Latest(releases), ask |-> wanted]
    BY <1>3 DEF DownloadBegins
  <2>3. CASE download' = download
    BY <1>0, <2>1, <2>3 DEF UpdatesInv, UpdatesType, OffersHold, Honours
  <2>4. CASE download' = [pc |-> "fetching", rel |-> Latest(releases), ask |-> wanted]
    <3>1. download'.pc = "fetching" /\ download'.rel = Latest(releases) /\ download'.ask = wanted
      BY <2>4
    <3> QED  BY <1>0, <2>1, <3>1 DEF UpdatesInv, UpdatesType, OffersHold, Honours
  <2> QED  BY <2>2, <2>3, <2>4
<1>4. ASSUME DownloadEnds  PROVE UpdatesType' /\ OffersHold'
  BY <1>0, <1>4 DEF DownloadEnds, UpdatesInv, UpdatesType, OffersHold, Honours
<1> QED  BY <1>1, <1>2, <1>3, <1>4 DEF UpdatesInv

LEMMA ReplacedForgets ==
  ASSUME UpdatesInv, NEW build, Replaced(build), UNCHANGED published
  PROVE  UpdatesInv'
<1>1. /\ releases' = {} /\ check' = [c \in Checkers |-> NoCheck]
      /\ wanted' = Nothing /\ download' = NoDownload /\ offered' = 0
  BY DEF Replaced, NotThere
<1>2. UpdatesType'
  BY <1>1 DEF UpdatesInv, UpdatesType, NoCheck, Check
<1>3. KnownGrows'
  BY <1>1 DEF KnownGrows, NoCheck
<1>4. OffersHold'
  BY <1>1 DEF OffersHold, Latest, NotThere
<1> QED  BY <1>2, <1>3, <1>4 DEF UpdatesInv

LEMMA UpdatesInvStep ==
  ASSUME UpdatesInv, [UpdatesNext]_updates
  PROVE  UpdatesInv'
<1>1. ASSUME UNCHANGED <<published, releases, check, wanted, download, offered>>
      PROVE  UpdatesInv'
  BY <1>1 DEF UpdatesInv, UpdatesType, KnownGrows, OffersHold, Honours
<1>2. CASE GetUpdate
  BY <1>2, OfferSteps
<1>3. CASE Publish
  BY <1>3, PublishStep
<1>4. CASE DismissUpdate \/ UNCHANGED updates
  BY <1>1, <1>4 DEF DismissUpdate, updates
<1>5. ASSUME NEW c \in Checkers,
             CheckAsked(c) \/ CheckLocks(c) \/ GitHubAnswers(c) \/ CheckEnds(c) \/ CheckFails(c)
      PROVE  UpdatesInv'
  BY <1>5, CheckSteps
<1>6. CASE AskDownload \/ AskReinstall \/ DownloadBegins \/ DownloadEnds
  BY <1>6, DownloadSteps
<1>7. CASE InstallerRuns
  BY <1>1, <1>7, ReplacedForgets DEF InstallerRuns
<1>8. CASE RelaunchUpdate \/ DaemonRestarts
  BY <1>8, ReplacedForgets DEF RelaunchUpdate, DaemonRestarts
<1> QED
  BY <1>2, <1>3, <1>4, <1>5, <1>6, <1>7, <1>8 DEF UpdatesNext

LEMMA OpensWhatItFetched ==
  ASSUME UpdatesInv, UpdatesNext, opened' \notin {opened, NotThere}
  PROVE  Honours(opened', download.ask)
<1>1. DownloadEnds /\ opened' = download.rel
  BY DEF UpdatesNext, GetUpdate, DismissUpdate, Publish, CheckAsked, CheckLocks, GitHubAnswers,
     CheckEnds, CheckFails, AskDownload, AskReinstall, DownloadBegins, DownloadEnds,
     InstallerRuns, RelaunchUpdate, DaemonRestarts
<1>2. download # NoDownload
  BY <1>1 DEF DownloadEnds, NoDownload
<1> QED  BY <1>1, <1>2 DEF UpdatesInv, OffersHold

\* The installer that opens is never of an older release than was offered when it was
\* asked for, nor, for a reinstallation, than the build's data allows: whatever is
\* published meanwhile and however the checks of the worker and of the operator
\* overlap with the download, what the daemon knows only grows.
THEOREM OffersAreKept == Spec => OpensWhatWasOffered
<1>1. Init => UpdatesInv
  BY UpdatesInvInit DEF Init
<1>2. [Next]_services => [UpdatesNext]_updates
  BY DEF Next, ServeReadings, ServeUpdates, ServeWakes, ServeRename, ServeDrafts, services
<1>3. UpdatesInv /\ [Next]_services => UpdatesInv'
  BY <1>2, UpdatesInvStep
<1>4. UpdatesInv /\ [Next]_services =>
        [opened' \notin {opened, NotThere} =>
           /\ opened' >= download.ask.offered
           /\ download.ask.via = "reinstall" => opened' >= DataFloor]_updates
  BY <1>2, OpensWhatItFetched DEF Honours
<1> QED  BY <1>1, <1>3, <1>4, PTL DEF Spec, OpensWhatWasOffered

=============================================================================
