--------------------------- MODULE ExecutorProofs ---------------------------
(***************************************************************************)
(* One run of a harness, whatever it writes and however many lines of it,  *)
(* whatever it leaves behind, and whoever stops it: a limit it ended on is *)
(* kept, with its waiting time, and so is an answer.                       *)
(***************************************************************************)
EXTENDS Executor, SequenceTheorems, WellFoundedInduction, TLAPS

-----------------------------------------------------------------------------
(* Recursion.                                                              *)

LEMMA LeastNumber ==
  ASSUME NEW S \in SUBSET Nat, S # {}
  PROVE  \E n \in S : \A m \in S : n <= m
<1> DEFINE R == OpToRel(<, Nat)
<1>1. IsWellFoundedOn(R, Nat)
  BY NatLessThanWellFounded
<1>2. PICK n \in S : \A m \in S : ~(<<m, n>> \in R)
  <2> HIDE DEF R
  <2> QED  BY <1>1, WFMin
<1>3. \A m \in S : ~(m < n)
  BY <1>2 DEF OpToRel
<1> QED  BY <1>3

Stages(n, X) == [1..n -> [X -> X]]
Staged(n, X, b, F) ==
  \E f \in [0..n -> X] : f[0] = b /\ \A m \in 1..n : f[m] = F[m][f[m - 1]]

\* A value of every stage can be had from a first one and a step per stage.
LEMMA Recursion ==
  ASSUME NEW X, NEW b \in X, NEW n \in Nat, NEW F \in Stages(n, X)
  PROVE  Staged(n, X, b, F)
<1> DEFINE Good(i) == \E f \in [0..i -> X] : f[0] = b /\ \A m \in 1..i : f[m] = F[m][f[m - 1]]
           Bad == {i \in 0..n : ~Good(i)}
<1> SUFFICES ASSUME Bad # {} PROVE FALSE
  <2>1. n \in 0..n
    OBVIOUS
  <2>2. Bad = {} => Good(n)
    <3> HIDE DEF Good
    <3> QED  BY <2>1
  <2> QED  BY <2>2 DEF Staged
<1>1. PICK i \in Bad : \A m \in Bad : i <= m
  <2>1. Bad \in SUBSET Nat
    OBVIOUS
  <2> HIDE DEF Bad
  <2> QED  BY <2>1, LeastNumber
<1>2. Good(0)
  <2> DEFINE f == [m \in 0..0 |-> b]
  <2>1. f \in [0..0 -> X] /\ f[0] = b /\ 1..0 = {}
    OBVIOUS
  <2> HIDE DEF f
  <2> QED  BY <2>1
<1>3. i \in 1..n /\ i - 1 \in 0..n /\ i - 1 \notin Bad
  <2> HIDE DEF Good
  <2> QED  BY <1>1, <1>2
<1>4. PICK f \in [0..(i - 1) -> X] :
        f[0] = b /\ \A m \in 1..(i - 1) : f[m] = F[m][f[m - 1]]
  BY <1>3
<1> DEFINE g == [m \in 0..i |-> IF m < i THEN f[m] ELSE F[i][f[i - 1]]]
<1>5. F[i][f[i - 1]] \in X
  BY <1>3, <1>4 DEF Stages
<1>6. g \in [0..i -> X]
  BY <1>3, <1>4, <1>5
<1>7. g[0] = b
  BY <1>3, <1>4
<1>8. ASSUME NEW m \in 1..i PROVE g[m] = F[m][g[m - 1]]
  <2>1. m - 1 \in 0..i /\ m - 1 < i /\ g[m - 1] = f[m - 1]
    BY <1>3
  <2>2. CASE m = i
    BY <2>1, <2>2, <1>3
  <2>3. CASE m # i
    <3>1. m \in 1..(i - 1) /\ m < i
      BY <2>3, <1>3
    <3> QED  BY <3>1, <2>1, <1>4
  <2> QED  BY <2>2, <2>3
<1> HIDE DEF g
<1>9. Good(i)
  BY <1>6, <1>7, <1>8
<1> QED  BY <1>1, <1>9

-----------------------------------------------------------------------------
(* Collectors and parsers.                                                 *)

Flags == {"rateLimited", "authFailed", "modelReject", "failed", "completed", "completedErr"}
CollectorType == [up : SUBSET Flags, retry : Delays, reset : BOOLEAN]
ParserType == [seen : SUBSET Signs, problem : SUBSET Signs]
Reading == [parser : ParserType, collector : CollectorType]

LEMMA AddType ==
  ASSUME NEW c \in CollectorType, NEW ev \in Event
  PROVE  Add(c, ev) \in CollectorType
<1>1. c.up \in SUBSET Flags /\ c.retry \in Delays /\ c.reset \in BOOLEAN
  BY DEF CollectorType
<1>2. ev.type \in EventTypes /\ ev.retry \in Delays /\ ev.reset \in BOOLEAN
  BY DEF Event
<1>3. Raised(ev) \in SUBSET Flags
  BY <1>2 DEF Raised, EventTypes, Flags
<1>4. (IF ev.type = "completed" THEN c.up \ {"completedErr"} ELSE c.up) \cup Raised(ev)
        \in SUBSET Flags
  BY <1>1, <1>3
<1> QED  BY <1>1, <1>2, <1>4 DEF Add, CollectorType

\* The events of a line are at most three, and are added one after another.
LEMMA AddEach ==
  ASSUME NEW c \in CollectorType, NEW evs \in Seq(Event)
  PROVE  \E f \in [0..Len(evs) -> CollectorType] :
           /\ f[0] = c /\ \A m \in 1..Len(evs) : f[m] = Add(f[m - 1], evs[m])
           /\ AddAll(c, evs) = f[Len(evs)]
<1> DEFINE n == Len(evs)
           F == [m \in 1..n |-> [x \in CollectorType |-> Add(x, evs[m])]]
           Steps(f) == f = [m \in 0..n |-> IF m = 0 THEN c ELSE Add(f[m - 1], evs[m])]
<1>1. n \in Nat /\ F \in Stages(n, CollectorType)
  BY AddType DEF Stages
<1>2. PICK f \in [0..n -> CollectorType] : f[0] = c /\ \A m \in 1..n : f[m] = F[m][f[m - 1]]
  <2> HIDE DEF F, n
  <2>1. Staged(n, CollectorType, c, F)
    BY <1>1, Recursion
  <2> QED  BY <2>1 DEF Staged
<1>3. \A m \in 1..n : f[m - 1] \in CollectorType /\ f[m] = Add(f[m - 1], evs[m])
  <2> SUFFICES ASSUME NEW m \in 1..n
               PROVE  f[m - 1] \in CollectorType /\ f[m] = Add(f[m - 1], evs[m])
    OBVIOUS
  <2>1. m - 1 \in 0..n
    BY <1>1
  <2> QED  BY <2>1, <1>2
<1>4. Steps(f)
  <2> HIDE DEF n, F
  <2> QED  BY <1>1, <1>2, <1>3
<1> DEFINE g == CHOOSE h : Steps(h)
<1>5. Steps(g)
  <2> HIDE DEF Steps
  <2> QED  BY <1>4
<1>6. AddAll(c, evs) = g[n]
  BY DEF AddAll
<1> HIDE DEF g
<1>7. g[0] = c /\ \A m \in 1..n : g[m] = Add(g[m - 1], evs[m]) /\ m - 1 \in 0..n
  <2> HIDE DEF n
  <2>1. \A m \in 0..n : g[m] = IF m = 0 THEN c ELSE Add(g[m - 1], evs[m])
    <3> DEFINE all == [m \in 0..n |-> IF m = 0 THEN c ELSE Add(g[m - 1], evs[m])]
    <3>1. g = all
      BY <1>5
    <3>2. \A m \in 0..n : all[m] = IF m = 0 THEN c ELSE Add(g[m - 1], evs[m])
      OBVIOUS
    <3> HIDE DEF all
    <3> QED  BY <3>1, <3>2
  <2> QED  BY <1>1, <2>1
<1>8. DOMAIN g = 0..n
  BY <1>5
<1> DEFINE Bad == {m \in 0..n : g[m] \notin CollectorType}
<1>9. Bad = {}
  <2> SUFFICES ASSUME Bad # {} PROVE FALSE
    OBVIOUS
  <2>1. PICK b \in Bad : \A m \in Bad : b <= m
    <3>1. Bad \in SUBSET Nat
      BY <1>1
    <3> HIDE DEF Bad
    <3> QED  BY <3>1, LeastNumber
  <2>2. b # 0
    BY <2>1, <1>7
  <2>3. b \in 1..n /\ b - 1 \in 0..n /\ b - 1 \notin Bad
    BY <2>1, <2>2, <1>1
  <2>4. g[b - 1] \in CollectorType /\ evs[b] \in Event
    BY <2>3
  <2> QED  BY <2>1, <2>3, <2>4, <1>7, AddType
<1>10. g = [m \in 0..n |-> g[m]]
  BY <1>5
<1>11. g \in [0..n -> CollectorType]
  BY <1>9, <1>10
<1> QED  BY <1>6, <1>7, <1>11

LEMMA AddNone ==
  ASSUME NEW c \in CollectorType
  PROVE  AddAll(c, <<>>) = c
<1> DEFINE s == <<>>
<1>1. s \in Seq(Event) /\ Len(s) = 0
  OBVIOUS
<1> HIDE DEF s
<1>2. PICK g : g[0] = c /\ (\A m \in 1..Len(s) : g[m] = Add(g[m - 1], s[m]))
               /\ AddAll(c, s) = g[Len(s)]
  <2>1. s \in Seq(Event)
    BY <1>1
  <2> QED  BY <2>1, AddEach
<1> QED  BY <1>1, <1>2 DEF s

LEMMA AddOne ==
  ASSUME NEW c \in CollectorType, NEW d \in Event
  PROVE  AddAll(c, <<d>>) = Add(c, d)
<1> DEFINE s == <<d>>
<1>1. s \in Seq(Event) /\ Len(s) = 1 /\ s[1] = d
  OBVIOUS
<1> HIDE DEF s
<1>2. PICK g : /\ g[0] = c /\ \A m \in 1..1 : g[m] = Add(g[m - 1], s[m])
               /\ AddAll(c, s) = g[1]
  BY <1>1, AddEach
<1>3. g[1] = Add(g[0], s[1])
  BY <1>2
<1> QED  BY <1>1, <1>2, <1>3 DEF s

LEMMA AddTwo ==
  ASSUME NEW c \in CollectorType, NEW d \in Event, NEW e \in Event
  PROVE  AddAll(c, <<d, e>>) = Add(Add(c, d), e)
<1> DEFINE s == <<d, e>>
<1>1. s \in Seq(Event) /\ Len(s) = 2 /\ s[1] = d /\ s[2] = e
  OBVIOUS
<1> HIDE DEF s
<1>2. PICK g : /\ g[0] = c /\ \A m \in 1..2 : g[m] = Add(g[m - 1], s[m])
               /\ AddAll(c, s) = g[2]
  BY <1>1, AddEach
<1>3. g[1] = Add(g[0], s[1]) /\ g[2] = Add(g[1], s[2])
  BY <1>2
<1> QED  BY <1>1, <1>2, <1>3 DEF s

LEMMA AddThree ==
  ASSUME NEW c \in CollectorType, NEW d \in Event, NEW e \in Event, NEW f \in Event
  PROVE  AddAll(c, <<d, e, f>>) = Add(Add(Add(c, d), e), f)
<1> DEFINE s == <<d, e, f>>
<1>1. s \in Seq(Event) /\ Len(s) = 3 /\ s[1] = d /\ s[2] = e /\ s[3] = f
  OBVIOUS
<1> HIDE DEF s
<1>2. PICK g : /\ g[0] = c /\ \A m \in 1..3 : g[m] = Add(g[m - 1], s[m])
               /\ AddAll(c, s) = g[3]
  BY <1>1, AddEach
<1>3. g[1] = Add(g[0], s[1]) /\ g[2] = Add(g[1], s[2]) /\ g[3] = Add(g[2], s[3])
  BY <1>2
<1> QED  BY <1>1, <1>2, <1>3 DEF s

\* What a line adds, if it adds anything.
AddIf(c, cond, ev) == IF cond THEN Add(c, ev) ELSE c

LEMMA AddIfType ==
  ASSUME NEW c \in CollectorType, NEW ev \in Event, NEW cond
  PROVE  AddIf(c, cond, ev) \in CollectorType
BY AddType DEF AddIf

LEMMA PlainlyType == \A type \in EventTypes : Plainly(type) \in Event
BY DEF Plainly, Event, Delays

LEMMA PauseType == ASSUME NEW seen PROVE Pause(seen) \in Event
BY DEF Pause, Event, EventTypes, Delays

LEMMA TerminalType == ASSUME NEW problem PROVE TerminalFailure(problem) \in Event
<1>1. {Plainly("auth failed"), Plainly("model rejected"), Plainly("failed")} \subseteq Event
  BY PlainlyType DEF EventTypes
<1>2. [type |-> "rate limited", retry |-> "none", reset |-> "reset" \in problem] \in Event
  BY DEF Event, EventTypes, Delays
<1> QED  BY <1>1, <1>2 DEF TerminalFailure

LEMMA OneMore ==
  ASSUME NEW S, NEW x \in S, NEW y \in S, NEW z \in S
  PROVE  <<x>> \o <<y>> = <<x, y>> /\ <<x, y>> \o <<z>> = <<x, y, z>>
<1>1. <<x>> \o <<y>> = <<x, y>>
  <2> DEFINE p == <<x>>
             q == <<y>>
             r == <<x, y>>
  <2>1. p \in Seq(S) /\ q \in Seq(S) /\ r \in Seq(S) /\ Len(p) = 1 /\ Len(q) = 1 /\ Len(r) = 2
        /\ p[1] = x /\ q[1] = y /\ r[1] = x /\ r[2] = y
    OBVIOUS
  <2> HIDE DEF p, q, r
  <2>2. /\ p \o q \in Seq(S) /\ Len(p \o q) = 2
        /\ \A i \in 1..2 : (p \o q)[i] = IF i <= 1 THEN p[i] ELSE q[i - 1]
    <3>1. p \in Seq(S) /\ q \in Seq(S) /\ Len(p) = 1 /\ Len(q) = 1
      BY <2>1
    <3>2. /\ p \o q \in Seq(S) /\ Len(p \o q) = Len(p) + Len(q)
          /\ \A i \in 1..(Len(p) + Len(q)) :
               (p \o q)[i] = IF i <= Len(p) THEN p[i] ELSE q[i - Len(p)]
      BY <3>1, ConcatProperties
    <3> QED  BY <3>1, <3>2
  <2>3. \A i \in 1..Len(p \o q) : (p \o q)[i] = r[i]
    BY <2>1, <2>2
  <2>4. p \o q = r
    BY <2>1, <2>2, <2>3, SeqEqual
  <2> QED  BY <2>4 DEF p, q, r
<1>2. <<x, y>> \o <<z>> = <<x, y, z>>
  <2> DEFINE p == <<x, y>>
             q == <<z>>
             r == <<x, y, z>>
  <2>1. p \in Seq(S) /\ q \in Seq(S) /\ r \in Seq(S) /\ Len(p) = 2 /\ Len(q) = 1 /\ Len(r) = 3
        /\ p[1] = x /\ p[2] = y /\ q[1] = z /\ r[1] = x /\ r[2] = y /\ r[3] = z
    OBVIOUS
  <2> HIDE DEF p, q, r
  <2>2. /\ p \o q \in Seq(S) /\ Len(p \o q) = 3
        /\ \A i \in 1..3 : (p \o q)[i] = IF i <= 2 THEN p[i] ELSE q[i - 2]
    <3>1. p \in Seq(S) /\ q \in Seq(S) /\ Len(p) = 2 /\ Len(q) = 1
      BY <2>1
    <3>2. /\ p \o q \in Seq(S) /\ Len(p \o q) = Len(p) + Len(q)
          /\ \A i \in 1..(Len(p) + Len(q)) :
               (p \o q)[i] = IF i <= Len(p) THEN p[i] ELSE q[i - Len(p)]
      BY <3>1, ConcatProperties
    <3> QED  BY <3>1, <3>2
  <2>3. \A i \in 1..Len(p \o q) : (p \o q)[i] = r[i]
    BY <2>1, <2>2
  <2>4. p \o q = r
    BY <2>1, <2>2, <2>3, SeqEqual
  <2> QED  BY <2>4 DEF p, q, r
<1> QED  BY <1>1, <1>2

\* Claude Code's parser finds a failed login, a pause and a result in a line.
SeenWith(p, line) == p.seen \cup (line \cap {"limit", "block", "retry", "reset"})
ResultOf(line) == IF "ok" \in line THEN Plainly("completed") ELSE Plainly("completed with an error")

LEMMA ResultType == ASSUME NEW line PROVE ResultOf(line) \in Event
BY PlainlyType DEF ResultOf, EventTypes

LEMMA TakeClaude ==
  ASSUME NEW r \in Reading, NEW line \in SUBSET Signs
  PROVE  Take("claude-code", r, line) =
           [parser |-> [r.parser EXCEPT !.seen = SeenWith(r.parser, line)],
            collector |->
              AddIf(AddIf(AddIf(r.collector, IsAuthFailure(line), Plainly("auth failed")),
                          Pauses(r.parser, line), Pause(SeenWith(r.parser, line))),
                    "ok" \in line \/ "error" \in line, ResultOf(line))]
<1> DEFINE a == Plainly("auth failed")
           p == Pause(SeenWith(r.parser, line))
           o == ResultOf(line)
           A == IsAuthFailure(line)
           P == Pauses(r.parser, line)
           O == "ok" \in line \/ "error" \in line
           c == r.collector
           evs == (IF A THEN <<a>> ELSE <<>>) \o (IF P THEN <<p>> ELSE <<>>)
                  \o (IF O THEN <<o>> ELSE <<>>)
<1>1. a \in Event /\ p \in Event /\ o \in Event /\ c \in CollectorType
  BY PlainlyType, PauseType, ResultType DEF Reading, EventTypes
<1>2. Take("claude-code", r, line) =
        [parser |-> [r.parser EXCEPT !.seen = SeenWith(r.parser, line)],
         collector |-> AddAll(c, evs)]
  BY DEF Take, Parse, ParseClaude, SeenWith, ResultOf, Kinds
<1> HIDE DEF a, p, o, A, P, O, c
<1>3. AddAll(c, evs) = AddIf(AddIf(AddIf(c, A, a), P, p), O, o)
  <2>1. evs = IF A THEN IF P THEN IF O THEN <<a, p, o>> ELSE <<a, p>>
                        ELSE IF O THEN <<a, o>> ELSE <<a>>
              ELSE IF P THEN IF O THEN <<p, o>> ELSE <<p>>
                   ELSE IF O THEN <<o>> ELSE <<>>
    <3> DEFINE none == <<>>
               sa == <<a>>
               sp == <<p>>
               so == <<o>>
               sap == <<a, p>>
    <3>1. /\ none \in Seq(Event) /\ sa \in Seq(Event) /\ sp \in Seq(Event)
          /\ so \in Seq(Event) /\ sap \in Seq(Event)
      BY <1>1
    <3>2. sa \o sp = sap /\ sa \o so = <<a, o>> /\ sp \o so = <<p, o>> /\ sap \o so = <<a, p, o>>
      BY <1>1, OneMore
    <3>3. evs = (IF A THEN sa ELSE none) \o (IF P THEN sp ELSE none) \o (IF O THEN so ELSE none)
      OBVIOUS
    <3>4. \A q \in Seq(Event) : q \o none = q /\ none \o q = q
      BY ConcatEmptySeq
    <3> HIDE DEF none, sa, sp, so, sap, evs
    <3>5. /\ none \o none = none /\ sa \o none = sa /\ none \o sp = sp /\ sp \o none = sp
          /\ none \o so = so /\ sap \o none = sap
      BY <3>1, <3>4
    <3>6. evs = IF A THEN IF P THEN IF O THEN <<a, p, o>> ELSE sap
                          ELSE IF O THEN <<a, o>> ELSE sa
                ELSE IF P THEN IF O THEN <<p, o>> ELSE sp
                     ELSE IF O THEN so ELSE none
      BY <3>2, <3>3, <3>5, Zenon
    <3> QED  BY <3>6 DEF none, sa, sp, so, sap
  <2> HIDE DEF evs
  <2>2. /\ AddAll(c, <<>>) = c /\ AddAll(c, <<a>>) = Add(c, a)
        /\ AddAll(c, <<p>>) = Add(c, p) /\ AddAll(c, <<o>>) = Add(c, o)
        /\ AddAll(c, <<a, p>>) = Add(Add(c, a), p) /\ AddAll(c, <<a, o>>) = Add(Add(c, a), o)
        /\ AddAll(c, <<p, o>>) = Add(Add(c, p), o)
        /\ AddAll(c, <<a, p, o>>) = Add(Add(Add(c, a), p), o)
    BY <1>1, AddNone, AddOne, AddTwo, AddThree
  <2> QED  BY <2>1, <2>2 DEF AddIf
<1> QED  BY <1>2, <1>3 DEF a, p, o, A, P, O, c

LEMMA TakeCodex ==
  ASSUME NEW r \in Reading, NEW line \in SUBSET Signs
  PROVE  Take("codex", r, line) =
           [parser |-> [r.parser EXCEPT !.problem = Noted(r.parser, line)],
            collector |-> AddIf(r.collector, "end" \in line,
                                IF "ok" \in line THEN Plainly("completed")
                                ELSE TerminalFailure(Noted(r.parser, line)))]
<1> DEFINE ok == Plainly("completed")
           bad == TerminalFailure(Noted(r.parser, line))
           evs == IF "end" \notin line THEN <<>> ELSE IF "ok" \in line THEN <<ok>> ELSE <<bad>>
<1>1. ok \in Event /\ bad \in Event /\ r.collector \in CollectorType
  BY PlainlyType, TerminalType DEF Reading, EventTypes
<1>2. Take("codex", r, line) =
        [parser |-> [r.parser EXCEPT !.problem = Noted(r.parser, line)],
         collector |-> AddAll(r.collector, evs)]
  BY DEF Take, Parse, ParseCodex, Kinds
<1> HIDE DEF ok, bad
<1>3. AddAll(r.collector, evs) = AddIf(r.collector, "end" \in line, IF "ok" \in line THEN ok ELSE bad)
  BY <1>1, AddNone, AddOne DEF AddIf
<1> QED  BY <1>2, <1>3 DEF ok, bad

LEMMA TakeOpencode ==
  ASSUME NEW r \in Reading, NEW line \in SUBSET Signs
  PROVE  Take("opencode", r, line) =
           [parser |-> r.parser,
            collector |-> AddIf(r.collector, "ok" \in line \/ "error" \in line,
                                IF "ok" \in line THEN Plainly("completed") ELSE Plainly("failed"))]
<1> DEFINE ok == Plainly("completed")
           bad == Plainly("failed")
           evs == IF "ok" \in line THEN <<ok>> ELSE IF "error" \in line THEN <<bad>> ELSE <<>>
<1>1. ok \in Event /\ bad \in Event /\ r.collector \in CollectorType
  BY PlainlyType DEF Reading, EventTypes
<1>2. Take("opencode", r, line) = [parser |-> r.parser, collector |-> AddAll(r.collector, evs)]
  BY DEF Take, Parse, ParseOpencode, Kinds
<1> HIDE DEF ok, bad
<1>3. AddAll(r.collector, evs)
        = AddIf(r.collector, "ok" \in line \/ "error" \in line, IF "ok" \in line THEN ok ELSE bad)
  BY <1>1, AddNone, AddOne DEF AddIf
<1> QED  BY <1>2, <1>3 DEF ok, bad

\* The same, field by field.
ClaudeCollects(r, line) ==
  AddIf(AddIf(AddIf(r.collector, IsAuthFailure(line), Plainly("auth failed")),
              Pauses(r.parser, line), Pause(SeenWith(r.parser, line))),
        "ok" \in line \/ "error" \in line, ResultOf(line))

LEMMA TakeFields ==
  ASSUME NEW r \in Reading, NEW line \in SUBSET Signs
  PROVE  /\ Take("claude-code", r, line).collector = ClaudeCollects(r, line)
         /\ Take("claude-code", r, line).parser.seen = SeenWith(r.parser, line)
         /\ Take("claude-code", r, line).parser.problem = r.parser.problem
         /\ Take("codex", r, line).collector
              = AddIf(r.collector, "end" \in line,
                      IF "ok" \in line THEN Plainly("completed")
                      ELSE TerminalFailure(Noted(r.parser, line)))
         /\ Take("codex", r, line).parser.problem = Noted(r.parser, line)
         /\ Take("opencode", r, line).collector
              = AddIf(r.collector, "ok" \in line \/ "error" \in line,
                      IF "ok" \in line THEN Plainly("completed") ELSE Plainly("failed"))
         /\ Take("opencode", r, line).parser = r.parser
<1>1. PICK p : p = r.parser /\ p \in ParserType
  BY DEF Reading
<1>2. PICK seen : seen = SeenWith(r.parser, line)
  OBVIOUS
<1>3. PICK noted : noted = Noted(r.parser, line)
  OBVIOUS
<1>4. PICK s : s = [p EXCEPT !.seen = seen] /\ s.seen = seen /\ s.problem = p.problem
  <2>1. [p EXCEPT !.seen = seen].seen = seen /\ [p EXCEPT !.seen = seen].problem = p.problem
    BY <1>1 DEF ParserType
  <2> QED  BY <2>1
<1>5. PICK n : n = [p EXCEPT !.problem = noted] /\ n.problem = noted
  <2>1. [p EXCEPT !.problem = noted].problem = noted
    BY <1>1 DEF ParserType
  <2> QED  BY <2>1
<1>6. PICK c : c = ClaudeCollects(r, line)
  OBVIOUS
<1>7. Take("claude-code", r, line) = [parser |-> s, collector |-> c]
  BY <1>1, <1>2, <1>4, <1>6, TakeClaude DEF ClaudeCollects
<1>8. PICK d : d = AddIf(r.collector, "end" \in line,
                         IF "ok" \in line THEN Plainly("completed")
                         ELSE TerminalFailure(Noted(r.parser, line)))
  OBVIOUS
<1>9. Take("codex", r, line) = [parser |-> n, collector |-> d]
  BY <1>1, <1>3, <1>5, <1>8, TakeCodex
<1>10. PICK e : e = AddIf(r.collector, "ok" \in line \/ "error" \in line,
                          IF "ok" \in line THEN Plainly("completed") ELSE Plainly("failed"))
  OBVIOUS
<1>11. Take("opencode", r, line) = [parser |-> p, collector |-> e]
  BY <1>1, <1>10, TakeOpencode
<1>12. /\ Take("claude-code", r, line).collector = ClaudeCollects(r, line)
       /\ Take("claude-code", r, line).parser.seen = SeenWith(r.parser, line)
       /\ Take("claude-code", r, line).parser.problem = r.parser.problem
  <2>1. Take("claude-code", r, line).collector = c /\ Take("claude-code", r, line).parser = s
    BY <1>7
  <2> QED  BY <2>1, <1>1, <1>2, <1>4, <1>6, Zenon
<1>13. /\ Take("codex", r, line).collector = d
       /\ Take("codex", r, line).parser.problem = Noted(r.parser, line)
  <2>1. Take("codex", r, line).collector = d /\ Take("codex", r, line).parser = n
    BY <1>9
  <2> QED  BY <2>1, <1>3, <1>5, Zenon
<1>14. Take("opencode", r, line).collector = e /\ Take("opencode", r, line).parser = r.parser
  <2>1. Take("opencode", r, line).collector = e /\ Take("opencode", r, line).parser = p
    BY <1>11
  <2> QED  BY <2>1, <1>1
<1> QED  BY <1>8, <1>10, <1>12, <1>13, <1>14, Zenon

LEMMA TakeType ==
  ASSUME NEW kind \in Kinds, NEW r \in Reading, NEW line \in SUBSET Signs
  PROVE  Take(kind, r, line) \in Reading
<1>1. r.parser \in ParserType /\ r.collector \in CollectorType
  BY DEF Reading
<1>2. CASE kind = "claude-code"
  <2>1. [r.parser EXCEPT !.seen = SeenWith(r.parser, line)] \in ParserType
    BY <1>1 DEF ParserType, SeenWith, Signs
  <2>2. /\ Plainly("auth failed") \in Event /\ Pause(SeenWith(r.parser, line)) \in Event
        /\ ResultOf(line) \in Event
    BY PlainlyType, PauseType, ResultType DEF EventTypes
  <2>3. PICK c1 \in CollectorType :
          c1 = AddIf(r.collector, IsAuthFailure(line), Plainly("auth failed"))
    BY <1>1, <2>2, AddIfType
  <2>4. PICK c2 \in CollectorType :
          c2 = AddIf(c1, Pauses(r.parser, line), Pause(SeenWith(r.parser, line)))
    BY <2>2, AddIfType
  <2>5. PICK c3 \in CollectorType :
          c3 = AddIf(c2, "ok" \in line \/ "error" \in line, ResultOf(line))
    BY <2>2, AddIfType
  <2>6. Take(kind, r, line)
          = [parser |-> [r.parser EXCEPT !.seen = SeenWith(r.parser, line)], collector |-> c3]
    BY <1>2, <2>3, <2>4, <2>5, TakeClaude
  <2> QED  BY <2>1, <2>6 DEF Reading
<1>3. CASE kind = "codex"
  <2>1. [r.parser EXCEPT !.problem = Noted(r.parser, line)] \in ParserType
    BY <1>1 DEF ParserType, Noted, Problems, Signs
  <2> DEFINE ev == IF "ok" \in line THEN Plainly("completed")
                   ELSE TerminalFailure(Noted(r.parser, line))
  <2>2. ev \in Event
    BY PlainlyType, TerminalType DEF EventTypes
  <2>3. Take(kind, r, line) = [parser |-> [r.parser EXCEPT !.problem = Noted(r.parser, line)],
                               collector |-> AddIf(r.collector, "end" \in line, ev)]
    BY <1>3, TakeCodex
  <2> HIDE DEF ev
  <2>4. AddIf(r.collector, "end" \in line, ev) \in CollectorType
    BY <1>1, <2>2, AddIfType
  <2> QED  BY <2>1, <2>3, <2>4 DEF Reading
<1>4. CASE kind = "opencode"
  <2> DEFINE ev == IF "ok" \in line THEN Plainly("completed") ELSE Plainly("failed")
  <2>1. ev \in Event
    BY PlainlyType DEF EventTypes
  <2>2. Take(kind, r, line) = [parser |-> r.parser,
                               collector |-> AddIf(r.collector, "ok" \in line \/ "error" \in line, ev)]
    BY <1>4, TakeOpencode
  <2> HIDE DEF ev
  <2>3. AddIf(r.collector, "ok" \in line \/ "error" \in line, ev) \in CollectorType
    BY <1>1, <2>1, AddIfType
  <2> QED  BY <1>1, <2>2, <2>3 DEF Reading
<1> QED  BY <1>2, <1>3, <1>4 DEF Kinds

\* A line without a sign changes nothing.
LEMMA NoiseIsNothing ==
  ASSUME NEW kind \in Kinds, NEW r \in Reading
  PROVE  Take(kind, r, Noise) = r
<1>1. r = [parser |-> r.parser, collector |-> r.collector] /\ r.parser \in ParserType
  BY DEF Reading
<1>2. Noise \in SUBSET Signs /\ \A sign : sign \notin Noise
  BY DEF Noise
<1>3. CASE kind = "claude-code"
  <2>1. SeenWith(r.parser, Noise) = r.parser.seen /\ ~Pauses(r.parser, Noise) /\ ~IsAuthFailure(Noise)
    BY <1>2 DEF SeenWith, Pauses, IsAuthFailure, Noise
  <2>2. [r.parser EXCEPT !.seen = r.parser.seen] = r.parser
    BY <1>1 DEF ParserType
  <2>3. Take(kind, r, Noise) = [parser |-> [r.parser EXCEPT !.seen = SeenWith(r.parser, Noise)],
                                collector |-> r.collector]
    BY <1>2, <1>3, <2>1, TakeClaude DEF AddIf
  <2> QED  BY <1>1, <2>1, <2>2, <2>3
<1>4. CASE kind = "codex"
  <2>1. Noted(r.parser, Noise) = r.parser.problem
    BY <1>2 DEF Noted, Noise
  <2>2. [r.parser EXCEPT !.problem = r.parser.problem] = r.parser
    BY <1>1 DEF ParserType
  <2> QED  BY <1>1, <1>2, <1>4, <2>1, <2>2, TakeCodex DEF AddIf
<1>5. CASE kind = "opencode"
  BY <1>1, <1>2, <1>5, TakeOpencode DEF AddIf
<1> QED  BY <1>3, <1>4, <1>5 DEF Kinds

-----------------------------------------------------------------------------
(* What a run has said.                                                    *)

\* The readings of the first lines follow each from the one before.
Follows(kind, lines, f, n) ==
  /\ f \in [0..n -> Reading] /\ f[0] = NewReading
  /\ \A m \in 1..n : f[m] = Take(kind, f[m - 1], lines[m])

LEMMA NewReadingType == NewReading \in Reading
BY DEF NewReading, Reading, NewParser, NewCollector, ParserType, CollectorType, Delays, Flags

LEMMA HeardFollows ==
  ASSUME NEW kind \in Kinds, NEW lines, NEW n \in Nat, \A i \in 1..n : lines[i] \in SUBSET Signs
  PROVE  \E f : Follows(kind, lines, f, n) /\ HeardOf(kind, lines, n) = f[n]
<1> DEFINE F == [m \in 1..n |-> [x \in Reading |-> Take(kind, x, lines[m])]]
           Steps(f) == f = [m \in 0..n |->
                              IF m = 0 THEN NewReading ELSE Take(kind, f[m - 1], lines[m])]
<1>1. F \in Stages(n, Reading)
  BY TakeType DEF Stages
<1>2. PICK f \in [0..n -> Reading] : f[0] = NewReading /\ \A m \in 1..n : f[m] = F[m][f[m - 1]]
  <2> HIDE DEF F
  <2>1. Staged(n, Reading, NewReading, F)
    BY <1>1, NewReadingType, Recursion
  <2> QED  BY <2>1 DEF Staged
<1>3. \A m \in 1..n : m - 1 \in 0..n /\ f[m] = Take(kind, f[m - 1], lines[m])
  <2> SUFFICES ASSUME NEW m \in 1..n
               PROVE  m - 1 \in 0..n /\ f[m] = Take(kind, f[m - 1], lines[m])
    OBVIOUS
  <2>1. m - 1 \in 0..n
    OBVIOUS
  <2> QED  BY <2>1, <1>2
<1>4. Steps(f)
  <2> HIDE DEF F
  <2> QED  BY <1>2, <1>3
<1> DEFINE g == CHOOSE h : Steps(h)
<1>5. Steps(g)
  <2> HIDE DEF Steps
  <2> QED  BY <1>4
<1>6. HeardOf(kind, lines, n) = g[n]
  BY DEF HeardOf
<1> HIDE DEF g
<1>7. g[0] = NewReading
      /\ \A m \in 1..n : g[m] = Take(kind, g[m - 1], lines[m]) /\ m - 1 \in 0..n
  <2>1. \A m \in 0..n : g[m] = IF m = 0 THEN NewReading ELSE Take(kind, g[m - 1], lines[m])
    <3> DEFINE all == [m \in 0..n |->
                         IF m = 0 THEN NewReading ELSE Take(kind, g[m - 1], lines[m])]
    <3>1. g = all
      BY <1>5
    <3>2. \A m \in 0..n : all[m] = IF m = 0 THEN NewReading ELSE Take(kind, g[m - 1], lines[m])
      OBVIOUS
    <3> HIDE DEF all
    <3> QED  BY <3>1, <3>2
  <2> QED  BY <2>1
<1> DEFINE Bad == {m \in 0..n : g[m] \notin Reading}
<1>8. Bad = {}
  <2> SUFFICES ASSUME Bad # {} PROVE FALSE
    OBVIOUS
  <2>1. PICK b \in Bad : \A m \in Bad : b <= m
    <3>1. Bad \in SUBSET Nat
      OBVIOUS
    <3> HIDE DEF Bad
    <3> QED  BY <3>1, LeastNumber
  <2>2. b # 0
    BY <2>1, <1>7, NewReadingType
  <2>3. b \in 1..n /\ b - 1 \in 0..n /\ b - 1 \notin Bad
    BY <2>1, <2>2
  <2>4. g[b - 1] \in Reading /\ lines[b] \in SUBSET Signs
    BY <2>3
  <2> QED  BY <2>1, <2>3, <2>4, <1>7, TakeType
<1>9. g = [m \in 0..n |-> g[m]]
  BY <1>5
<1>10. g \in [0..n -> Reading]
  BY <1>8, <1>9
<1>11. Follows(kind, lines, g, n)
  BY <1>7, <1>10 DEF Follows
<1> QED  BY <1>6, <1>11

\* They are the same for lists that begin with the same lines.
LEMMA FollowsOnce ==
  ASSUME NEW kind, NEW n \in Nat, NEW k \in Nat, NEW l \in Nat, n <= k, n <= l,
         NEW lines, NEW others, \A i \in 1..n : lines[i] = others[i],
         NEW f, Follows(kind, lines, f, k), NEW g, Follows(kind, others, g, l)
  PROVE  f[n] = g[n]
<1> DEFINE Bad == {m \in 0..n : f[m] # g[m]}
<1> SUFFICES ASSUME Bad # {} PROVE FALSE
  OBVIOUS
<1>1. PICK b \in Bad : \A m \in Bad : b <= m
  <2>1. Bad \in SUBSET Nat
    OBVIOUS
  <2> HIDE DEF Bad
  <2> QED  BY <2>1, LeastNumber
<1>2. b # 0
  BY <1>1 DEF Follows
<1>3. b \in 1..n /\ b - 1 \in 0..n /\ b - 1 \notin Bad
  BY <1>1, <1>2
<1>4. f[b - 1] = g[b - 1] /\ b \in 1..k /\ b \in 1..l
  BY <1>3
<1>5. f[b] = Take(kind, f[b - 1], lines[b]) /\ g[b] = Take(kind, g[b - 1], others[b])
  BY <1>4 DEF Follows
<1> QED  BY <1>1, <1>3, <1>4, <1>5

LEMMA HeardFacts ==
  ASSUME NEW kind \in Kinds, NEW lines, NEW n \in Nat, \A i \in 1..n : lines[i] \in SUBSET Signs
  PROVE  /\ HeardOf(kind, lines, n) \in Reading
         /\ n = 0 => HeardOf(kind, lines, n) = NewReading
         /\ n # 0 => HeardOf(kind, lines, n) = Take(kind, HeardOf(kind, lines, n - 1), lines[n])
<1>1. PICK f : Follows(kind, lines, f, n) /\ HeardOf(kind, lines, n) = f[n]
  BY HeardFollows
<1>2. HeardOf(kind, lines, n) \in Reading /\ (n = 0 => HeardOf(kind, lines, n) = NewReading)
  BY <1>1 DEF Follows
<1>3. ASSUME n # 0
      PROVE  HeardOf(kind, lines, n) = Take(kind, HeardOf(kind, lines, n - 1), lines[n])
  <2>1. n - 1 \in Nat /\ n - 1 <= n /\ n \in 1..n /\ \A i \in 1..(n - 1) : lines[i] \in SUBSET Signs
    BY <1>3
  <2>2. PICK g : Follows(kind, lines, g, n - 1) /\ HeardOf(kind, lines, n - 1) = g[n - 1]
    BY <2>1, HeardFollows
  <2>3. f[n - 1] = g[n - 1]
    <3> DEFINE p == n - 1
    <3>1. p \in Nat /\ p <= n /\ p <= p
      BY <2>1
    <3> HIDE DEF p
    <3>2. Follows(kind, lines, g, p)
      BY <2>2 DEF p
    <3>3. f[p] = g[p]
      BY <1>1, <3>1, <3>2, FollowsOnce
    <3> QED  BY <3>3 DEF p
  <2>4. f[n] = Take(kind, f[n - 1], lines[n])
    BY <1>1, <2>1 DEF Follows
  <2> QED  BY <1>1, <2>2, <2>3, <2>4
<1> QED  BY <1>2, <1>3

LEMMA HeardSame ==
  ASSUME NEW kind \in Kinds, NEW n \in Nat, NEW lines, \A i \in 1..n : lines[i] \in SUBSET Signs,
         NEW others, \A i \in 1..n : lines[i] = others[i]
  PROVE  HeardOf(kind, lines, n) = HeardOf(kind, others, n)
<1>1. PICK f : Follows(kind, lines, f, n) /\ HeardOf(kind, lines, n) = f[n]
  BY HeardFollows
<1>2. PICK g : Follows(kind, others, g, n) /\ HeardOf(kind, others, n) = g[n]
  BY HeardFollows
<1>3. f[n] = g[n]
  BY <1>1, <1>2, FollowsOnce
<1> QED  BY <1>1, <1>2, <1>3

\* Noise at the end is not heard.
LEMMA HeardQuiet ==
  ASSUME NEW kind \in Kinds, NEW lines, NEW k \in Nat, NEW n \in Nat, k <= n,
         \A i \in 1..k : lines[i] \in SUBSET Signs, \A i \in (k + 1)..n : lines[i] = Noise
  PROVE  HeardOf(kind, lines, n) = HeardOf(kind, lines, k)
<1> DEFINE Bad == {m \in k..n : HeardOf(kind, lines, m) # HeardOf(kind, lines, k)}
<1> SUFFICES ASSUME Bad # {} PROVE FALSE
  OBVIOUS
<1>1. PICK b \in Bad : \A m \in Bad : b <= m
  <2>1. Bad \in SUBSET Nat
    OBVIOUS
  <2> HIDE DEF Bad
  <2> QED  BY <2>1, LeastNumber
<1>2. b \in (k + 1)..n /\ b - 1 \in k..n /\ b - 1 \notin Bad /\ b - 1 \in Nat /\ b \in Nat /\ b # 0
  BY <1>1
<1>3. HeardOf(kind, lines, b - 1) = HeardOf(kind, lines, k) /\ lines[b] = Noise
  BY <1>2
<1>4. \A i \in 1..b : lines[i] \in SUBSET Signs
  <2> SUFFICES ASSUME NEW i \in 1..b PROVE lines[i] \in SUBSET Signs
    OBVIOUS
  <2>1. i \in 1..k \/ i \in (k + 1)..n
    BY <1>2
  <2> QED  BY <2>1 DEF Noise
<1>5. HeardOf(kind, lines, b) = Take(kind, HeardOf(kind, lines, b - 1), Noise)
  BY <1>2, <1>3, <1>4, HeardFacts
<1>6. HeardOf(kind, lines, k) \in Reading
  BY HeardFacts
<1>7. HeardOf(kind, lines, b) = HeardOf(kind, lines, k)
  BY <1>3, <1>5, <1>6, NoiseIsNothing
<1> QED  BY <1>1, <1>7

\* What Claude Code's parser and collector make of the signs so far, in whatever
\* order and lines they came: the timing of a limit, or the hour of a block.
ClaudeKnows(r, signs) ==
  /\ r.parser.seen = signs \cap {"limit", "block", "retry", "reset"}
  /\ r.collector.reset <=> "limit" \in signs /\ "reset" \in signs
  /\ r.collector.retry \in
       IF "limit" \in signs /\ "retry" \in signs THEN {"backoff"}
       ELSE (IF "block" \in signs THEN {"hour"} ELSE {"none"})
            \cup (IF "block" \in signs /\ "limit" \in signs THEN {"none"} ELSE {})

Added(d, c, cond, ev) ==
  /\ d \in CollectorType
  /\ d.retry = IF cond /\ ev.retry # "none" THEN ev.retry ELSE c.retry
  /\ d.reset <=> c.reset \/ (cond /\ ev.reset)
  /\ "authFailed" \in d.up <=> "authFailed" \in c.up \/ (cond /\ ev.type = "auth failed")

LEMMA AddFields ==
  ASSUME NEW c \in CollectorType, NEW ev \in Event, NEW cond \in BOOLEAN
  PROVE  Added(AddIf(c, cond, ev), c, cond, ev)
<1>1. c.reset \in BOOLEAN /\ ev.reset \in BOOLEAN /\ ev.type \in EventTypes
  BY DEF CollectorType, Event
<1>2. "authFailed" \in Raised(ev) <=> ev.type = "auth failed"
  BY <1>1 DEF Raised, EventTypes
<1>3. "authFailed" \in Add(c, ev).up <=> "authFailed" \in c.up \/ ev.type = "auth failed"
  BY <1>2 DEF Add
<1>4. /\ Add(c, ev).retry = IF ev.retry # "none" THEN ev.retry ELSE c.retry
      /\ Add(c, ev).reset = (c.reset \/ ev.reset)
  BY DEF Add
<1> QED  BY <1>1, <1>3, <1>4, AddIfType DEF AddIf, Added

LEMMA ClaudeLearns ==
  ASSUME NEW r \in Reading, NEW line \in SUBSET Signs, NEW signs \in SUBSET Signs,
         ClaudeKnows(r, signs)
  PROVE  ClaudeKnows(Take("claude-code", r, line), signs \cup line)
<1> DEFINE A == IsAuthFailure(line)
           P == Pauses(r.parser, line)
           O == "ok" \in line \/ "error" \in line
           seen == SeenWith(r.parser, line)
           pause == Pause(seen)
           c == r.collector
           c1 == AddIf(c, A, Plainly("auth failed"))
           c2 == AddIf(c1, P, pause)
           c3 == AddIf(c2, O, ResultOf(line))
           all == signs \cup line
<1>1. /\ Take("claude-code", r, line).collector = c3
      /\ Take("claude-code", r, line).parser.seen = seen
  BY TakeFields DEF ClaudeCollects
<1>2. /\ A \in BOOLEAN /\ P \in BOOLEAN /\ O \in BOOLEAN /\ c \in CollectorType
      /\ Plainly("auth failed") \in Event /\ pause \in Event /\ ResultOf(line) \in Event
  BY PlainlyType, PauseType, ResultType DEF IsAuthFailure, Pauses, Reading, EventTypes
<1>3. /\ Plainly("auth failed").retry = "none" /\ ~Plainly("auth failed").reset
      /\ ResultOf(line).retry = "none" /\ ~ResultOf(line).reset
  BY DEF Plainly, ResultOf
<1>4. c1 \in CollectorType /\ c1.retry = c.retry /\ (c1.reset <=> c.reset)
  <2> DEFINE ev == Plainly("auth failed")
  <2>1. ev \in Event /\ ev.retry = "none" /\ ~ev.reset /\ c1 = AddIf(c, A, ev)
    BY <1>2, <1>3
  <2> HIDE DEF A, P, O, pause, c, c1, ev
  <2>2. Added(AddIf(c, A, ev), c, A, ev)
    <3>1. c \in CollectorType
      BY <1>2
    <3>2. ev \in Event
      BY <2>1
    <3>3. A \in BOOLEAN
      BY <1>2
    <3> QED  BY <3>1, <3>2, <3>3, AddFields
  <2> QED  BY <2>1, <2>2 DEF Added
<1>5. /\ c2 \in CollectorType
      /\ c2.retry = IF P /\ pause.retry # "none" THEN pause.retry ELSE c.retry
      /\ c2.reset <=> c.reset \/ (P /\ pause.reset)
  <2>1. c2 = AddIf(c1, P, pause)
    OBVIOUS
  <2> HIDE DEF A, P, O, pause, c, c1, c2
  <2>2. Added(AddIf(c1, P, pause), c1, P, pause)
    <3>1. c1 \in CollectorType
      BY <1>2, <1>4
    <3>2. pause \in Event
      BY <1>2
    <3>3. P \in BOOLEAN
      BY <1>2
    <3> QED  BY <3>1, <3>2, <3>3, AddFields
  <2> QED  BY <2>1, <2>2, <1>4 DEF Added
<1>6. c3.retry = c2.retry /\ (c3.reset <=> c2.reset)
  <2> DEFINE ev == ResultOf(line)
  <2>1. ev \in Event /\ ev.retry = "none" /\ ~ev.reset /\ c3 = AddIf(c2, O, ev)
    BY <1>2, <1>3
  <2> HIDE DEF A, P, O, pause, c, c1, c2, c3, ev
  <2>2. Added(AddIf(c2, O, ev), c2, O, ev)
    <3>1. c2 \in CollectorType
      BY <1>2, <1>5
    <3>2. ev \in Event
      BY <2>1
    <3>3. O \in BOOLEAN
      BY <1>2
    <3> QED  BY <3>1, <3>2, <3>3, AddFields
  <2> QED  BY <2>1, <2>2 DEF Added
<1>7. seen = all \cap {"limit", "block", "retry", "reset"}
  BY DEF ClaudeKnows, SeenWith
<1>8. P <=> \/ "limit" \in line \/ "block" \in line
            \/ /\ "limit" \in signs \/ "block" \in signs
               /\ \/ "retry" \in line /\ "retry" \notin signs
                  \/ "reset" \in line /\ "reset" \notin signs
  BY DEF ClaudeKnows, Pauses
<1>9. /\ pause.retry = IF "block" \in all /\ "limit" \notin all THEN "hour"
                       ELSE IF "retry" \in all THEN "backoff" ELSE "none"
      /\ pause.reset <=> ~("block" \in all /\ "limit" \notin all) /\ "reset" \in all
  BY <1>7 DEF Pause
<1>10. /\ c.reset <=> "limit" \in signs /\ "reset" \in signs
       /\ c.retry \in
            IF "limit" \in signs /\ "retry" \in signs THEN {"backoff"}
            ELSE (IF "block" \in signs THEN {"hour"} ELSE {"none"})
                 \cup (IF "block" \in signs /\ "limit" \in signs THEN {"none"} ELSE {})
  BY DEF ClaudeKnows
<1>11. \A s : s \in all <=> s \in signs \/ s \in line
  OBVIOUS
<1> HIDE DEF A, P, O, seen, pause, c, c1, c2, c3, all
<1>12. c3.reset <=> "limit" \in all /\ "reset" \in all
  BY <1>5, <1>6, <1>8, <1>9, <1>10, <1>11
<1>13. c3.retry \in
         IF "limit" \in all /\ "retry" \in all THEN {"backoff"}
         ELSE (IF "block" \in all THEN {"hour"} ELSE {"none"})
              \cup (IF "block" \in all /\ "limit" \in all THEN {"none"} ELSE {})
  BY <1>5, <1>6, <1>8, <1>9, <1>10, <1>11
<1>14. ClaudeKnows(Take("claude-code", r, line), all)
  BY <1>1, <1>7, <1>12, <1>13 DEF ClaudeKnows
<1> QED  BY <1>14 DEF all

\* A run whose login failed was told so by a line that is no block.
AuthSaid(lines, n) == \E i \in 1..n : "auth" \in lines[i] /\ "block" \notin lines[i]

Truthful(kind, r, lines, n) ==
  /\ kind = "claude-code" => ClaudeKnows(r, UNION {lines[i] : i \in 1..n})
  /\ "authFailed" \in r.collector.up \/ "auth" \in r.parser.problem => AuthSaid(lines, n)

LEMMA AuthIsSaid ==
  ASSUME NEW kind \in Kinds, NEW r \in Reading, NEW line \in SUBSET Signs,
         kind # "claude-code" => "block" \notin line,
         LET next == Take(kind, r, line)
         IN "authFailed" \in next.collector.up \/ "auth" \in next.parser.problem
  PROVE  \/ "authFailed" \in r.collector.up \/ "auth" \in r.parser.problem
         \/ "auth" \in line /\ "block" \notin line
<1>1. r.parser \in ParserType /\ r.collector \in CollectorType
  BY DEF Reading
<1>2. CASE kind = "claude-code"
  <2> DEFINE c1 == AddIf(r.collector, IsAuthFailure(line), Plainly("auth failed"))
             c2 == AddIf(c1, Pauses(r.parser, line), Pause(SeenWith(r.parser, line)))
             c3 == AddIf(c2, "ok" \in line \/ "error" \in line, ResultOf(line))
  <2>1. Take(kind, r, line).collector = c3
    <3>1. Take(kind, r, line).collector = ClaudeCollects(r, line)
      BY <1>2, TakeFields, ZenonT(60)
    <3> QED  BY <3>1 DEF ClaudeCollects
  <2>2. Take(kind, r, line).parser.problem = r.parser.problem
    BY <1>2, TakeFields
  <2>3. /\ IsAuthFailure(line) \in BOOLEAN /\ Pauses(r.parser, line) \in BOOLEAN
        /\ ("ok" \in line \/ "error" \in line) \in BOOLEAN
        /\ Plainly("auth failed") \in Event /\ ResultOf(line) \in Event
        /\ Pause(SeenWith(r.parser, line)) \in Event
    BY PlainlyType, PauseType, ResultType DEF IsAuthFailure, Pauses, EventTypes
  <2>4. /\ Pause(SeenWith(r.parser, line)).type # "auth failed"
        /\ ResultOf(line).type # "auth failed"
    BY DEF Pause, ResultOf, Plainly
  <2>5. c1 \in CollectorType
        /\ ("authFailed" \in c1.up => "authFailed" \in r.collector.up \/ IsAuthFailure(line))
    <3>1. Added(c1, r.collector, IsAuthFailure(line), Plainly("auth failed"))
      BY <1>1, <2>3, AddFields
    <3> QED  BY <3>1 DEF Added
  <2>6. c2 \in CollectorType /\ ("authFailed" \in c2.up => "authFailed" \in c1.up)
    <3> HIDE DEF c1
    <3>1. Added(c2, c1, Pauses(r.parser, line), Pause(SeenWith(r.parser, line)))
      BY <2>3, <2>5, AddFields
    <3> QED  BY <3>1, <2>4 DEF Added
  <2>7. "authFailed" \in c3.up => "authFailed" \in c2.up
    <3> HIDE DEF c1, c2
    <3>1. Added(c3, c2, "ok" \in line \/ "error" \in line, ResultOf(line))
      BY <2>3, <2>6, AddFields
    <3> QED  BY <3>1, <2>4 DEF Added
  <2> HIDE DEF c1, c2, c3
  <2> QED  BY <2>1, <2>2, <2>5, <2>6, <2>7 DEF IsAuthFailure
<1>3. CASE kind = "codex"
  <2> DEFINE problem == Noted(r.parser, line)
             ev == IF "ok" \in line THEN Plainly("completed") ELSE TerminalFailure(problem)
  <2>1. Take(kind, r, line).collector = AddIf(r.collector, "end" \in line, ev)
    BY <1>3, TakeFields
  <2>2. Take(kind, r, line).parser.problem = problem
    BY <1>3, TakeFields
  <2>3. ev \in Event /\ ("end" \in line) \in BOOLEAN
    <3>1. Plainly("completed") \in Event /\ TerminalFailure(problem) \in Event
      BY PlainlyType, TerminalType DEF EventTypes
    <3> QED  BY <3>1
  <2>4. "auth" \in problem => "auth" \in line \/ "auth" \in r.parser.problem
    BY DEF Noted
  <2>5. ev.type = "auth failed" => "auth" \in problem
    BY DEF TerminalFailure, Plainly
  <2> HIDE DEF problem, ev
  <2>6. "authFailed" \in AddIf(r.collector, "end" \in line, ev).up
          => "authFailed" \in r.collector.up \/ ev.type = "auth failed"
    <3>1. Added(AddIf(r.collector, "end" \in line, ev), r.collector, "end" \in line, ev)
      BY <1>1, <2>3, AddFields
    <3> QED  BY <3>1 DEF Added
  <2> QED  BY <1>3, <2>1, <2>2, <2>4, <2>5, <2>6
<1>4. CASE kind = "opencode"
  <2> DEFINE ev == IF "ok" \in line THEN Plainly("completed") ELSE Plainly("failed")
  <2>1. /\ Take(kind, r, line).collector
             = AddIf(r.collector, "ok" \in line \/ "error" \in line, ev)
        /\ Take(kind, r, line).parser = r.parser
    BY <1>4, TakeFields
  <2>2. ev \in Event /\ ("ok" \in line \/ "error" \in line) \in BOOLEAN
        /\ ev.type # "auth failed"
    BY PlainlyType DEF EventTypes, Plainly
  <2> HIDE DEF ev
  <2>3. "authFailed" \in AddIf(r.collector, "ok" \in line \/ "error" \in line, ev).up
          => "authFailed" \in r.collector.up
    <3>1. Added(AddIf(r.collector, "ok" \in line \/ "error" \in line, ev), r.collector,
                "ok" \in line \/ "error" \in line, ev)
      BY <1>1, <2>2, AddFields
    <3> QED  BY <3>1, <2>2 DEF Added
  <2> QED  BY <2>1, <2>3
<1> QED  BY <1>2, <1>3, <1>4 DEF Kinds

LEMMA HeardIsTrue ==
  ASSUME NEW kind \in Kinds, NEW lines, NEW n \in Nat, \A i \in 1..n : lines[i] \in SUBSET Signs,
         kind # "claude-code" => \A i \in 1..n : "block" \notin lines[i]
  PROVE  Truthful(kind, HeardOf(kind, lines, n), lines, n)
<1> DEFINE H(m) == HeardOf(kind, lines, m)
           U(m) == UNION {lines[i] : i \in 1..m}
           Bad == {m \in 0..n : ~Truthful(kind, H(m), lines, m)}
<1> SUFFICES ASSUME Bad # {} PROVE FALSE
  OBVIOUS
<1>1. PICK b \in Bad : \A m \in Bad : b <= m
  <2>1. Bad \in SUBSET Nat
    OBVIOUS
  <2> HIDE DEF Bad
  <2> QED  BY <2>1, LeastNumber
<1>2. Truthful(kind, H(0), lines, 0)
  <2>1. H(0) = NewReading
    BY HeardFacts
  <2>2. U(0) = {}
    OBVIOUS
  <2>3. ClaudeKnows(NewReading, {})
    BY DEF ClaudeKnows, NewReading, NewParser, NewCollector
  <2>4. "authFailed" \notin NewReading.collector.up /\ "auth" \notin NewReading.parser.problem
    BY DEF NewReading, NewParser, NewCollector
  <2> HIDE DEF H
  <2> QED  BY <2>1, <2>2, <2>3, <2>4 DEF Truthful
<1>3. b \in 1..n /\ b - 1 \in 0..n /\ b - 1 \notin Bad /\ b \in Nat /\ b # 0
  <2> HIDE DEF H, U
  <2>1. b # 0
    BY <1>1, <1>2
  <2> QED  BY <1>1, <2>1
<1>4. Truthful(kind, H(b - 1), lines, b - 1)
  BY <1>3
<1>5. /\ \A i \in 1..b : lines[i] \in SUBSET Signs
      /\ \A i \in 1..(b - 1) : lines[i] \in SUBSET Signs
      /\ kind # "claude-code" => "block" \notin lines[b]
      /\ 1..b = 1..(b - 1) \cup {b}
  BY <1>3
<1>6. H(b - 1) \in Reading /\ H(b) = Take(kind, H(b - 1), lines[b])
  BY <1>3, <1>5, HeardFacts
<1>7. U(b) = U(b - 1) \cup lines[b] /\ U(b - 1) \in SUBSET Signs
  BY <1>5
<1> HIDE DEF H, U
<1>8. kind = "claude-code" => ClaudeKnows(H(b), U(b))
  <2> SUFFICES ASSUME kind = "claude-code" PROVE ClaudeKnows(H(b), U(b))
    OBVIOUS
  <2>1. ClaudeKnows(H(b - 1), U(b - 1))
    BY <1>4 DEF Truthful, U
  <2> QED  BY <2>1, <1>3, <1>5, <1>6, <1>7, ClaudeLearns
<1>9. ASSUME "authFailed" \in H(b).collector.up \/ "auth" \in H(b).parser.problem
      PROVE  AuthSaid(lines, b)
  <2>1. \/ "authFailed" \in H(b - 1).collector.up \/ "auth" \in H(b - 1).parser.problem
        \/ "auth" \in lines[b] /\ "block" \notin lines[b]
    BY <1>3, <1>5, <1>6, <1>9, AuthIsSaid
  <2>2. AuthSaid(lines, b - 1) => AuthSaid(lines, b)
    BY <1>5 DEF AuthSaid
  <2>3. b \in 1..b
    BY <1>3
  <2> QED  BY <1>4, <2>1, <2>2, <2>3 DEF Truthful, AuthSaid
<1>10. Truthful(kind, H(b), lines, b)
  BY <1>8, <1>9 DEF Truthful, U
<1> QED  BY <1>1, <1>10

-----------------------------------------------------------------------------
(* The run.                                                                *)

Line == (SUBSET Signs) \cup {TooLong}

TypeInv ==
  /\ job \in Jobs
  /\ harness \in {"none", "running", "exited"} /\ exit \in {-1, 0, 1}
  /\ said \in Seq(Line) /\ pipe \in Seq(Line) /\ copying \in BOOLEAN
  /\ \A i \in 1..Len(said) : said[i] \in Lines[job] \cup {TooLong}
  /\ reader \in {"scanning", "draining", "done"} /\ found \in Reading /\ scanErr \in BOOLEAN
  /\ job = "script" => reader = "done"
  /\ canceler \in {"armed", "killed", "late", "gone"} /\ watchdog \in {"off", "on", "fired"}
  /\ main \in {"start", "process", "copy", "waited", "returned"}

\* The process is waited for, then its output; what Wait returns says how the
\* process ended; and the reader goes last.
PhasesInv ==
  /\ main = "start" => harness = "none" /\ waitErr = "none"
  /\ main = "process" => harness # "none" /\ waitErr = "none"
  /\ main \in {"copy", "waited"} => harness = "exited"
  /\ main = "returned" => harness # "running"
  /\ main \in {"waited", "returned"} /\ harness = "exited" => ~copying
  /\ main \in {"copy", "waited", "returned"} /\ harness = "exited" =>
       /\ waitErr \in {"none", "exit", "context", "delay"}
       /\ waitErr = "exit" <=> exit # 0
       /\ waitErr = "context" <=> exit = 0 /\ canceler = "killed"
  /\ harness = "none" => said = <<>>
  /\ reader = "done" /\ Agent => main \in {"waited", "returned"}

LineFacts == job \in Jobs => /\ Lines[job] \subseteq SUBSET Signs
                             /\ TooLong \notin SUBSET Signs
                             /\ Agent => job \in Kinds
                             /\ job # "claude-code" => \A line \in Lines[job] : "block" \notin line

LEMMA LinesAre == LineFacts
BY LinesAssumption DEF LineFacts, Agent

LEMMA TypeStep ==
  ASSUME TypeInv, [Next]_vars
  PROVE  TypeInv'
<1> USE DEF TypeInv, process, scan, control, caller, vars
<1>1. ASSUME NEW line \in Lines[job] \cup {TooLong}, HarnessWrites(line)  PROVE TypeInv'
  <2>1. line \in Line
    BY LinesAre DEF Line, LineFacts
  <2>2. said' \in Seq(Line) /\ pipe' \in Seq(Line)
    BY <1>1, <2>1 DEF HarnessWrites, Written
  <2>3. \A i \in 1..Len(said') : said'[i] \in Lines[job] \cup {TooLong}
    BY <1>1 DEF HarnessWrites
  <2> QED  BY <1>1, <2>2, <2>3 DEF HarnessWrites
<1>2. ASSUME NEW code \in {0, 1}, HarnessExits(code)  PROVE TypeInv'
  BY <1>2 DEF HarnessExits
<1>3. CASE HolderWrites
  <2>1. pipe' \in Seq(Line)
    BY <1>3 DEF HolderWrites, Written, Line, Noise
  <2> QED  BY <1>3, <2>1 DEF HolderWrites
<1>4. CASE HolderEnds \/ OperatorStops \/ TimePasses \/ WatchdogFires
  BY <1>4 DEF HolderEnds, OperatorStops, TimePasses, WatchdogFires
<1>11. CASE Kill
  <2>1. /\ harness' = "exited" /\ exit' \in {-1, 0, 1} /\ canceler' \in {"killed", "late"}
        /\ UNCHANGED <<job, said, pipe, copying, reader, found, scanErr, watchdog, main>>
    BY <1>11 DEF Kill
  <2> QED  BY <2>1
<1>5. CASE ReadLine
  <2>1. pipe # <<>> /\ Head(pipe) \in Line /\ Tail(pipe) \in Seq(Line)
    BY <1>5 DEF ReadLine
  <2>2. Head(pipe) \in SUBSET Signs
    BY <1>5, <2>1 DEF ReadLine, Line
  <2>3. found' \in Reading
    BY <1>5, <2>2, LinesAre, TakeType DEF ReadLine, LineFacts, Agent
  <2> QED  BY <1>5, <2>1, <2>3 DEF ReadLine
<1>6. CASE ScanFails \/ ReaderEnds \/ CopyEnds
  BY <1>6 DEF ScanFails, ReaderEnds, CopyEnds
<1>7. CASE Drain
  <2>1. Tail(pipe) \in Seq(Line)
    BY <1>7 DEF Drain
  <2> QED  BY <1>7, <2>1 DEF Drain
<1>8. CASE Start \/ StartFails \/ Reap \/ WaitEnds \/ Return \/ Returned
  BY <1>8 DEF Start, StartFails, Reap, WaitEnds, Return, Returned
<1>9. CASE WaitGivesUp
  <2>1. <<>> \in Seq(Line)
    OBVIOUS
  <2> QED  BY <1>9, <2>1 DEF WaitGivesUp
<1>10. CASE UNCHANGED vars
  BY <1>10
<1> QED  BY <1>1, <1>2, <1>3, <1>4, <1>5, <1>6, <1>7, <1>8, <1>9, <1>10, <1>11
         DEF Next, Processes, Reader, Caller

LEMMA PhasesStep ==
  ASSUME TypeInv, PhasesInv, [Next]_vars
  PROVE  PhasesInv'
<1> USE DEF PhasesInv, TypeInv, Agent, process, scan, control, caller, vars
<1>1. ASSUME NEW line \in Lines[job] \cup {TooLong}, HarnessWrites(line)  PROVE PhasesInv'
  BY <1>1 DEF HarnessWrites
<1>2. ASSUME NEW code \in {0, 1}, HarnessExits(code)  PROVE PhasesInv'
  BY <1>2 DEF HarnessExits
<1>3. CASE HolderWrites \/ HolderEnds
  BY <1>3 DEF HolderWrites, HolderEnds
<1>4. CASE OperatorStops \/ TimePasses \/ WatchdogFires
  BY <1>4 DEF OperatorStops, TimePasses, WatchdogFires
<1>5. CASE Kill
  BY <1>5 DEF Kill
<1>6. CASE ReadLine
  BY <1>6 DEF ReadLine
<1>7. CASE ScanFails \/ Drain
  BY <1>7 DEF ScanFails, Drain
<1>8. CASE ReaderEnds
  BY <1>8 DEF ReaderEnds
<1>9. CASE CopyEnds
  BY <1>9 DEF CopyEnds
<1>10. CASE Start
  BY <1>10 DEF Start
<1>11. CASE StartFails
  BY <1>11 DEF StartFails
<1>12. CASE Reap
  BY <1>12 DEF Reap
<1>13. CASE WaitEnds
  BY <1>13 DEF WaitEnds
<1>14. CASE WaitGivesUp
  BY <1>14 DEF WaitGivesUp
<1>15. CASE Return
  BY <1>15 DEF Return
<1>16. CASE Returned \/ UNCHANGED vars
  BY <1>16 DEF Returned
<1> QED  BY <1>1, <1>2, <1>3, <1>4, <1>5, <1>6, <1>7, <1>8, <1>9, <1>10, <1>11, <1>12,
            <1>13, <1>14, <1>15, <1>16
         DEF Next, Processes, Reader, Caller

-----------------------------------------------------------------------------
\* What the pipe holds are the lines the reader has not come to, in their order,
\* with noise between them.
WovenIn(k, s, q) ==
  \E at \in [(k + 1)..Len(s) -> 1..Len(q)] :
    /\ \A j \in (k + 1)..Len(s) : q[at[j]] = s[j]
    /\ \A i, j \in (k + 1)..Len(s) : i < j => at[i] < at[j]
    /\ \A i \in 1..Len(q) : q[i] = Noise \/ \E j \in (k + 1)..Len(s) : at[j] = i
Woven(k) == WovenIn(k, said, pipe)

LEMMA NothingWoven ==
  ASSUME NEW s, NEW q, Len(q) = 0, NEW k \in Nat, Len(s) = k
  PROVE  WovenIn(k, s, q)
<1>1. (k + 1)..Len(s) = {} /\ 1..Len(q) = {}
  OBVIOUS
<1>2. [j \in {} |-> 1] \in [(k + 1)..Len(s) -> 1..Len(q)]
  BY <1>1
<1> QED  BY <1>1, <1>2 DEF WovenIn

\* The reader has heard the first k lines, and none before the last was a limit
\* to end on.  It stops at such a limit, at a line too long, or at the end.
HeardUpTo(k) ==
  /\ \A i \in 1..k : said[i] # TooLong
  /\ found = HeardOf(job, said, k)
  /\ \A m \in 0..(k - 1) : ~CompletedRateLimit(HeardOf(job, said, m).collector)

StopsWhere(k) ==
  /\ reader = "scanning" => ~CompletedRateLimit(found.collector) /\ ~scanErr /\ Woven(k)
  /\ reader # "scanning" =>
       scanErr \/ CompletedRateLimit(found.collector) \/ (reader = "done" /\ k = Len(said))
  /\ scanErr => /\ ~CompletedRateLimit(found.collector)
                /\ k < Len(said) /\ said[k + 1] = TooLong

ProgressInv == Agent => \E k \in 0..Len(said) : HeardUpTo(k) /\ StopsWhere(k)

\* What a run ends with is what it found, once nothing is left to be found.
ResultInv ==
  main = "returned" =>
    IF harness = "none" THEN result = Error
    ELSE /\ reader = "done"
         /\ result = IF job = "script" THEN ScriptResult ELSE AgentResult

LEMMA ReadableLines ==
  ASSUME TypeInv, NEW k \in 0..Len(said), \A i \in 1..k : said[i] # TooLong
  PROVE  \A i \in 1..k : said[i] \in SUBSET Signs
<1>1. \A i \in 1..k : i \in 1..Len(said)
  BY DEF TypeInv
<1> QED  BY <1>1 DEF TypeInv, Line

LEMMA ProgressInit == Init => ProgressInv
<1> SUFFICES ASSUME Init, Agent PROVE HeardUpTo(0) /\ StopsWhere(0) /\ Len(said) = 0
  BY DEF ProgressInv
<1>1. job \in Kinds /\ said = <<>> /\ pipe = <<>> /\ found = NewReading
  BY LinesAre DEF Init, LineFacts
<1>2. HeardUpTo(0)
  <2>1. HeardOf(job, said, 0) = NewReading
    BY <1>1, HeardFacts
  <2> QED  BY <1>1, <2>1 DEF HeardUpTo
<1>3. Woven(0)
  BY <1>1, NothingWoven DEF Woven
<1>4. ~CompletedRateLimit(NewReading.collector)
  BY DEF CompletedRateLimit, NewReading, NewCollector
<1> QED  BY <1>1, <1>2, <1>3, <1>4 DEF StopsWhere, Init, Agent

\* The harness says one more thing: the reader has not come to it.
LEMMA WritingKeepsProgress ==
  ASSUME TypeInv, PhasesInv, ProgressInv, Agent,
         NEW line \in Lines[job] \cup {TooLong}, HarnessWrites(line)
  PROVE  ProgressInv'
<1>1. PICK k \in 0..Len(said) : HeardUpTo(k) /\ StopsWhere(k)
  BY DEF ProgressInv
<1>2. /\ said' = Append(said, line) /\ pipe' = Append(pipe, line) /\ harness = "running"
      /\ job' = job /\ UNCHANGED <<reader, found, scanErr>>
  BY DEF HarnessWrites, Written, scan, Agent
<1>3. /\ said \in Seq(Line) /\ pipe \in Seq(Line) /\ line \in Line /\ job \in Kinds
  BY LinesAre DEF TypeInv, Line, LineFacts
<1> DEFINE n == Len(said)
<1>4. /\ n \in Nat /\ k \in 0..n /\ Len(said') = n + 1 /\ said'[n + 1] = line
      /\ \A i \in 1..n : said'[i] = said[i]
  BY <1>2, <1>3
<1>5. HeardUpTo(k)'
  <2>1. ASSUME NEW m \in 0..k PROVE HeardOf(job, said', m) = HeardOf(job, said, m)
    <3>1. m \in Nat /\ m \in 0..Len(said) /\ \A i \in 1..m : i \in 1..k /\ i \in 1..n
      BY <1>4
    <3>2. \A i \in 1..m : said[i] \in SUBSET Signs
      BY <3>1, <1>1, ReadableLines DEF HeardUpTo
    <3>3. \A i \in 1..m : said[i] = said'[i]
      BY <3>1, <1>4
    <3> QED  BY <1>3, <3>1, <3>2, <3>3, HeardSame
  <2>2. \A i \in 1..k : said'[i] # TooLong
    BY <1>1, <1>4 DEF HeardUpTo
  <2>3. \A m \in 0..(k - 1) : m \in 0..k
    BY <1>4
  <2> QED  BY <1>1, <1>2, <1>4, <2>1, <2>2, <2>3 DEF HeardUpTo
<1>6. ASSUME reader = "scanning" PROVE Woven(k)'
  <2>1. PICK at \in [(k + 1)..n -> 1..Len(pipe)] :
          /\ \A j \in (k + 1)..n : pipe[at[j]] = said[j]
          /\ \A i, j \in (k + 1)..n : i < j => at[i] < at[j]
          /\ \A i \in 1..Len(pipe) : pipe[i] = Noise \/ \E j \in (k + 1)..n : at[j] = i
    BY <1>1, <1>6 DEF StopsWhere, Woven, WovenIn
  <2> DEFINE l == Len(pipe)
             to == [j \in (k + 1)..(n + 1) |-> IF j <= n THEN at[j] ELSE l + 1]
  <2>2. /\ l \in Nat /\ Len(pipe') = l + 1 /\ pipe'[l + 1] = line
        /\ \A i \in 1..l : pipe'[i] = pipe[i]
    BY <1>2, <1>3
  <2>3. \A j \in (k + 1)..(n + 1) : j \in (k + 1)..n \/ j = n + 1
    BY <1>4
  <2>4. \A j \in (k + 1)..n : j <= n /\ j \in (k + 1)..(n + 1) /\ to[j] = at[j] /\ at[j] \in 1..l
    BY <1>4, <2>1
  <2>5. n + 1 \in (k + 1)..(n + 1) /\ to[n + 1] = l + 1
    BY <1>4
  <2>6. to \in [(k + 1)..(n + 1) -> 1..(l + 1)]
    BY <2>2, <2>3, <2>4, <2>5
  <2> HIDE DEF l, to, n
  <2>7. \A j \in (k + 1)..(n + 1) : pipe'[to[j]] = said'[j]
    <3> SUFFICES ASSUME NEW j \in (k + 1)..(n + 1) PROVE pipe'[to[j]] = said'[j]
      OBVIOUS
    <3>1. CASE j \in (k + 1)..n
      <4>1. j \in 1..n
        BY <3>1, <1>4
      <4> QED  BY <3>1, <4>1, <1>4, <2>1, <2>2, <2>4
    <3> QED  BY <3>1, <2>2, <2>3, <2>5, <1>4
  <2>8. \A i, j \in (k + 1)..(n + 1) : i < j => to[i] < to[j]
    <3> SUFFICES ASSUME NEW i \in (k + 1)..(n + 1), NEW j \in (k + 1)..(n + 1), i < j
                 PROVE  to[i] < to[j]
      OBVIOUS
    <3>1. i \in (k + 1)..n
      BY <2>3, <1>4
    <3>2. CASE j \in (k + 1)..n
      BY <3>1, <3>2, <2>1, <2>4
    <3>3. CASE j = n + 1
      BY <3>1, <3>3, <2>2, <2>4, <2>5
    <3> QED  BY <3>2, <3>3, <2>3
  <2>9. \A i \in 1..(l + 1) : pipe'[i] = Noise \/ \E j \in (k + 1)..(n + 1) : to[j] = i
    <3> SUFFICES ASSUME NEW i \in 1..(l + 1)
                 PROVE  pipe'[i] = Noise \/ \E j \in (k + 1)..(n + 1) : to[j] = i
      OBVIOUS
    <3>1. i \in 1..l \/ i = l + 1
      BY <2>2
    <3>2. CASE i \in 1..l
      <4>1. pipe[i] = Noise \/ \E j \in (k + 1)..n : at[j] = i
        BY <3>2, <2>1 DEF l
      <4> QED  BY <3>2, <4>1, <2>2, <2>4
    <3> QED  BY <3>1, <3>2, <2>5
  <2>10. Len(said') = n + 1 /\ Len(pipe') = l + 1
    BY <1>4, <2>2
  <2>11. WovenIn(k, said', pipe')
    <3>1. to \in [(k + 1)..Len(said') -> 1..Len(pipe')]
      BY <2>6, <2>10
    <3>2. \A j \in (k + 1)..Len(said') : pipe'[to[j]] = said'[j]
      BY <2>7, <2>10
    <3>3. \A i, j \in (k + 1)..Len(said') : i < j => to[i] < to[j]
      BY <2>8, <2>10
    <3>4. \A i \in 1..Len(pipe') :
             pipe'[i] = Noise \/ \E j \in (k + 1)..Len(said') : to[j] = i
      BY <2>9, <2>10
    <3> QED  BY <3>1, <3>2, <3>3, <3>4, Zenon DEF WovenIn
  <2> QED  BY <2>11 DEF Woven
<1>7. StopsWhere(k)'
  <2>1. reader # "done"
    BY <1>2 DEF PhasesInv
  <2>2. scanErr => k < n + 1 /\ k + 1 \in 1..n
    BY <1>1, <1>4 DEF StopsWhere
  <2> QED  BY <1>1, <1>2, <1>4, <1>6, <2>1, <2>2 DEF StopsWhere
<1>8. k \in 0..Len(said')
  BY <1>4
<1> QED  BY <1>5, <1>7, <1>8 DEF ProgressInv

\* Noise in the pipe is between the lines.
LEMMA NoiseKeepsProgress ==
  ASSUME TypeInv, ProgressInv, Agent, HolderWrites
  PROVE  ProgressInv'
<1>1. PICK k \in 0..Len(said) : HeardUpTo(k) /\ StopsWhere(k)
  BY DEF ProgressInv
<1>2. pipe' = Append(pipe, Noise) /\ UNCHANGED <<job, said, reader, found, scanErr>>
  BY DEF HolderWrites, Written, scan, Agent
<1>3. pipe \in Seq(Line) /\ Noise \in Line
  BY DEF TypeInv, Line, Noise
<1> DEFINE l == Len(pipe)
<1>4. /\ l \in Nat /\ Len(pipe') = l + 1 /\ pipe'[l + 1] = Noise
      /\ \A i \in 1..l : pipe'[i] = pipe[i]
  BY <1>2, <1>3
<1>5. ASSUME reader = "scanning" PROVE Woven(k)'
  <2>1. PICK at \in [(k + 1)..Len(said) -> 1..l] :
          /\ \A j \in (k + 1)..Len(said) : pipe[at[j]] = said[j]
          /\ \A i, j \in (k + 1)..Len(said) : i < j => at[i] < at[j]
          /\ \A i \in 1..l : pipe[i] = Noise \/ \E j \in (k + 1)..Len(said) : at[j] = i
    BY <1>1, <1>5 DEF StopsWhere, Woven, WovenIn
  <2> HIDE DEF l
  <2>2. at \in [(k + 1)..Len(said) -> 1..(l + 1)]
    BY <1>4
  <2>3. \A j \in (k + 1)..Len(said) : pipe'[at[j]] = said[j]
    BY <1>4, <2>1
  <2>4. \A i \in 1..(l + 1) : i \in 1..l \/ i = l + 1
    BY <1>4
  <2>5. \A i \in 1..(l + 1) : pipe'[i] = Noise \/ \E j \in (k + 1)..Len(said) : at[j] = i
    BY <1>4, <2>1, <2>4
  <2>6. WovenIn(k, said, pipe')
    BY <1>4, <2>1, <2>2, <2>3, <2>5 DEF WovenIn
  <2> QED  BY <1>2, <2>6 DEF Woven
<1>6. HeardUpTo(k)' /\ StopsWhere(k)'
  BY <1>1, <1>2, <1>5 DEF HeardUpTo, StopsWhere
<1> QED  BY <1>2, <1>6 DEF ProgressInv

\* The reader takes what is first in the pipe: the next line, or noise.
LEMMA ReadingKeepsProgress ==
  ASSUME TypeInv, ProgressInv, Agent, ReadLine
  PROVE  ProgressInv'
<1>1. PICK k \in 0..Len(said) : HeardUpTo(k) /\ StopsWhere(k)
  BY DEF ProgressInv
<1>2. /\ reader = "scanning" /\ pipe # <<>> /\ Head(pipe) # TooLong /\ pipe' = Tail(pipe)
      /\ found' = Take(job, found, Head(pipe))
      /\ IF CompletedRateLimit(found'.collector) THEN reader' = "draining" ELSE reader' = reader
      /\ UNCHANGED <<job, said, scanErr>>
  BY DEF ReadLine, process
<1> DEFINE n == Len(said)
           l == Len(pipe)
<1>3. /\ job \in Kinds /\ n \in Nat /\ k \in 0..n
      /\ pipe \in Seq(Line) /\ l \in Nat /\ l # 0 /\ Len(pipe') = l - 1 /\ Head(pipe) = pipe[1]
      /\ \A i \in 1..(l - 1) : pipe'[i] = pipe[i + 1]
  BY <1>2, LinesAre DEF TypeInv, LineFacts
<1>4. PICK at \in [(k + 1)..n -> 1..l] :
          /\ \A j \in (k + 1)..n : pipe[at[j]] = said[j]
          /\ \A i, j \in (k + 1)..n : i < j => at[i] < at[j]
          /\ \A i \in 1..l : pipe[i] = Noise \/ \E j \in (k + 1)..n : at[j] = i
  BY <1>1, <1>2 DEF StopsWhere, Woven, WovenIn
<1>5. ~scanErr /\ ~CompletedRateLimit(found.collector)
  BY <1>1, <1>2 DEF StopsWhere
<1> DEFINE Shift(m) == [j \in (m + 1)..n |-> at[j] - 1]
<1>6. ASSUME NEW m \in k..n, \A j \in (k + 1)..n : at[j] = 1 <=> j <= m
      PROVE  Woven(m)'
  <2> DEFINE to == Shift(m)
  <2>1. \A j \in (m + 1)..n : j \in (k + 1)..n /\ at[j] \in 2..l /\ to[j] = at[j] - 1
    <3> SUFFICES ASSUME NEW j \in (m + 1)..n
                 PROVE  j \in (k + 1)..n /\ at[j] \in 2..l /\ to[j] = at[j] - 1
      OBVIOUS
    <3>1. j \in (k + 1)..n /\ ~(j <= m)
      BY <1>3
    <3>2. at[j] \in 1..l /\ at[j] # 1
      BY <3>1, <1>4, <1>6
    <3> QED  BY <3>1, <3>2, <1>3
  <2> HIDE DEF n, l
  <2>2. \A j \in (m + 1)..n : at[j] - 1 \in 1..(l - 1)
    BY <2>1, <1>3
  <2>3. to \in [(m + 1)..n -> 1..(l - 1)]
    BY <2>2
  <2> HIDE DEF to
  <2>4. \A j \in (m + 1)..n : pipe'[to[j]] = said[j]
    <3> SUFFICES ASSUME NEW j \in (m + 1)..n PROVE pipe'[to[j]] = said[j]
      OBVIOUS
    <3>1. to[j] \in 1..(l - 1) /\ to[j] + 1 = at[j]
      <4>1. to[j] = at[j] - 1 /\ at[j] \in 2..l
        BY <2>1
      <4>2. l \in Nat
        BY <1>3
      <4>3. PICK a \in 2..l : a = at[j]
        BY <4>1
      <4>4. a - 1 \in 1..(l - 1) /\ (a - 1) + 1 = a
        BY <4>2
      <4> QED  BY <4>1, <4>3, <4>4
    <3>2. pipe'[to[j]] = pipe[at[j]]
      BY <3>1, <1>3
    <3>3. pipe[at[j]] = said[j]
      BY <2>1, <1>4
    <3> QED  BY <3>2, <3>3
  <2>5. \A i, j \in (m + 1)..n : i < j => to[i] < to[j]
    <3> SUFFICES ASSUME NEW i \in (m + 1)..n, NEW j \in (m + 1)..n, i < j
                 PROVE  to[i] < to[j]
      OBVIOUS
    <3>1. at[i] < at[j] /\ at[i] \in 2..l /\ at[j] \in 2..l /\ to[i] = at[i] - 1 /\ to[j] = at[j] - 1
      BY <2>1, <1>4
    <3> QED  BY <3>1, <1>3
  <2>6. \A i \in 1..(l - 1) : pipe'[i] = Noise \/ \E j \in (m + 1)..n : to[j] = i
    <3> SUFFICES ASSUME NEW i \in 1..(l - 1), pipe'[i] # Noise
                 PROVE  \E j \in (m + 1)..n : to[j] = i
      OBVIOUS
    <3>1. i + 1 \in 1..l /\ pipe'[i] = pipe[i + 1] /\ i + 1 # 1
      BY <1>3
    <3>2. PICK j \in (k + 1)..n : at[j] = i + 1
      BY <3>1, <1>4
    <3>3. ~(j <= m)
      BY <3>1, <3>2, <1>6
    <3>4. j \in (m + 1)..n
      BY <3>3, <1>3
    <3>5. to[j] = i
      BY <3>1, <3>2, <3>4, <2>1
    <3> QED  BY <3>4, <3>5
  <2>7. Len(said') = n /\ Len(pipe') = l - 1 /\ said' = said
    BY <1>2, <1>3 DEF n
  <2>8. WovenIn(m, said', pipe')
    <3>1. to \in [(m + 1)..Len(said') -> 1..Len(pipe')]
      BY <2>3, <2>7
    <3>2. \A j \in (m + 1)..Len(said') : pipe'[to[j]] = said'[j]
      BY <2>4, <2>7
    <3>3. \A i, j \in (m + 1)..Len(said') : i < j => to[i] < to[j]
      BY <2>5, <2>7
    <3>4. \A i \in 1..Len(pipe') :
             pipe'[i] = Noise \/ \E j \in (m + 1)..Len(said') : to[j] = i
      BY <2>6, <2>7
    <3> QED  BY <3>1, <3>2, <3>3, <3>4, Zenon DEF WovenIn
  <2> QED  BY <2>8 DEF Woven
<1>7. CASE \E j \in (k + 1)..n : at[j] = 1
  <2>1. PICK i \in (k + 1)..n : at[i] = 1
    BY <1>7
  <2>2. k + 1 \in (k + 1)..n /\ k + 1 <= i
    BY <2>1, <1>3
  <2>3. at[k + 1] \in 1..l
    BY <2>2, <1>4
  <2>4. i = k + 1
    <3> SUFFICES ASSUME i # k + 1 PROVE FALSE
      OBVIOUS
    <3>1. k + 1 < i
      BY <2>2, <1>3
    <3>2. at[k + 1] < 1
      BY <3>1, <2>1, <2>2, <1>4
    <3> QED  BY <2>3, <3>2, <1>3
  <2>5. Head(pipe) = said[k + 1]
    BY <2>1, <2>4, <1>3, <1>4
  <2>6. \A i_ \in 1..(k + 1) : said[i_] # TooLong
    <3>1. \A i_ \in 1..(k + 1) : i_ \in 1..k \/ i_ = k + 1
      BY <1>3
    <3> QED  BY <3>1, <2>5, <1>1, <1>2 DEF HeardUpTo
  <2>7. k + 1 \in 0..Len(said) /\ k + 1 \in Nat /\ k + 1 # 0 /\ (k + 1) - 1 = k
    BY <2>2, <1>3
  <2>8. \A i_ \in 1..(k + 1) : said[i_] \in SUBSET Signs
    BY <2>6, <2>7, ReadableLines
  <2>9. HeardOf(job, said, k + 1) = Take(job, HeardOf(job, said, k), said[k + 1])
    <3> DEFINE m == k + 1
    <3>1. m \in Nat /\ m # 0 /\ m - 1 = k /\ \A i_ \in 1..m : said[i_] \in SUBSET Signs
      BY <2>7, <2>8
    <3> HIDE DEF m
    <3>2. HeardOf(job, said, m) = Take(job, HeardOf(job, said, k), said[m])
      BY <3>1, <1>3, HeardFacts
    <3> QED  BY <3>2 DEF m
  <2>10. HeardUpTo(k + 1)'
    <3>1. found' = HeardOf(job, said, k + 1)
      BY <1>1, <1>2, <2>5, <2>9 DEF HeardUpTo
    <3>2. \A m \in 0..((k + 1) - 1) : m \in 0..(k - 1) \/ m = k
      BY <1>3
    <3>3. \A m \in 0..((k + 1) - 1) : ~CompletedRateLimit(HeardOf(job, said, m).collector)
      BY <3>2, <1>1, <1>5 DEF HeardUpTo
    <3> QED  BY <3>1, <3>3, <2>6, <1>2 DEF HeardUpTo
  <2>11. \A j \in (k + 1)..n : at[j] = 1 <=> j <= k + 1
    <3> SUFFICES ASSUME NEW j \in (k + 1)..n PROVE at[j] = 1 <=> j <= k + 1
      OBVIOUS
    <3>1. CASE j = k + 1
      BY <3>1, <2>1, <2>4
    <3>2. CASE j # k + 1
      <4>1. k + 1 < j /\ at[k + 1] < at[j] /\ at[k + 1] = 1
        BY <3>2, <2>1, <2>2, <2>4, <1>3, <1>4
      <4> QED  BY <4>1, <1>3
    <3> QED  BY <3>1, <3>2
  <2>12. k + 1 \in k..n
    BY <2>2, <1>3
  <2>13. Woven(k + 1)'
    <3> DEFINE m == k + 1
    <3>1. m \in k..n /\ \A j \in (k + 1)..n : at[j] = 1 <=> j <= m
      BY <2>11, <2>12
    <3> HIDE DEF m, n, l
    <3>2. Woven(m)'
      BY <3>1, <1>6
    <3> QED  BY <3>2 DEF m
  <2>14. StopsWhere(k + 1)'
    BY <1>2, <1>5, <2>13 DEF StopsWhere
  <2> QED  BY <1>2, <2>7, <2>10, <2>14 DEF ProgressInv
<1>8. CASE ~ \E j \in (k + 1)..n : at[j] = 1
  <2>1. Head(pipe) = Noise
    <3>1. 1 \in 1..l
      BY <1>3
    <3> QED  BY <3>1, <1>3, <1>4, <1>8
  <2>2. found' = found
    BY <1>2, <1>3, <2>1, NoiseIsNothing DEF TypeInv
  <2>3. HeardUpTo(k)'
    BY <1>1, <1>2, <2>2 DEF HeardUpTo
  <2>4. \A j \in (k + 1)..n : at[j] = 1 <=> j <= k
    BY <1>3, <1>8
  <2>5. k \in k..n
    BY <1>3
  <2>6. Woven(k)'
    <3> HIDE DEF n, l
    <3> QED  BY <2>4, <2>5, <1>6
  <2>7. StopsWhere(k)'
    BY <1>2, <1>5, <2>2, <2>6 DEF StopsWhere
  <2> QED  BY <1>2, <2>3, <2>7 DEF ProgressInv
<1> QED  BY <1>7, <1>8

LEMMA FirstIsNext ==
  ASSUME TypeInv, NEW k \in 0..Len(said), Woven(k), pipe # <<>>, Head(pipe) # Noise
  PROVE  k < Len(said) /\ said[k + 1] = Head(pipe)
<1> DEFINE n == Len(said)
           l == Len(pipe)
<1>1. n \in Nat /\ l \in Nat /\ l # 0 /\ Head(pipe) = pipe[1] /\ 1 \in 1..l
  BY DEF TypeInv
<1>2. PICK at \in [(k + 1)..n -> 1..l] :
          /\ \A j \in (k + 1)..n : pipe[at[j]] = said[j]
          /\ \A i, j \in (k + 1)..n : i < j => at[i] < at[j]
          /\ \A i \in 1..l : pipe[i] = Noise \/ \E j \in (k + 1)..n : at[j] = i
  BY DEF Woven, WovenIn
<1>3. PICK i \in (k + 1)..n : at[i] = 1
  BY <1>1, <1>2
<1>4. k + 1 \in (k + 1)..n /\ k + 1 <= i /\ at[k + 1] \in 1..l
  <2>1. k + 1 \in (k + 1)..n /\ k + 1 <= i
    BY <1>1, <1>3
  <2> QED  BY <2>1, <1>2
<1>5. i = k + 1
  <2> SUFFICES ASSUME i # k + 1 PROVE FALSE
    OBVIOUS
  <2>1. k + 1 < i
    BY <1>3, <1>4
  <2>2. at[k + 1] < 1
    BY <2>1, <1>2, <1>3, <1>4
  <2> QED  BY <2>2, <1>1, <1>4
<1> QED  BY <1>1, <1>2, <1>3, <1>4, <1>5

LEMMA ScanKeepsProgress ==
  ASSUME TypeInv, PhasesInv, ProgressInv, Agent, Drain \/ ScanFails \/ ReaderEnds
  PROVE  ProgressInv'
<1>1. PICK k \in 0..Len(said) : HeardUpTo(k) /\ StopsWhere(k)
  BY DEF ProgressInv
<1>2. UNCHANGED <<job, said, found>>
  BY DEF Drain, ScanFails, ReaderEnds, process, scan
<1>3. HeardUpTo(k)'
  BY <1>1, <1>2 DEF HeardUpTo
<1>4. CASE Drain
  <2>1. UNCHANGED <<reader, scanErr>> /\ reader = "draining"
    BY <1>4 DEF Drain, scan
  <2>2. StopsWhere(k)'
    BY <1>1, <1>2, <2>1 DEF StopsWhere
  <2> QED  BY <1>2, <1>3, <2>2 DEF ProgressInv
<1>5. CASE ScanFails
  <2>1. /\ reader = "scanning" /\ pipe # <<>> /\ Head(pipe) = TooLong
        /\ scanErr' = TRUE /\ reader' = "draining"
    BY <1>5 DEF ScanFails
  <2>2. Head(pipe) # Noise
    BY <2>1, LinesAre DEF TypeInv, LineFacts, Noise
  <2>3. k < Len(said) /\ said[k + 1] = TooLong
    BY <1>1, <2>1, <2>2, FirstIsNext DEF StopsWhere
  <2>4. StopsWhere(k)'
    BY <1>1, <1>2, <2>1, <2>3 DEF StopsWhere
  <2> QED  BY <1>2, <1>3, <2>4 DEF ProgressInv
<1>6. CASE ReaderEnds
  <2>1. reader # "done" /\ pipe = <<>> /\ reader' = "done" /\ scanErr' = scanErr
    BY <1>6 DEF ReaderEnds
  <2>2. ASSUME reader = "scanning" PROVE k = Len(said)
    <3>1. PICK at \in [(k + 1)..Len(said) -> 1..0] : TRUE
      BY <1>1, <2>1, <2>2 DEF StopsWhere, Woven, WovenIn
    <3>2. (k + 1)..Len(said) = {}
      BY <3>1
    <3>3. Len(said) \in Nat /\ k \in 0..Len(said)
      BY DEF TypeInv
    <3> QED  BY <3>2, <3>3
  <2>3. reader = "scanning" \/ reader = "draining"
    BY <2>1 DEF TypeInv
  <2>4. StopsWhere(k)'
    BY <1>1, <1>2, <2>1, <2>2, <2>3 DEF StopsWhere
  <2> QED  BY <1>2, <1>3, <2>4 DEF ProgressInv
<1> QED  BY <1>4, <1>5, <1>6

\* What Wait throws away when it gives up is noise, the harness's or another's.
LEMMA GivingUpKeepsProgress ==
  ASSUME TypeInv, ProgressInv, Agent, WaitGivesUp
  PROVE  ProgressInv'
<1>1. PICK k \in 0..Len(said) : HeardUpTo(k) /\ StopsWhere(k)
  BY DEF ProgressInv
<1>2. /\ UNCHANGED <<job, said, reader, found, scanErr>> /\ pipe' = <<>>
      /\ \A i \in 1..Len(pipe) : pipe[i] = Noise
  BY DEF WaitGivesUp, process, scan
<1>3. CASE reader # "scanning"
  <2>1. HeardUpTo(k)' /\ StopsWhere(k)'
    BY <1>1, <1>2, <1>3 DEF HeardUpTo, StopsWhere
  <2> QED  BY <1>2, <2>1 DEF ProgressInv
<1>4. CASE reader = "scanning"
  <2>13. PICK n : n = Len(said)
    OBVIOUS
  <2>1. n \in Nat /\ k \in 0..n /\ job \in Kinds
    BY <2>13, LinesAre DEF TypeInv, LineFacts
  <2>2. \A j \in (k + 1)..n : said[j] = Noise
    <3>1. PICK at \in [(k + 1)..n -> 1..Len(pipe)] : \A j \in (k + 1)..n : pipe[at[j]] = said[j]
      BY <1>1, <1>4, <2>13 DEF StopsWhere, Woven, WovenIn
    <3> QED  BY <3>1, <1>2
  <2>3. \A i \in 1..k : said[i] \in SUBSET Signs
    BY <1>1, ReadableLines DEF HeardUpTo
  <2>4. ASSUME NEW m \in k..n PROVE HeardOf(job, said, m) = found
    <3>1. m \in Nat /\ k \in Nat /\ k <= m /\ \A i \in (k + 1)..m : i \in (k + 1)..n
      BY <2>1
    <3>2. \A i \in (k + 1)..m : said[i] = Noise
      BY <3>1, <2>2
    <3>3. HeardOf(job, said, m) = HeardOf(job, said, k)
      BY <2>1, <2>3, <3>1, <3>2, HeardQuiet
    <3> QED  BY <3>3, <1>1 DEF HeardUpTo
  <2>5. \A m \in 0..(n - 1) : m \in 0..(k - 1) \/ m \in k..n
    BY <2>1
  <2>6. \A m \in 0..(n - 1) : ~CompletedRateLimit(HeardOf(job, said, m).collector)
    BY <1>1, <1>4, <2>4, <2>5 DEF HeardUpTo, StopsWhere
  <2>7. \A i \in 1..n : said[i] # TooLong
    <3>1. \A i \in 1..n : i \in 1..k \/ i \in (k + 1)..n
      BY <2>1
    <3>2. Noise # TooLong
      BY LinesAre DEF TypeInv, LineFacts, Noise
    <3> QED  BY <3>1, <3>2, <2>2, <1>1 DEF HeardUpTo
  <2>8. n \in k..n
    BY <2>1
  <2>9. HeardUpTo(n)'
    BY <1>2, <2>4, <2>6, <2>7, <2>8 DEF HeardUpTo
  <2>10. Woven(n)'
    <3>1. Len(pipe') = 0 /\ Len(said') = n
      BY <1>2, <2>1, <2>13
    <3> QED  BY <3>1, <2>1, NothingWoven DEF Woven
  <2>11. StopsWhere(n)'
    BY <1>1, <1>2, <1>4, <2>4, <2>8, <2>10 DEF StopsWhere
  <2>12. n \in 0..Len(said')
    BY <1>2, <2>1, <2>13
  <2> QED  BY <2>9, <2>11, <2>12 DEF ProgressInv
<1> QED  BY <1>3, <1>4

LEMMA ProgressStep ==
  ASSUME TypeInv, PhasesInv, ProgressInv, [Next]_vars
  PROVE  ProgressInv'
<1> SUFFICES ASSUME Agent PROVE ProgressInv'
  <2>1. job' = job
    BY DEF Next, Processes, Reader, Caller, HarnessWrites, HarnessExits, HolderWrites, HolderEnds,
           OperatorStops, TimePasses, WatchdogFires, Kill, ReadLine, ScanFails, Drain, ReaderEnds,
           CopyEnds, Start, StartFails, Reap, WaitEnds, WaitGivesUp, Return, Returned, vars
  <2> QED  BY <2>1 DEF ProgressInv, Agent
<1>1. CASE UNCHANGED <<job, said, pipe, found, reader, scanErr>>
  BY <1>1 DEF ProgressInv, Agent, HeardUpTo, StopsWhere, Woven
<1>2. ASSUME HarnessExits(0) \/ HarnessExits(1) \/ HolderEnds \/ OperatorStops \/ TimePasses
             \/ WatchdogFires \/ Kill \/ CopyEnds \/ Start \/ StartFails \/ Reap \/ WaitEnds
             \/ Return \/ Returned \/ UNCHANGED vars
      PROVE  UNCHANGED <<job, said, pipe, found, reader, scanErr>>
  BY <1>2 DEF HarnessExits, HolderEnds, OperatorStops, TimePasses, WatchdogFires, Kill, CopyEnds,
              Start, StartFails, Reap, WaitEnds, Return, Returned, vars, process, scan
<1>3. CASE \E line \in Lines[job] \cup {TooLong} : HarnessWrites(line)
  BY <1>3, WritingKeepsProgress
<1>4. CASE HolderWrites
  BY <1>4, NoiseKeepsProgress
<1>5. CASE ReadLine
  BY <1>5, ReadingKeepsProgress
<1>6. CASE Drain \/ ScanFails \/ ReaderEnds
  BY <1>6, ScanKeepsProgress
<1>7. CASE WaitGivesUp
  BY <1>7, GivingUpKeepsProgress
<1> QED  BY <1>1, <1>2, <1>3, <1>4, <1>5, <1>6, <1>7 DEF Next, Processes, Reader, Caller

LEMMA ResultStep ==
  ASSUME TypeInv, PhasesInv, ResultInv, [Next]_vars
  PROVE  ResultInv'
<1> SUFFICES ASSUME main' = "returned" PROVE ResultInv'
  BY DEF ResultInv
<1> DEFINE Same == UNCHANGED <<job, exit, found, scanErr, waitErr, watchdog>>
<1>1. CASE main = "returned"
  <2>1. /\ result' = result /\ (harness = "none" <=> harness' = "none")
        /\ reader = "done" => reader' = "done"
        /\ reader = "done" => Same
    BY <1>1 DEF PhasesInv, Next, Processes, Reader, Caller, HarnessWrites, HarnessExits,
           HolderWrites, HolderEnds,
           OperatorStops, TimePasses, WatchdogFires, Kill, ReadLine, ScanFails, Drain, ReaderEnds,
           CopyEnds, Start, StartFails, Reap, WaitEnds, WaitGivesUp, Return, Returned, vars,
           process, scan, control, caller
  <2>2. Same => ScriptResult' = ScriptResult /\ AgentResult' = AgentResult /\ Error' = Error
    BY DEF ScriptResult, AgentResult, Error, Plain, Collected, ExitCode
  <2> QED  BY <1>1, <2>1, <2>2 DEF ResultInv, Error, Plain
<1>2. CASE main # "returned"
  <2>1. StartFails \/ Return
    BY <1>2 DEF Next, Processes, Reader, Caller, HarnessWrites, HarnessExits, HolderWrites,
           HolderEnds, OperatorStops, TimePasses, WatchdogFires, Kill, ReadLine, ScanFails, Drain,
           ReaderEnds, CopyEnds, Start, Reap, WaitEnds, WaitGivesUp, Returned, vars, control, caller
  <2>2. CASE StartFails
    BY <2>2 DEF StartFails, ResultInv, PhasesInv, process, Error, Plain
  <2>3. CASE Return
    <3>1. /\ Same /\ harness = "exited" /\ harness' = harness /\ reader = "done" /\ reader' = reader
          /\ result' = IF job = "script" THEN ScriptResult ELSE AgentResult
      BY <2>3 DEF Return, PhasesInv, process, scan, control
    <3>2. ScriptResult' = ScriptResult /\ AgentResult' = AgentResult
      BY <3>1 DEF ScriptResult, AgentResult, Error, Plain, Collected, ExitCode
    <3> QED  BY <3>1, <3>2 DEF ResultInv
  <2> QED  BY <2>1, <2>2, <2>3
<1> QED  BY <1>1, <1>2

RunInv == TypeInv /\ PhasesInv /\ ProgressInv /\ ResultInv

LEMMA RunInvInit == Init => RunInv
<1> SUFFICES ASSUME Init PROVE TypeInv /\ PhasesInv /\ ResultInv
  BY ProgressInit DEF RunInv
<1>1. TypeInv
  <2>1. said \in Seq(Line) /\ pipe \in Seq(Line) /\ copying \in BOOLEAN
    BY DEF Init
  <2>2. \A i \in 1..Len(said) : said[i] \in Lines[job] \cup {TooLong}
    BY DEF Init
  <2>3. found \in Reading /\ scanErr \in BOOLEAN
    BY NewReadingType DEF Init
  <2>4. reader \in {"scanning", "draining", "done"} /\ (job = "script" => reader = "done")
    BY DEF Init
  <2>5. /\ job \in Jobs
        /\ harness \in {"none", "running", "exited"} /\ exit \in {-1, 0, 1}
        /\ canceler \in {"armed", "killed", "late", "gone"} /\ watchdog \in {"off", "on", "fired"}
        /\ main \in {"start", "process", "copy", "waited", "returned"}
    BY DEF Init
  <2> QED  BY <2>1, <2>2, <2>3, <2>4, <2>5 DEF TypeInv
<1>2. PhasesInv
  BY DEF Init, PhasesInv, Agent
<1> QED  BY <1>1, <1>2 DEF Init, ResultInv

LEMMA RunInvStep ==
  ASSUME RunInv, [Next]_vars
  PROVE  RunInv'
BY TypeStep, PhasesStep, ProgressStep, ResultStep DEF RunInv

-----------------------------------------------------------------------------
\* A completed limit is one whatever the exit code.
LEMMA LimitOutranks ==
  ASSUME NEW c \in CollectorType, NEW code, CompletedRateLimit(c)
  PROVE  Status(c, code) = "rate_limited"
BY DEF CompletedRateLimit, Status

\* What the first lines of a run tell.
LEMMA SaidIsTrue ==
  ASSUME TypeInv, Agent, NEW k \in 0..Len(said), \A i \in 1..k : said[i] # TooLong
  PROVE  /\ HeardOf(job, said, k) \in Reading
         /\ Truthful(job, HeardOf(job, said, k), said, k)
<1>1. \A i \in 1..k : said[i] \in SUBSET Signs /\ i \in 1..Len(said)
  BY ReadableLines DEF TypeInv
<1>2. job \in Kinds /\ k \in Nat
  BY LinesAre DEF TypeInv, LineFacts
<1>3. job # "claude-code" => \A i \in 1..k : "block" \notin said[i]
  BY <1>1, LinesAre DEF TypeInv, LineFacts
<1> QED  BY <1>1, <1>2, <1>3, HeardFacts, HeardIsTrue

\* How the result of an agent comes about.
LEMMA AgentEnds ==
  ASSUME RunInv, Agent, main = "returned"
  PROVE  \/ harness = "none" /\ result = Error /\ said = <<>>
         \/ /\ harness = "exited" /\ reader = "done" /\ result = AgentResult
            /\ \E k \in 0..Len(said) : HeardUpTo(k) /\ StopsWhere(k)
<1>1. harness = "none" \/ harness = "exited"
  BY DEF RunInv, PhasesInv, TypeInv
<1> QED  BY <1>1 DEF RunInv, PhasesInv, ResultInv, ProgressInv, Agent

LEMMA SurvivingLimit == RunInv => LimitSurvives
<1> SUFFICES ASSUME RunInv, main = "returned", Agent
             PROVE  /\ \A n \in 0..Len(said) : LimitedAfter(n) => result.status = "rate_limited"
                    /\ result.status = "auth_error" =>
                         \E i \in 1..Len(said) : "auth" \in said[i] /\ "block" \notin said[i]
  BY DEF LimitSurvives
<1>0. TypeInv /\ Len(said) \in Nat /\ job \in Kinds
  BY LinesAre DEF RunInv, TypeInv, LineFacts
<1>1. CASE harness = "none" /\ result = Error /\ said = <<>>
  <2>1. ASSUME NEW n \in 0..Len(said) PROVE ~LimitedAfter(n)
    <3>1. n = 0
      BY <1>1
    <3>2. HeardOf(job, said, 0) = NewReading
      BY <1>0, HeardFacts
    <3> QED  BY <3>1, <3>2 DEF LimitedAfter, Heard, CompletedRateLimit, NewReading, NewCollector
  <2>2. result.status # "auth_error"
    BY <1>1 DEF Error, Plain, Outcome
  <2> QED  BY <2>1, <2>2
<1>2. ASSUME harness = "exited", reader = "done", result = AgentResult,
             NEW k \in 0..Len(said), HeardUpTo(k), StopsWhere(k)
      PROVE  /\ \A n \in 0..Len(said) : LimitedAfter(n) => result.status = "rate_limited"
             /\ result.status = "auth_error" =>
                  \E i \in 1..Len(said) : "auth" \in said[i] /\ "block" \notin said[i]
  <2>1. found \in Reading /\ Truthful(job, found, said, k) /\ found.collector \in CollectorType
    BY <1>0, <1>2, SaidIsTrue DEF HeardUpTo, Reading
  <2>2. ASSUME CompletedRateLimit(found.collector) PROVE result.status = "rate_limited"
    <3>1. ~scanErr
      BY <1>2, <2>2 DEF StopsWhere
    <3>2. result = Collected
      BY <1>2, <2>2, <3>1 DEF AgentResult
    <3> QED  BY <2>1, <2>2, <3>2, LimitOutranks DEF Collected, Outcome
  <2>3. ASSUME NEW n \in 0..Len(said), LimitedAfter(n), ~CompletedRateLimit(found.collector)
        PROVE  FALSE
    <3>1. n \notin 0..k
      <4> SUFFICES ASSUME n \in 0..k PROVE FALSE
        OBVIOUS
      <4>1. n = k \/ n \in 0..(k - 1)
        BY <1>0
      <4> QED  BY <4>1, <1>2, <2>3 DEF HeardUpTo, LimitedAfter, Heard
    <3>2. k < n /\ k + 1 \in 1..n /\ k # Len(said)
      BY <3>1, <1>0
    <3>3. scanErr /\ said[k + 1] = TooLong
      BY <1>2, <2>3, <3>2 DEF StopsWhere
    <3> QED  BY <2>3, <3>2, <3>3 DEF LimitedAfter, Readable
  <2>4. ASSUME result.status = "auth_error"
        PROVE  \E i \in 1..Len(said) : "auth" \in said[i] /\ "block" \notin said[i]
    <3>1. result = Collected
      BY <1>2, <2>4 DEF AgentResult, Error, Hung, Plain, Outcome
    <3>2. Status(found.collector, ExitCode) = "auth_error"
      BY <2>4, <3>1 DEF Collected, Outcome
    <3>3. "authFailed" \in found.collector.up
      BY <3>2 DEF Status
    <3>4. AuthSaid(said, k)
      BY <2>1, <3>3 DEF Truthful
    <3>5. \A i \in 1..k : i \in 1..Len(said)
      BY <1>0
    <3> QED  BY <3>4, <3>5 DEF AuthSaid
  <2> QED  BY <2>2, <2>3, <2>4
<1> QED  BY <1>1, <1>2, AgentEnds

LEMMA KnownWait == RunInv => WaitIsKnown
<1> SUFFICES ASSUME RunInv, main = "returned", job = "claude-code",
                    result.status = "rate_limited"
             PROVE  \E n \in 0..Len(said) :
                      /\ \A m \in 0..n - 1 : ~LimitedAfter(m)
                      /\ LimitedAfter(n) \/ n = Len(said)
                      /\ result.wait \in Told(Signed(n))
  BY DEF WaitIsKnown
<1>0. TypeInv /\ Len(said) \in Nat /\ Agent
  BY DEF RunInv, TypeInv, Agent
<1>1. result # Error
  BY DEF Error, Plain, Outcome
<1>2. PICK k \in 0..Len(said) : HeardUpTo(k) /\ StopsWhere(k) /\ reader = "done" /\ result = AgentResult
  BY <1>0, <1>1, AgentEnds
<1>3. result = Collected
  BY <1>2 DEF AgentResult, Error, Hung, Plain, Outcome
<1>4. ~scanErr
  BY <1>2, <1>3 DEF AgentResult, Error, Hung, Plain, Outcome, Collected
<1>5. /\ found \in Reading /\ ClaudeKnows(found, Signed(k))
      /\ result.wait = Wait(found.collector)
  <2>1. found \in Reading /\ Truthful(job, found, said, k)
    BY <1>0, <1>2, SaidIsTrue DEF HeardUpTo
  <2> QED  BY <2>1, <1>3 DEF Truthful, Signed, Collected, Outcome
<1>6. result.wait \in Told(Signed(k))
  <2> DEFINE S == Signed(k)
             c == found.collector
  <2>1. /\ c.reset <=> "limit" \in S /\ "reset" \in S
        /\ c.retry \in
             IF "limit" \in S /\ "retry" \in S THEN {"backoff"}
             ELSE (IF "block" \in S THEN {"hour"} ELSE {"none"})
                  \cup (IF "block" \in S /\ "limit" \in S THEN {"none"} ELSE {})
        /\ result.wait = IF c.reset THEN "window" ELSE c.retry
    BY <1>5 DEF ClaudeKnows, Wait
  <2>2. {"block", "limit"} \subseteq S <=> "block" \in S /\ "limit" \in S
    OBVIOUS
  <2> HIDE DEF S, c
  <2>3. result.wait \in Told(S)
    BY <2>1, <2>2 DEF Told
  <2> QED  BY <2>3 DEF S
<1>7. \A m \in 0..k - 1 : ~LimitedAfter(m)
  BY <1>2 DEF HeardUpTo, LimitedAfter, Heard
<1>8. LimitedAfter(k) \/ k = Len(said)
  BY <1>2, <1>4 DEF StopsWhere, HeardUpTo, LimitedAfter, Heard, Readable
<1> QED  BY <1>6, <1>7, <1>8

LEMMA KeptAnswer == RunInv => AnswerKept
<1> SUFFICES ASSUME RunInv, main = "returned", harness = "exited", exit = 0, canceler # "killed",
                    Agent, Readable(Len(said)),
                    \A n \in 0..Len(said) : ~LimitedAfter(n),
                    Status(Heard(Len(said)).collector, 0) = "success"
             PROVE  result.status = "success" \/ (HungInGrace /\ result = Hung)
  BY DEF AnswerKept
<1>0. TypeInv /\ Len(said) \in Nat
  BY DEF RunInv, TypeInv
<1>1. PICK k \in 0..Len(said) : HeardUpTo(k) /\ StopsWhere(k) /\ reader = "done" /\ result = AgentResult
  BY AgentEnds
<1>2. ~CompletedRateLimit(found.collector)
  BY <1>1 DEF HeardUpTo, LimitedAfter, Readable, Heard
<1>3. ~scanErr
  <2> SUFFICES ASSUME scanErr PROVE FALSE
    OBVIOUS
  <2>1. k < Len(said) /\ said[k + 1] = TooLong
    BY <1>1 DEF StopsWhere
  <2>2. k + 1 \in 1..Len(said)
    BY <1>0, <2>1
  <2> QED  BY <2>1, <2>2 DEF Readable
<1>4. k = Len(said) /\ found = Heard(Len(said))
  BY <1>1, <1>2, <1>3 DEF StopsWhere, HeardUpTo, Heard
<1>5. waitErr \notin {"exit", "context"}
  BY DEF RunInv, PhasesInv
<1>6. CASE HungInGrace
  BY <1>1, <1>2, <1>6 DEF AgentResult, HungInGrace
<1>7. CASE ~HungInGrace
  <2>1. result = Collected /\ ExitCode = 0
    BY <1>1, <1>3, <1>5, <1>7 DEF AgentResult, ExitCode, HungInGrace
  <2> QED  BY <1>4, <2>1 DEF Collected, Outcome
<1> QED  BY <1>6, <1>7

\* A limit the harness ended on is resumed and not lost as a failure, whoever
\* stops the run then, and with Claude Code its waiting time is the one that was
\* told; a block of the organisation is no login problem.
THEOREM LimitsAreKept == Spec => []LimitIsKept
<1>1. RunInv => LimitIsKept
  BY SurvivingLimit, KnownWait DEF LimitIsKept
<1> QED  BY RunInvInit, RunInvStep, <1>1, PTL DEF Spec

\* An agent that has said its answer and exited by itself has succeeded, whatever
\* keeps its output open and whoever stops the run after that: even a watchdog
\* that fires then, but for an output let go within the grace period, where the
\* run is called hung.
THEOREM AnswersAreKept == Spec => []AnswerKept
BY RunInvInit, RunInvStep, KeptAnswer, PTL DEF Spec
=============================================================================
