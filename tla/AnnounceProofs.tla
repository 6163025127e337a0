--------------------------- MODULE AnnounceProofs ---------------------------
(***************************************************************************)
(* Proofs about Announce, for any artifacts, runs, messages, processes and *)
(* requests, any number of crashes, and an inbox of any size.              *)
(***************************************************************************)
EXTENDS Announce, WellFoundedInduction, TLAPS

-----------------------------------------------------------------------------
(* Lists.                                                                  *)

\* No element of the list stands in it twice.
Once(list) == \A i, j \in 1..Len(list) : list[i] = list[j] => i = j

LEMMA AppendedOne ==
  ASSUME NEW S, NEW list \in Seq(S), NEW e \in S
  PROVE  /\ Append(list, e) \in Seq(S)
         /\ ToSet(Append(list, e)) = ToSet(list) \cup {e}
         /\ Once(list) /\ e \notin ToSet(list) => Once(Append(list, e))
<1>1. /\ Append(list, e) \in Seq(S)
      /\ Len(Append(list, e)) = Len(list) + 1
      /\ \A i \in 1..Len(list) : Append(list, e)[i] = list[i]
      /\ Append(list, e)[Len(list) + 1] = e
  OBVIOUS
<1>2. \A s \in Seq(S) : ToSet(s) = {s[i] : i \in 1..Len(s)}
  BY DEF ToSet
<1>3. 1..(Len(list) + 1) = 1..Len(list) \cup {Len(list) + 1}
  OBVIOUS
<1>4. ToSet(Append(list, e)) = ToSet(list) \cup {e}
  <2> DEFINE more == Append(list, e)
  <2>1. ToSet(more) = {more[i] : i \in 1..Len(list)} \cup {more[Len(list) + 1]}
    <3>1. more \in Seq(S) /\ 1..Len(more) = 1..Len(list) \cup {Len(list) + 1}
      BY <1>1, <1>3
    <3> HIDE DEF more
    <3>2. ToSet(more) = {more[i] : i \in 1..Len(list) \cup {Len(list) + 1}}
      <4>1. ToSet(more) = {more[i] : i \in 1..Len(more)}
        BY <1>2, <3>1
      <4> QED  BY <3>1, <4>1
    <3> QED  BY <3>2
  <2>2. {more[i] : i \in 1..Len(list)} = {list[i] : i \in 1..Len(list)}
    BY <1>1
  <2> QED  BY <1>1, <1>2, <2>1, <2>2
<1>5. ASSUME Once(list), e \notin ToSet(list) PROVE Once(Append(list, e))
  <2>1. \A i \in 1..Len(list) : list[i] # e
    BY <1>2, <1>5
  <2> QED  BY <1>1, <1>3, <1>5, <2>1 DEF Once
<1> QED  BY <1>1, <1>4, <1>5

LEMMA LeastNumber ==
  ASSUME NEW S \in SUBSET Nat, S # {}
  PROVE  \E n \in S : \A m \in S : n <= m
<1> DEFINE R == OpToRel(<, Nat)
<1>1. IsWellFoundedOn(R, Nat)
  BY NatLessThanWellFounded
<1>2. PICK n \in S : \A m \in S : ~(<<m, n>> \in R)
  <2> HIDE DEF R
  <2> QED  BY <1>1, WFMin
<1>3. \A m \in S : ~(m < n)
  BY <1>2 DEF OpToRel
<1> QED  BY <1>3

\* What is kept of the first elements of a list, one element at a time.
KeptOf(list, dropped, kept, n) ==
  kept = [m \in 0..n |->
            IF m = 0 THEN <<>>
            ELSE IF list[m] \in dropped THEN kept[m - 1]
            ELSE Append(kept[m - 1], list[m])]

LEMMA KeptOne ==
  ASSUME NEW list, NEW dropped, NEW kept, NEW n \in Nat, KeptOf(list, dropped, kept, n),
         NEW m \in 1..n
  PROVE  kept[m] = IF list[m] \in dropped THEN kept[m - 1]
                   ELSE Append(kept[m - 1], list[m])
<1> DEFINE all == [i \in 0..n |->
                     IF i = 0 THEN <<>>
                     ELSE IF list[i] \in dropped THEN kept[i - 1]
                     ELSE Append(kept[i - 1], list[i])]
<1>1. kept[m] = all[m]
  <2>1. kept = all
    BY DEF KeptOf
  <2> HIDE DEF all
  <2> QED  BY <2>1
<1>2. m \in 0..n /\ m # 0
  OBVIOUS
<1> QED  BY <1>1, <1>2

LEMMA KeptIsDefined ==
  ASSUME NEW S, NEW list \in Seq(S), NEW dropped, NEW n \in 0..Len(list)
  PROVE  \E kept : KeptOf(list, dropped, kept, n)
<1> DEFINE Bad == {m \in 0..Len(list) : ~\E kept : KeptOf(list, dropped, kept, m)}
<1> SUFFICES ASSUME Bad # {} PROVE FALSE
  OBVIOUS
<1>1. PICK b \in Bad : \A m \in Bad : b <= m
  <2>1. Bad \in SUBSET Nat
    OBVIOUS
  <2> HIDE DEF Bad
  <2> QED  BY <2>1, LeastNumber
<1>2. KeptOf(list, dropped, [m \in 0..0 |-> <<>>], 0)
  BY DEF KeptOf
<1>3. b # 0
  <2> HIDE DEF KeptOf
  <2> QED  BY <1>2
<1>4. b \in 1..Len(list) /\ b - 1 \in 0..Len(list) /\ b - 1 \notin Bad
  BY <1>1, <1>3
<1>5. PICK kept : KeptOf(list, dropped, kept, b - 1)
  BY <1>4
<1> DEFINE more == [m \in 0..b |->
                      IF m < b THEN kept[m]
                      ELSE IF list[b] \in dropped THEN kept[b - 1]
                      ELSE Append(kept[b - 1], list[b])]
<1>6. KeptOf(list, dropped, more, b)
  <2> DEFINE new == [m \in 0..b |->
                       IF m = 0 THEN <<>>
                       ELSE IF list[m] \in dropped THEN more[m - 1]
                       ELSE Append(more[m - 1], list[m])]
  <2> SUFFICES ASSUME NEW m \in 0..b PROVE more[m] = new[m]
    BY DEF KeptOf
  <2>1. CASE m = b
    <3>1. more[b - 1] = kept[b - 1]
      BY <1>4
    <3> QED  BY <2>1, <3>1, <1>4
  <2>2. CASE m # b /\ m # 0
    <3>1. m \in 1..(b - 1) /\ m - 1 \in 0..(b - 1) /\ m < b /\ m - 1 < b
      BY <2>2, <1>4
    <3>2. more[m - 1] = kept[m - 1] /\ more[m] = kept[m]
      BY <3>1, <1>4
    <3>3. kept[m] = IF list[m] \in dropped THEN kept[m - 1]
                    ELSE Append(kept[m - 1], list[m])
      BY <1>4, <1>5, <3>1, KeptOne
    <3>4. new[m] = IF list[m] \in dropped THEN more[m - 1]
                   ELSE Append(more[m - 1], list[m])
      BY <3>1
    <3> QED  BY <3>2, <3>3, <3>4
  <2>3. CASE m # b /\ m = 0
    BY <2>3, <1>4, <1>5 DEF KeptOf
  <2> QED  BY <2>1, <2>2, <2>3
<1> QED  BY <1>1, <1>6

\* Without takes out what is dropped, leaves everything else, and repeats
\* nothing that the list does not repeat.
LEMMA WithoutFacts ==
  ASSUME NEW S, NEW list \in Seq(S), NEW dropped
  PROVE  /\ Without(list, dropped) \in Seq(S)
         /\ ToSet(Without(list, dropped)) = ToSet(list) \ dropped
         /\ Once(list) => Once(Without(list, dropped))
<1> DEFINE kept == CHOOSE k : KeptOf(list, dropped, k, Len(list))
<1>1. KeptOf(list, dropped, kept, Len(list))
  <2> HIDE DEF KeptOf
  <2>1. \E k : KeptOf(list, dropped, k, Len(list))
    <3>1. Len(list) \in 0..Len(list)
      OBVIOUS
    <3> QED  BY <3>1, KeptIsDefined
  <2> QED  BY <2>1
<1>2. Without(list, dropped) = kept[Len(list)]
  BY DEF Without, KeptOf
<1> HIDE DEF kept
<1> DEFINE Here(n) == {list[i] : i \in 1..n}
           Good(n) == /\ kept[n] \in Seq(S)
                      /\ ToSet(kept[n]) = Here(n) \ dropped
                      /\ Once(list) => Once(kept[n])
           Bad == {n \in 0..Len(list) : ~Good(n)}
<1>3. Bad = {}
  <2> SUFFICES ASSUME Bad # {} PROVE FALSE
    OBVIOUS
  <2>1. PICK b \in Bad : \A m \in Bad : b <= m
    <3>1. Bad \in SUBSET Nat
      OBVIOUS
    <3> HIDE DEF Bad
    <3> QED  BY <3>1, LeastNumber
  <2>2. Good(0)
    <3>1. kept[0] = <<>>
      BY <1>1 DEF KeptOf
    <3> QED  BY <3>1 DEF ToSet, Once
  <2>3. b \in 1..Len(list) /\ b - 1 \in 0..Len(list) /\ b - 1 \notin Bad
    <3> HIDE DEF Good
    <3> QED  BY <2>1, <2>2
  <2>4. Good(b - 1)
    <3> HIDE DEF Good
    <3> QED  BY <2>3
  <2>5. kept[b] = IF list[b] \in dropped THEN kept[b - 1]
                  ELSE Append(kept[b - 1], list[b])
    <3>1. b \in 1..Len(list) /\ Len(list) \in Nat
      BY <2>3
    <3> HIDE DEF Good, Bad, Here
    <3> QED  BY <1>1, <3>1, KeptOne
  <2>6. Here(b) = Here(b - 1) \cup {list[b]} /\ list[b] \in S
    <3>1. 1..b = 1..(b - 1) \cup {b}
      BY <2>3
    <3> QED  BY <3>1, <2>3
  <2>7. CASE list[b] \in dropped
    BY <2>7, <2>4, <2>5, <2>6
  <2>8. CASE list[b] \notin dropped
    <3> DEFINE old == kept[b - 1]
    <3>1. old \in Seq(S) /\ kept[b] = Append(old, list[b])
      BY <2>8, <2>4, <2>5
    <3> HIDE DEF old
    <3>2. ToSet(Append(old, list[b])) = ToSet(old) \cup {list[b]}
      BY <3>1, <2>6, AppendedOne
    <3>3. ToSet(kept[b]) = Here(b) \ dropped
      BY <3>1, <3>2, <2>4, <2>6, <2>8 DEF old
    <3>4. ASSUME Once(list) PROVE Once(kept[b])
      <4>1. list[b] \notin Here(b - 1)
        BY <3>4, <2>3 DEF Once
      <4>2. list[b] \notin ToSet(old) /\ Once(old)
        BY <4>1, <2>4, <3>4 DEF old
      <4> QED  BY <4>2, <3>1, <2>6, AppendedOne
    <3>5. kept[b] \in Seq(S)
      BY <3>1, <2>6
    <3>6. Good(b)
      BY <3>3, <3>4, <3>5
    <3> QED  BY <3>6, <2>1
  <2> QED  BY <2>7, <2>8
<1>4. Good(Len(list))
  <2> HIDE DEF Good
  <2> QED  BY <1>3
<1>5. Here(Len(list)) = ToSet(list)
  BY DEF ToSet
<1> QED  BY <1>2, <1>4, <1>5

\* The rest of a list that repeats nothing is without its head.
LEMMA TailFacts ==
  ASSUME NEW S, NEW list \in Seq(S), list # <<>>
  PROVE  /\ Head(list) \in S /\ Tail(list) \in Seq(S)
         /\ ToSet(list) = {Head(list)} \cup ToSet(Tail(list))
         /\ Once(list) => Once(Tail(list)) /\ Head(list) \notin ToSet(Tail(list))
<1>1. /\ Len(list) \in Nat /\ Len(list) # 0
      /\ Head(list) = list[1] /\ list[1] \in S
      /\ Tail(list) \in Seq(S) /\ Len(Tail(list)) = Len(list) - 1
      /\ \A i \in 1..(Len(list) - 1) : Tail(list)[i] = list[i + 1]
  OBVIOUS
<1>2. \A s \in Seq(S) : ToSet(s) = {s[i] : i \in 1..Len(s)}
  BY DEF ToSet
<1>3. ToSet(Tail(list)) = {list[i + 1] : i \in 1..(Len(list) - 1)}
  <2>1. ToSet(Tail(list)) = {Tail(list)[i] : i \in 1..(Len(list) - 1)}
    <3>1. ToSet(Tail(list)) = {Tail(list)[i] : i \in 1..Len(Tail(list))}
      BY <1>1, <1>2
    <3> QED  BY <1>1, <3>1
  <2> QED  BY <1>1, <2>1
<1>4. ToSet(list) = {list[1]} \cup {list[i + 1] : i \in 1..(Len(list) - 1)}
  <2>1. \A i \in 1..Len(list) : i = 1 \/ (i - 1 \in 1..(Len(list) - 1) /\ (i - 1) + 1 = i)
    BY <1>1
  <2>2. \A i \in 1..(Len(list) - 1) : i + 1 \in 1..Len(list)
    BY <1>1
  <2>3. 1 \in 1..Len(list)
    BY <1>1
  <2>4. ToSet(list) = {list[i] : i \in 1..Len(list)}
    BY <1>2
  <2>5. ASSUME NEW i \in 1..Len(list), i # 1
        PROVE  \E j \in 1..(Len(list) - 1) : list[i] = list[j + 1]
    BY <2>1, <2>5
  <2> QED  BY <2>2, <2>3, <2>4, <2>5
<1>5. ASSUME Once(list) PROVE Once(Tail(list)) /\ Head(list) \notin ToSet(Tail(list))
  BY <1>1, <1>3, <1>5 DEF Once
<1> QED  BY <1>1, <1>3, <1>4, <1>5

-----------------------------------------------------------------------------
(* What the files hold.                                                    *)

Places   == {"idle", "copy", "record", "mark", "carry?", "carry", "unlink", "forget", "open"}
OpType   == [pc : Places, ids : SUBSET Items, all : BOOLEAN]
LoopType == [pc : {"look", "take", "send", "outbox"}, seen : Seq(Artifacts),
             muted : BOOLEAN, left : Seq(Artifacts)]

TypeInv ==
  /\ arts \in Seq(Artifacts)
  /\ files \in [Artifacts -> {"none", "partial", "full"}]
  /\ ops \in [Clients -> OpType]
  /\ used \subseteq Items /\ ended \subseteq Items /\ gone \subseteq Artifacts

\* A `dispatchq publish` at work is the only one that knows its id: it is not
\* listed, nor has it been.
Publishing(c) == ops[c].pc \in {"copy", "record"}
PublisherInv ==
  \A c \in Clients : Publishing(c) =>
    /\ c \in Cli
    /\ \E a \in Artifacts : ops[c].ids = {a}
    /\ \A a \in ops[c].ids :
         /\ a \in used /\ a \notin ToSet(arts) /\ a \notin gone
         /\ ops[c].pc = "record" => files[a] = "full"
    /\ \A d \in Clients : Publishing(d) /\ d # c => ops[d].ids # ops[c].ids

\* What is being deleted is off the list for good.
UnlinkInv ==
  \A c \in Clients : ops[c].pc \in {"unlink", "forget"} =>
    /\ c \in Requests
    /\ \E a \in Artifacts : ops[c].ids = {a} /\ a \in gone /\ a \in used

\* What is being opened has been on the list: nobody is still copying it.
Readable(a) ==
  /\ a \in used /\ files[a] # "partial"
  /\ \A d \in Clients : Publishing(d) => ops[d].ids # {a}
OpenInv ==
  \A c \in Clients : ops[c].pc = "open" =>
    c \in Requests /\ \E a \in Artifacts : ops[c].ids = {a} /\ Readable(a)

ListInv ==
  /\ Once(arts)
  /\ \A a \in ToSet(arts) : a \in used /\ a \notin gone /\ files[a] = "full"
  /\ gone \subseteq used

FilesInv == TypeInv /\ PublisherInv /\ UnlinkInv /\ OpenInv /\ ListInv

LEMMA InitFiles == Init => FilesInv
<1> SUFFICES ASSUME Init PROVE FilesInv
  OBVIOUS
<1>1. PICK backlog \in {<<>>} \union {<<a>> : a \in Items \intersect Artifacts} :
        /\ arts = backlog
        /\ files = [a \in Artifacts |-> IF a \in ToSet(backlog) THEN "full" ELSE "none"]
  BY DEF Init, InitWith
<1>2. /\ ended = {} /\ gone = {} /\ used = ToSet(arts) \union (Items \ Items)
      /\ ops = [c \in Clients |-> Idle]
  BY DEF Init, InitWith
<1>3. arts \in Seq(Artifacts) /\ Once(arts) /\ ToSet(arts) \subseteq Artifacts
  <2>1. CASE backlog = <<>>
    BY <1>1, <2>1 DEF Once, ToSet
  <2>2. ASSUME NEW a \in Items \intersect Artifacts, backlog = <<a>>
        PROVE  arts \in Seq(Artifacts) /\ Once(arts) /\ ToSet(arts) \subseteq Artifacts
    <3>1. arts = <<a>> /\ Len(arts) = 1 /\ arts[1] = a /\ arts \in Seq(Artifacts)
      BY <1>1, <2>2
    <3> QED  BY <3>1 DEF Once, ToSet
  <2> QED  BY <1>1, <2>1, <2>2
<1>4. Idle \in OpType /\ Idle.pc = "idle"
  BY DEF Idle, OpType, Places
<1>5. TypeInv
  BY <1>1, <1>2, <1>3, <1>4 DEF TypeInv, Items
<1>6. PublisherInv /\ UnlinkInv /\ OpenInv
  BY <1>2, <1>4 DEF PublisherInv, UnlinkInv, OpenInv, Publishing
<1>7. ListInv
  BY <1>1, <1>2, <1>3 DEF ListInv
<1> QED  BY <1>5, <1>6, <1>7 DEF FilesInv

\* What a client does next changes nothing for the others.
LEMMA StepFacts ==
  ASSUME ops \in [Clients -> OpType], NEW c \in Clients, NEW op \in OpType, Step(c, op)
  PROVE  /\ ops' \in [Clients -> OpType]
         /\ ops'[c] = op
         /\ \A d \in Clients : d # c => ops'[d] = ops[d]
  BY DEF Step

LEMMA GoFacts ==
  ASSUME ops \in [Clients -> OpType], NEW c \in Clients, NEW pc \in Places, Go(c, pc)
  PROVE  /\ ops' \in [Clients -> OpType]
         /\ ops'[c].pc = pc /\ ops'[c].ids = ops[c].ids
         /\ \A d \in Clients : d # c => ops'[d] = ops[d]
<1> DEFINE op == [ops[c] EXCEPT !.pc = pc]
<1>1. op \in OpType /\ op.pc = pc /\ op.ids = ops[c].ids
  BY DEF OpType
<1>2. Step(c, op)
  BY DEF Go
<1> HIDE DEF op
<1> QED  BY <1>1, <1>2, StepFacts

LEMMA IdleIsOp == Idle \in OpType /\ Idle.pc = "idle"
  BY DEF Idle, OpType, Places

\* A client that is done, or reads, is in nobody's way.
Aside == {"idle", "mark", "carry?", "carry"}
StepsAside ==
  \A c \in Clients : ops'[c] = ops[c] \/ ops'[c].pc \in Aside

LEMMA AsideStep ==
  ASSUME FilesInv, ops' \in [Clients -> OpType], StepsAside,
         UNCHANGED <<arts, files, gone>>,
         used \subseteq used', used' \subseteq Items, ended' \subseteq Items
  PROVE  FilesInv'
<1>1. TypeInv'
  BY DEF FilesInv, TypeInv
<1>2. \A c \in Clients : ops'[c].pc \in {"copy", "record", "unlink", "forget", "open"}
                         => ops'[c] = ops[c]
  BY DEF StepsAside, Aside
<1>3. PublisherInv'
  BY <1>2 DEF FilesInv, PublisherInv, Publishing
<1>4. UnlinkInv' /\ OpenInv'
  <2>1. \A d \in Clients : Publishing(d)' => Publishing(d) /\ ops'[d].ids = ops[d].ids
    BY <1>2 DEF Publishing
  <2>2. UnlinkInv'
    BY <1>2 DEF FilesInv, UnlinkInv
  <2>3. \A a \in Artifacts : Readable(a) => Readable(a)'
    BY <2>1 DEF Readable
  <2>4. OpenInv'
    BY <1>2, <2>3 DEF FilesInv, OpenInv
  <2> QED  BY <2>2, <2>4
<1>5. ListInv'
  BY DEF FilesInv, ListInv
<1> QED  BY <1>1, <1>3, <1>4, <1>5 DEF FilesInv

LEMMA PublishBeginStep ==
  ASSUME FilesInv, NEW c \in Cli, NEW a \in Artifacts, PublishBegin(c, a)
  PROVE  FilesInv'
<1> DEFINE op == [pc |-> "copy", ids |-> {a}, all |-> FALSE]
<1>1. /\ ops[c].pc = "idle" /\ a \notin used /\ used' = used \union {a}
      /\ files' = [files EXCEPT ![a] = "partial"]
      /\ Step(c, op)
      /\ UNCHANGED <<arts, ended, gone>>
  BY DEF PublishBegin, At, bookVars
<1>2. op \in OpType /\ op.pc = "copy" /\ op.ids = {a} /\ c \in Clients
  BY DEF OpType, Places, Items, Clients
<1> HIDE DEF op
<1>3. ops' \in [Clients -> OpType] /\ ops'[c] = op /\ \A d \in Clients : d # c => ops'[d] = ops[d]
  BY <1>1, <1>2, StepFacts DEF FilesInv, TypeInv
<1>4. TypeInv'
  BY <1>1, <1>3 DEF FilesInv, TypeInv, Items
<1>5. \A b \in used : files'[b] = files[b]
  BY <1>1 DEF FilesInv, TypeInv
<1>6. ListInv'
  BY <1>1, <1>5 DEF FilesInv, ListInv
<1>7. UnlinkInv'
  BY <1>1, <1>2, <1>3 DEF FilesInv, UnlinkInv
<1>8. OpenInv'
  <2>1. \A b \in Artifacts : Readable(b) => Readable(b)'
    BY <1>1, <1>2, <1>3, <1>5 DEF Readable, Publishing
  <2> QED  BY <1>2, <1>3, <2>1 DEF FilesInv, OpenInv
<1>9. PublisherInv'
  <2> SUFFICES ASSUME NEW d \in Clients, Publishing(d)'
               PROVE  /\ d \in Cli
                      /\ \E b \in Artifacts : ops'[d].ids = {b}
                      /\ \A b \in ops'[d].ids :
                           /\ b \in used' /\ b \notin ToSet(arts') /\ b \notin gone'
                           /\ ops'[d].pc = "record" => files'[b] = "full"
                      /\ \A e \in Clients : Publishing(e)' /\ e # d => ops'[e].ids # ops'[d].ids
    BY DEF PublisherInv
  <2>1. a \notin ToSet(arts) /\ a \notin gone
    BY <1>1 DEF FilesInv, ListInv
  <2>2. \A e \in Clients : Publishing(e)' /\ e # c => Publishing(e) /\ ops'[e] = ops[e]
    BY <1>3 DEF Publishing
  <2>3. \A e \in Clients : Publishing(e) => ops[e].ids # {a}
    BY <1>1 DEF FilesInv, PublisherInv
  <2>4. CASE d = c
    BY <2>1, <2>2, <2>3, <2>4, <1>1, <1>2, <1>3
  <2>5. CASE d # c
    <3>1. Publishing(d) /\ ops'[d] = ops[d] /\ ops[d].ids # {a}
      BY <2>2, <2>3, <2>5
    <3>2. \A b \in ops[d].ids : /\ b \in used /\ b \notin ToSet(arts) /\ b \notin gone
                                /\ ops[d].pc = "record" => files'[b] = "full"
      BY <3>1, <1>5 DEF FilesInv, PublisherInv
    <3>3. d \in Cli /\ \E b \in Artifacts : ops[d].ids = {b}
      BY <3>1 DEF FilesInv, PublisherInv
    <3>4. \A e \in Clients : Publishing(e)' /\ e # d => ops'[e].ids # ops[d].ids
      BY <3>1, <2>2, <1>2, <1>3 DEF FilesInv, PublisherInv
    <3> QED  BY <3>1, <3>2, <3>3, <3>4, <1>1
  <2> QED  BY <2>4, <2>5
<1> QED  BY <1>4, <1>6, <1>7, <1>8, <1>9 DEF FilesInv

\* A publisher that stops, or goes on, tells the others nothing: what it needs
\* itself is left to show.
LEMMA PublisherMoves ==
  ASSUME FilesInv, NEW c \in Clients, Publishing(c), NEW a \in Artifacts, ops[c].ids = {a},
         ops' \in [Clients -> OpType], \A d \in Clients : d # c => ops'[d] = ops[d],
         \/ ops'[c].pc = "idle"
         \/ ops'[c].pc = "record" /\ ops'[c].ids = {a} /\ files'[a] = "full" /\ arts' = arts,
         files' \in [Artifacts -> {"none", "partial", "full"}],
         \A b \in Artifacts : b # a => files'[b] = files[b],
         arts' \in Seq(Artifacts), ToSet(arts') \subseteq ToSet(arts) \union {a},
         UNCHANGED <<used, ended, gone>>
  PROVE  TypeInv' /\ PublisherInv' /\ UnlinkInv' /\ OpenInv'
<1>1. TypeInv'
  BY DEF FilesInv, TypeInv
<1>2. \A d \in Clients : Publishing(d)' => Publishing(d) /\ ops'[d].ids = ops[d].ids
  BY DEF Publishing
<1>3. \A d \in Clients : Publishing(d) /\ d # c => a \notin ops[d].ids
  <2> SUFFICES ASSUME NEW d \in Clients, Publishing(d), d # c PROVE a \notin ops[d].ids
    OBVIOUS
  <2>1. ops[d].ids # ops[c].ids
    BY DEF FilesInv, PublisherInv
  <2>2. PICK b \in Artifacts : ops[d].ids = {b}
    BY DEF FilesInv, PublisherInv
  <2> QED  BY <2>1, <2>2
<1>4. PublisherInv'
  <2> SUFFICES ASSUME NEW d \in Clients, Publishing(d)'
               PROVE  /\ d \in Cli
                      /\ \E b \in Artifacts : ops'[d].ids = {b}
                      /\ \A b \in ops'[d].ids :
                           /\ b \in used' /\ b \notin ToSet(arts') /\ b \notin gone'
                           /\ ops'[d].pc = "record" => files'[b] = "full"
                      /\ \A e \in Clients : Publishing(e)' /\ e # d => ops'[e].ids # ops'[d].ids
    BY DEF PublisherInv
  <2>1. /\ d \in Cli /\ \E b \in Artifacts : ops[d].ids = {b}
        /\ \A b \in ops[d].ids : b \in used /\ b \notin ToSet(arts) /\ b \notin gone
    BY <1>2 DEF FilesInv, PublisherInv
  <2>2. \A e \in Clients : Publishing(e)' /\ e # d => ops'[e].ids # ops'[d].ids
    BY <1>2 DEF FilesInv, PublisherInv
  <2>3. CASE d = c
    <3>1. ops'[c].pc = "record" /\ ops'[c].ids = {a} /\ files'[a] = "full" /\ arts' = arts
      BY <2>3 DEF Publishing
    <3> QED  BY <2>1, <2>2, <2>3, <3>1, <1>2
  <2>4. CASE d # c
    <3>1. ops'[d] = ops[d] /\ a \notin ops[d].ids /\ Publishing(d)
      BY <2>4, <1>2, <1>3
    <3>2. \A b \in ops[d].ids : b \in Artifacts /\ b # a
      BY <2>1, <3>1
    <3>3. \A b \in ops[d].ids : ops[d].pc = "record" => files[b] = "full"
      BY <3>1 DEF FilesInv, PublisherInv
    <3> QED  BY <2>1, <2>2, <3>1, <3>2, <3>3
  <2> QED  BY <2>3, <2>4
<1>5. c \notin Requests
  BY AnnounceAssumption DEF FilesInv, PublisherInv
<1>6. UnlinkInv'
  BY DEF FilesInv, UnlinkInv
<1>7. \A b \in Artifacts : Readable(b) => Readable(b)'
  <2> SUFFICES ASSUME NEW b \in Artifacts, Readable(b) PROVE Readable(b)'
    OBVIOUS
  <2>1. b # a
    BY DEF Readable
  <2> QED  BY <2>1, <1>2 DEF Readable
<1>8. OpenInv'
  BY <1>7 DEF FilesInv, OpenInv
<1> QED  BY <1>1, <1>4, <1>6, <1>8

LEMMA PublisherName ==
  ASSUME FilesInv, NEW c \in Clients, Publishing(c)
  PROVE  /\ Named(c) \in Artifacts /\ ops[c].ids = {Named(c)} /\ Named(c) \in used
         /\ Named(c) \notin ToSet(arts) /\ Named(c) \notin gone
         /\ ops[c].pc = "record" => files[Named(c)] = "full"
<1>1. PICK a \in Artifacts : ops[c].ids = {a}
  BY DEF FilesInv, PublisherInv
<1>2. Named(c) = a
  BY <1>1 DEF Named
<1> QED  BY <1>1, <1>2 DEF FilesInv, PublisherInv

LEMMA PublishCopyStep ==
  ASSUME FilesInv, NEW c \in Cli, PublishCopy(c)
  PROVE  FilesInv'
<1> DEFINE a == Named(c)
<1>1. c \in Clients /\ Publishing(c) /\ UNCHANGED <<arts, used, ended, gone>>
  BY DEF PublishCopy, Publishing, At, Clients, bookVars
<1>2. /\ a \in Artifacts /\ ops[c].ids = {a} /\ a \in used /\ a \notin ToSet(arts)
  BY <1>1, PublisherName
<1> HIDE DEF a
<1>3. files' = [files EXCEPT ![a] = "full"] \/ files' = [files EXCEPT ![a] = "none"]
  BY DEF PublishCopy, a
<1>4. /\ files' \in [Artifacts -> {"none", "partial", "full"}]
      /\ \A b \in Artifacts : b # a => files'[b] = files[b]
  BY <1>2, <1>3 DEF FilesInv, TypeInv
<1>5. /\ ops' \in [Clients -> OpType] /\ \A d \in Clients : d # c => ops'[d] = ops[d]
      /\ \/ ops'[c].pc = "idle"
         \/ ops'[c].pc = "record" /\ ops'[c].ids = {a} /\ files'[a] = "full" /\ arts' = arts
  <2>1. CASE files' = [files EXCEPT ![a] = "full"] /\ Go(c, "record")
    <3>1. "record" \in Places
      BY DEF Places
    <3>2. files'[a] = "full"
      BY <1>2, <2>1 DEF FilesInv, TypeInv
    <3> QED  BY <2>1, <3>1, <3>2, <1>1, <1>2, GoFacts DEF FilesInv, TypeInv
  <2>2. CASE Step(c, Idle)
    BY <2>2, <1>1, IdleIsOp, StepFacts DEF FilesInv, TypeInv
  <2> QED  BY <2>1, <2>2 DEF PublishCopy, a
<1>6. ToSet(arts') \subseteq ToSet(arts) \union {a} /\ arts' \in Seq(Artifacts)
  BY <1>1 DEF FilesInv, TypeInv
<1>7. TypeInv' /\ PublisherInv' /\ UnlinkInv' /\ OpenInv'
  BY <1>1, <1>2, <1>4, <1>5, <1>6, PublisherMoves
<1>8. ListInv'
  <2>1. ToSet(arts) \subseteq Artifacts
    BY DEF FilesInv, TypeInv, ToSet
  <2> QED  BY <1>1, <1>2, <1>4, <2>1 DEF FilesInv, ListInv
<1> QED  BY <1>7, <1>8 DEF FilesInv

LEMMA PublishRecordStep ==
  ASSUME FilesInv, NEW c \in Cli, PublishRecord(c)
  PROVE  FilesInv'
<1> DEFINE a == Named(c)
<1>1. /\ c \in Clients /\ Publishing(c) /\ UNCHANGED <<used, ended, gone>>
      /\ ops[c].pc = "record" /\ Step(c, Idle)
  BY DEF PublishRecord, Publishing, At, Clients, bookVars
<1>2. /\ a \in Artifacts /\ ops[c].ids = {a} /\ a \in used /\ a \notin ToSet(arts)
      /\ a \notin gone /\ files[a] = "full"
  BY <1>1, PublisherName
<1> HIDE DEF a
<1>3. \/ arts' = Append(arts, a) /\ files' = files
      \/ files' = [files EXCEPT ![a] = "none"] /\ arts' = arts
  BY DEF PublishRecord, a
<1>4. /\ files' \in [Artifacts -> {"none", "partial", "full"}]
      /\ \A b \in Artifacts : b # a => files'[b] = files[b]
  BY <1>2, <1>3 DEF FilesInv, TypeInv
<1>5. /\ ops' \in [Clients -> OpType] /\ \A d \in Clients : d # c => ops'[d] = ops[d]
      /\ ops'[c].pc = "idle"
  BY <1>1, IdleIsOp, StepFacts DEF FilesInv, TypeInv
<1>6. arts \in Seq(Artifacts) /\ Once(arts) /\ ToSet(arts) \subseteq Artifacts
  BY DEF FilesInv, TypeInv, ListInv, ToSet
<1>7. /\ arts' \in Seq(Artifacts) /\ ToSet(arts') \subseteq ToSet(arts) \union {a}
      /\ Once(arts')
  <2>1. /\ Append(arts, a) \in Seq(Artifacts)
        /\ ToSet(Append(arts, a)) = ToSet(arts) \union {a} /\ Once(Append(arts, a))
    BY <1>2, <1>6, AppendedOne
  <2>2. CASE arts' = Append(arts, a)
    BY <2>1, <2>2
  <2>3. CASE arts' = arts
    BY <2>3, <1>6
  <2> QED  BY <1>3, <2>2, <2>3
<1>8. TypeInv' /\ PublisherInv' /\ UnlinkInv' /\ OpenInv'
  BY <1>1, <1>2, <1>4, <1>5, <1>7, PublisherMoves
<1>9. \A b \in ToSet(arts') : b \in used /\ b \notin gone /\ files'[b] = "full"
  <2>1. CASE arts' = Append(arts, a) /\ files' = files
    BY <2>1, <1>2, <1>7 DEF FilesInv, ListInv
  <2>2. CASE arts' = arts
    <3>1. \A b \in ToSet(arts) : b \in used /\ b \notin gone /\ files[b] = "full" /\ b # a
      BY <1>2 DEF FilesInv, ListInv
    <3> QED  BY <2>2, <3>1, <1>4, <1>6
  <2> QED  BY <1>3, <2>1, <2>2
<1>10. ListInv'
  BY <1>1, <1>7, <1>9 DEF FilesInv, ListInv
<1> QED  BY <1>8, <1>10 DEF FilesInv

\* The steps of clients that leave the files and the list alone.
LEMMA QuietClientStep ==
  ASSUME FilesInv, NEW c \in Clients,
         \/ CliDies(c) \/ ReadBegin(c) \/ ReadMark(c) \/ CarryLook(c) \/ CarryWrite(c)
         \/ DeleteForget(c) \/ OpenServe(c)
  PROVE  FilesInv'
<1>1. /\ UNCHANGED <<arts, files, gone, used, ended>>
      /\ \/ Step(c, Idle) \/ Go(c, "carry?") \/ Go(c, "carry")
         \/ \E ids \in SUBSET Items, all \in BOOLEAN :
              Step(c, [pc |-> "mark", ids |-> ids, all |-> all])
  <2>1. ToSet(arts) \subseteq Items /\ ended \subseteq Items
    BY DEF FilesInv, TypeInv, ToSet, Items
  <2>2. CASE ReadBegin(c)
    <3>1. \/ \E i \in ToSet(arts) \union ended :
               Step(c, [pc |-> "mark", ids |-> {i}, all |-> FALSE])
          \/ Step(c, [pc |-> "mark", ids |-> ToSet(arts), all |-> TRUE])
          \/ Step(c, [pc |-> "mark", ids |-> ended, all |-> TRUE])
      BY <2>2 DEF ReadBegin
    <3>2. \E ids \in SUBSET Items, all \in BOOLEAN :
              Step(c, [pc |-> "mark", ids |-> ids, all |-> all])
      <4>1. ASSUME NEW i \in ToSet(arts) \union ended,
                   Step(c, [pc |-> "mark", ids |-> {i}, all |-> FALSE])
            PROVE  \E ids \in SUBSET Items, all \in BOOLEAN :
                     Step(c, [pc |-> "mark", ids |-> ids, all |-> all])
        <5>1. {i} \in SUBSET Items /\ FALSE \in BOOLEAN
          BY <2>1
        <5> QED  BY <4>1, <5>1
      <4> QED  BY <2>1, <3>1, <4>1
    <3> QED  BY <2>2, <3>2 DEF ReadBegin, bookVars
  <2> QED  BY <2>2 DEF CliDies, ReadMark, CarryLook, CarryWrite, DeleteForget, OpenServe, bookVars
<1>2. /\ ops' \in [Clients -> OpType] /\ ops'[c].pc \in Aside
      /\ \A d \in Clients : d # c => ops'[d] = ops[d]
  <2>1. ops \in [Clients -> OpType]
    BY DEF FilesInv, TypeInv
  <2>2. CASE Step(c, Idle)
    BY <2>1, <2>2, IdleIsOp, StepFacts DEF Aside
  <2>3. CASE Go(c, "carry?") \/ Go(c, "carry")
    <3>1. {"carry?", "carry"} \subseteq Places \intersect Aside
      BY DEF Places, Aside
    <3> QED  BY <2>1, <2>3, <3>1, GoFacts
  <2>4. ASSUME NEW ids \in SUBSET Items, NEW all \in BOOLEAN,
               Step(c, [pc |-> "mark", ids |-> ids, all |-> all])
        PROVE  /\ ops' \in [Clients -> OpType] /\ ops'[c].pc \in Aside
               /\ \A d \in Clients : d # c => ops'[d] = ops[d]
    <3> DEFINE op == [pc |-> "mark", ids |-> ids, all |-> all]
    <3>1. op \in OpType /\ op.pc = "mark"
      BY DEF OpType, Places
    <3> HIDE DEF op
    <3> QED  BY <2>1, <2>4, <3>1, StepFacts DEF Aside, op
  <2> QED  BY <1>1, <2>2, <2>3, <2>4
<1>3. StepsAside
  BY <1>2 DEF StepsAside
<1> QED  BY <1>1, <1>2, <1>3, AsideStep DEF FilesInv, TypeInv

LEMMA DeleteBeginStep ==
  ASSUME FilesInv, NEW c \in Requests, NEW a \in Artifacts, DeleteBegin(c, a)
  PROVE  FilesInv'
<1> DEFINE op == [pc |-> "unlink", ids |-> {a}, all |-> FALSE]
<1>1. /\ ops[c].pc = "idle" /\ a \in ToSet(arts) /\ arts' = Without(arts, {a})
      /\ gone' = gone \union {a} /\ Step(c, op) /\ UNCHANGED <<files, used, ended>>
  BY DEF DeleteBegin, At
<1>2. op \in OpType /\ op.pc = "unlink" /\ op.ids = {a} /\ c \in Clients
  BY DEF OpType, Places, Items, Clients
<1> HIDE DEF op
<1>3. ops' \in [Clients -> OpType] /\ ops'[c] = op /\ \A d \in Clients : d # c => ops'[d] = ops[d]
  BY <1>1, <1>2, StepFacts DEF FilesInv, TypeInv
<1>4. /\ arts' \in Seq(Artifacts) /\ ToSet(arts') = ToSet(arts) \ {a} /\ Once(arts')
  BY <1>1, WithoutFacts DEF FilesInv, TypeInv, ListInv
<1>5. TypeInv'
  BY <1>1, <1>3, <1>4 DEF FilesInv, TypeInv
<1>6. ListInv'
  BY <1>1, <1>4 DEF FilesInv, ListInv
<1>7. \A d \in Clients : Publishing(d)' => Publishing(d) /\ ops'[d] = ops[d]
  BY <1>2, <1>3 DEF Publishing
<1>8. PublisherInv'
  <2>1. \A d \in Clients : Publishing(d) => a \notin ops[d].ids
    BY <1>1 DEF FilesInv, PublisherInv
  <2> SUFFICES ASSUME NEW d \in Clients, Publishing(d), ops'[d] = ops[d]
               PROVE  /\ d \in Cli
                      /\ \E b \in Artifacts : ops'[d].ids = {b}
                      /\ \A b \in ops'[d].ids :
                           /\ b \in used' /\ b \notin ToSet(arts') /\ b \notin gone'
                           /\ ops'[d].pc = "record" => files'[b] = "full"
                      /\ \A e \in Clients : Publishing(e)' /\ e # d => ops'[e].ids # ops'[d].ids
    BY <1>7 DEF PublisherInv
  <2>2. /\ d \in Cli /\ \E b \in Artifacts : ops[d].ids = {b}
        /\ \A b \in ops[d].ids :
             /\ b \in used /\ b \notin ToSet(arts) /\ b \notin gone
             /\ ops[d].pc = "record" => files[b] = "full"
    BY DEF FilesInv, PublisherInv
  <2>3. \A e \in Clients : Publishing(e)' /\ e # d => ops'[e].ids # ops'[d].ids
    BY <1>7 DEF FilesInv, PublisherInv
  <2> QED  BY <2>1, <2>2, <2>3, <1>1, <1>4
<1>9. UnlinkInv'
  BY <1>1, <1>2, <1>3 DEF FilesInv, UnlinkInv, ListInv
<1>10. OpenInv'
  <2>1. \A b \in Artifacts : Readable(b) => Readable(b)'
    BY <1>1, <1>7 DEF Readable
  <2> QED  BY <1>2, <1>3, <2>1 DEF FilesInv, OpenInv
<1> QED  BY <1>5, <1>6, <1>8, <1>9, <1>10 DEF FilesInv

LEMMA DeleteFilesStep ==
  ASSUME FilesInv, NEW c \in Requests, DeleteFiles(c)
  PROVE  FilesInv'
<1> DEFINE a == Named(c)
<1>1. /\ ops[c].pc = "unlink" /\ c \in Clients /\ files' = [files EXCEPT ![a] = "none"]
      /\ Go(c, "forget") /\ UNCHANGED <<arts, used, ended, gone>>
  BY DEF DeleteFiles, At, Clients, bookVars
<1>2. a \in Artifacts /\ ops[c].ids = {a} /\ a \in gone /\ a \in used
  <2>1. PICK b \in Artifacts : ops[c].ids = {b} /\ b \in gone /\ b \in used
    BY <1>1 DEF FilesInv, UnlinkInv
  <2>2. Named(c) = b
    BY <2>1 DEF Named
  <2> QED  BY <2>1, <2>2
<1> HIDE DEF a
<1>3. /\ ops' \in [Clients -> OpType] /\ ops'[c].pc = "forget" /\ ops'[c].ids = ops[c].ids
      /\ \A d \in Clients : d # c => ops'[d] = ops[d]
  <2>1. "forget" \in Places
    BY DEF Places
  <2> QED  BY <1>1, <2>1, GoFacts DEF FilesInv, TypeInv
<1>4. /\ files' \in [Artifacts -> {"none", "partial", "full"}] /\ files'[a] = "none"
      /\ \A b \in Artifacts : b # a => files'[b] = files[b]
  BY <1>1, <1>2 DEF FilesInv, TypeInv
<1>5. TypeInv'
  BY <1>1, <1>3, <1>4 DEF FilesInv, TypeInv
<1>6. ListInv'
  <2>1. \A b \in ToSet(arts) : b # a /\ b \in Artifacts
    BY <1>2 DEF FilesInv, ListInv, TypeInv, ToSet
  <2> QED  BY <1>1, <1>4, <2>1 DEF FilesInv, ListInv
<1>7. \A d \in Clients : Publishing(d)' => Publishing(d) /\ ops'[d] = ops[d]
  BY <1>1, <1>3 DEF Publishing
<1>8. PublisherInv'
  <2>1. \A d \in Clients : Publishing(d) => \A b \in ops[d].ids : b \in Artifacts /\ b # a
    <3> SUFFICES ASSUME NEW d \in Clients, Publishing(d), NEW b \in ops[d].ids
                 PROVE  b \in Artifacts /\ b # a
      OBVIOUS
    <3>1. b \notin gone /\ \E x \in Artifacts : ops[d].ids = {x}
      BY DEF FilesInv, PublisherInv
    <3> QED  BY <3>1, <1>2
  <2> SUFFICES ASSUME NEW d \in Clients, Publishing(d), ops'[d] = ops[d]
               PROVE  /\ d \in Cli
                      /\ \E b \in Artifacts : ops'[d].ids = {b}
                      /\ \A b \in ops'[d].ids :
                           /\ b \in used' /\ b \notin ToSet(arts') /\ b \notin gone'
                           /\ ops'[d].pc = "record" => files'[b] = "full"
                      /\ \A e \in Clients : Publishing(e)' /\ e # d => ops'[e].ids # ops'[d].ids
    BY <1>7 DEF PublisherInv
  <2>2. /\ d \in Cli /\ \E b \in Artifacts : ops[d].ids = {b}
        /\ \A b \in ops[d].ids :
             /\ b \in used /\ b \notin ToSet(arts) /\ b \notin gone
             /\ ops[d].pc = "record" => files[b] = "full"
    BY DEF FilesInv, PublisherInv
  <2>3. \A e \in Clients : Publishing(e)' /\ e # d => ops'[e].ids # ops'[d].ids
    BY <1>7 DEF FilesInv, PublisherInv
  <2> QED  BY <2>1, <2>2, <2>3, <1>1, <1>4
<1>9. UnlinkInv'
  <2>1. \A d \in Clients : ops'[d].pc \in {"unlink", "forget"}
                           => ops[d].pc \in {"unlink", "forget"} /\ ops'[d].ids = ops[d].ids
    BY <1>1, <1>3
  <2> QED  BY <1>1, <2>1 DEF FilesInv, UnlinkInv
<1>10. OpenInv'
  <2>1. \A b \in Artifacts : Readable(b) => Readable(b)'
    BY <1>1, <1>2, <1>4, <1>7 DEF Readable
  <2> QED  BY <1>3, <2>1 DEF FilesInv, OpenInv
<1> QED  BY <1>5, <1>6, <1>8, <1>9, <1>10 DEF FilesInv

LEMMA OpenFindStep ==
  ASSUME FilesInv, NEW c \in Requests, NEW a \in Artifacts, OpenFind(c, a)
  PROVE  FilesInv'
<1> DEFINE op == [pc |-> "open", ids |-> {a}, all |-> FALSE]
<1>1. /\ a \in ToSet(arts) /\ Step(c, op) /\ UNCHANGED <<arts, files, used, ended, gone>>
  BY DEF OpenFind, bookVars
<1>2. op \in OpType /\ op.pc = "open" /\ op.ids = {a} /\ c \in Clients
  BY DEF OpType, Places, Items, Clients
<1> HIDE DEF op
<1>3. ops' \in [Clients -> OpType] /\ ops'[c] = op /\ \A d \in Clients : d # c => ops'[d] = ops[d]
  BY <1>1, <1>2, StepFacts DEF FilesInv, TypeInv
<1>4. TypeInv' /\ ListInv'
  BY <1>1, <1>3 DEF FilesInv, TypeInv, ListInv
<1>5. \A d \in Clients : Publishing(d)' => Publishing(d) /\ ops'[d] = ops[d]
  BY <1>2, <1>3 DEF Publishing
<1>6. PublisherInv'
  BY <1>1, <1>5 DEF FilesInv, PublisherInv
<1>7. UnlinkInv'
  BY <1>1, <1>2, <1>3 DEF FilesInv, UnlinkInv
<1>8. \A b \in Artifacts : Readable(b) => Readable(b)'
  BY <1>1, <1>5 DEF Readable
<1>9. Readable(a)
  <2>1. \A d \in Clients : Publishing(d) => a \notin ops[d].ids
    BY <1>1 DEF FilesInv, PublisherInv
  <2> QED  BY <1>1, <2>1 DEF FilesInv, ListInv, Readable
<1>10. OpenInv'
  BY <1>2, <1>3, <1>8, <1>9 DEF FilesInv, OpenInv
<1> QED  BY <1>4, <1>6, <1>7, <1>10 DEF FilesInv

LEMMA FilesInvStep == FilesInv /\ [Next]_vars => FilesInv'
<1> SUFFICES ASSUME FilesInv, [Next]_vars PROVE FilesInv'
  OBVIOUS
<1>1. ops \in [Clients -> OpType] /\ used \subseteq Items /\ ended \subseteq Items
  BY DEF FilesInv, TypeInv
<1>2. CASE UNCHANGED <<arts, files, gone, ops>> /\ used \subseteq used' /\ used' \subseteq Items
           /\ ended' \subseteq Items
  BY <1>1, <1>2, AsideStep DEF StepsAside
<1>3. CASE UNCHANGED vars
  BY <1>1, <1>2, <1>3 DEF vars
<1>4. CASE Loop
  BY <1>1, <1>2, <1>4 DEF Loop, LoopLook, LoopTake, LoopSend, LoopOutbox, bookVars
<1>5. CASE Sending
  BY <1>1, <1>2, <1>5 DEF Sending, SenderStep
<1>6. CASE Publish
  <2>1. \A c \in Cli : c \in Clients
    BY DEF Clients
  <2> QED  BY <1>6, <2>1, PublishBeginStep, PublishCopyStep, PublishRecordStep, QuietClientStep
           DEF Publish
<1>7. CASE Request
  <2>1. \A c \in Requests : c \in Clients
    BY DEF Clients
  <2> QED  BY <1>7, <2>1, DeleteBeginStep, DeleteFilesStep, OpenFindStep, QuietClientStep
           DEF Request, Handle
<1>8. CASE \E m \in Messages : QueueNotification(m)
  BY <1>1, <1>2, <1>8 DEF QueueNotification, Items, bookVars
<1>9. CASE \E r \in Runs : RunEnds(r)
  BY <1>1, <1>2, <1>9 DEF RunEnds, Items, bookVars
<1>10. CASE ReadNotification \/ SwitchNotifications \/ OutboxAges \/ OutboxDamaged \/ Restart
  BY <1>1, <1>2, <1>10 DEF ReadNotification, SwitchNotifications, OutboxAges, OutboxDamaged,
                          Restart, bookVars
<1>11. CASE Crash
  <2>1. ops' = [c \in Clients |-> IF c \in Requests THEN Idle ELSE ops[c]]
    BY <1>11 DEF Crash
  <2>2. ops' \in [Clients -> OpType] /\ StepsAside
    BY <1>1, <2>1, IdleIsOp DEF StepsAside, Aside
  <2> QED  BY <1>1, <1>11, <2>2, AsideStep DEF Crash
<1> QED  BY <1>3, <1>4, <1>5, <1>6, <1>7, <1>8, <1>9, <1>10, <1>11 DEF Next

\* What the list of artifacts shows can be opened, and what is being opened is
\* whole or gone: a copy is complete before it is listed, nobody else knows its
\* name until then, and it is off the list before its files go.
THEOREM ListedIsWhole == Spec => []ListedCanBeOpened
<1>1. Init => FilesInv
  BY InitFiles
<1>2. FilesInv /\ [Next]_vars => FilesInv'
  BY FilesInvStep
<1>3. FilesInv => ListedCanBeOpened
  <2>1. ASSUME FilesInv, NEW c \in Requests, ops[c].pc = "open", NEW a \in ops[c].ids
        PROVE  files[a] # "partial"
    <3>1. PICK b \in Artifacts : ops[c].ids = {b} /\ Readable(b)
      BY <2>1 DEF FilesInv, OpenInv, Clients
    <3> QED  BY <2>1, <3>1 DEF Readable
  <2> QED  BY <2>1 DEF FilesInv, ListInv, ListedCanBeOpened, At
<1> QED  BY <1>1, <1>2, <1>3, PTL DEF Spec

-----------------------------------------------------------------------------
(* What is announced.                                                      *)

Others == Runs \union Messages

SentType ==
  /\ state \in [notified : SUBSET Artifacts, read : SUBSET Items, primed : BOOLEAN]
  /\ loop \in LoopType /\ muted \in BOOLEAN
  /\ outbox \in Seq(Messages) /\ senders \subseteq Seq(Others) \ {<<>>}
  /\ sent \in [Items -> Nat] /\ quiet \subseteq Artifacts

\* An artifact that was announced, is to be, or is to stay unannounced has been
\* recorded, and each of these excludes the others.
ArtifactsInv ==
  /\ Once(loop.seen) /\ Once(loop.left)
  /\ \A a \in Artifacts \ gone :
       /\ a \notin state.notified => sent[a] = 0
       /\ sent[a] <= 1
       /\ a \in ToSet(loop.left) => a \in state.notified /\ sent[a] = 0
       /\ a \in quiet => a \in state.notified /\ sent[a] = 0 /\ a \notin ToSet(loop.left)

\* A message or an outcome that was announced is in no queue, and none is in
\* two, or in one twice.
QueuesInv ==
  /\ Once(outbox) /\ ToSet(outbox) \subseteq used
  /\ \A s \in senders :
       /\ Once(s) /\ ToSet(s) \subseteq used
       /\ ToSet(s) \intersect ToSet(outbox) = {}
       /\ \A t \in senders : s # t => ToSet(s) \intersect ToSet(t) = {}
  /\ \A i \in Others :
       /\ sent[i] <= 1
       /\ i \notin used => sent[i] = 0
       /\ i \in ToSet(outbox) => sent[i] = 0
       /\ \A s \in senders : i \in ToSet(s) => sent[i] = 0

SentInv == SentType /\ ArtifactsInv /\ QueuesInv

LEMMA InitSent == Init => SentInv
<1> SUFFICES ASSUME Init PROVE SentInv
  OBVIOUS
<1>1. /\ state = [notified |-> {}, read |-> {}, primed |-> FALSE]
      /\ outbox = <<>> /\ senders = {} /\ loop = AtRest /\ quiet = {}
      /\ sent = [i \in Items |-> 0] /\ muted \in BOOLEAN
  BY DEF Init, InitWith
<1>2. loop \in LoopType /\ loop.seen = <<>> /\ loop.left = <<>>
  BY <1>1 DEF AtRest, LoopType
<1>3. SentType
  BY <1>1, <1>2 DEF SentType
<1>4. Once(<<>>) /\ ToSet(<<>>) = {}
  BY DEF Once, ToSet
<1>5. ArtifactsInv
  BY <1>1, <1>2, <1>4 DEF ArtifactsInv, Items
<1>6. QueuesInv
  BY <1>1, <1>4 DEF QueuesInv, Others, Items
<1> QED  BY <1>3, <1>5, <1>6 DEF SentInv

LEMMA RestFacts ==
  /\ AtRest \in LoopType /\ AtRest.seen = <<>> /\ AtRest.left = <<>>
  /\ Once(<<>>) /\ ToSet(<<>>) = {}
  BY DEF AtRest, LoopType, Once, ToSet

\* The artifacts hear nothing of a step that leaves the record and their counts
\* alone, and lets the loop be or sends it to rest.
LEMMA ArtifactsKept ==
  ASSUME SentInv, state'.notified = state.notified, quiet' = quiet, gone \subseteq gone',
         \A a \in Artifacts : sent'[a] = sent[a],
         \/ loop' = AtRest
         \/ loop'.seen = loop.seen /\ loop'.left = loop.left
  PROVE  ArtifactsInv'
<1>1. /\ Once(loop'.seen) /\ Once(loop'.left)
      /\ ToSet(loop'.left) = ToSet(loop.left) \/ ToSet(loop'.left) = {}
  BY RestFacts DEF SentInv, ArtifactsInv
<1> QED  BY <1>1 DEF SentInv, ArtifactsInv

\* The messages and outcomes hear nothing of a step that leaves the queues alone.
LEMMA QueuesKept ==
  ASSUME SentInv, outbox' = outbox, senders' = senders, used \subseteq used',
         \A i \in Others : sent'[i] = sent[i]
  PROVE  QueuesInv'
  BY DEF SentInv, QueuesInv

LEMMA LoopLookSent ==
  ASSUME FilesInv, SentInv, LoopLook
  PROVE  SentInv'
<1> DEFINE new == [loop EXCEPT !.pc = "take", !.muted = muted, !.seen = arts]
<1>1. loop' = new /\ UNCHANGED <<state, outbox, senders, sent, quiet, gone, used, muted>>
  BY DEF LoopLook, bookVars
<1>2. loop \in LoopType /\ arts \in Seq(Artifacts) /\ Once(arts) /\ muted \in BOOLEAN
  BY DEF FilesInv, TypeInv, ListInv, SentInv, SentType
<1>3. new.seen = arts /\ new.left = loop.left /\ new \in LoopType
  BY <1>2 DEF LoopType
<1> HIDE DEF new
<1>4. SentType'
  BY <1>1, <1>3 DEF SentInv, SentType
<1>5. ArtifactsInv'
  BY <1>1, <1>2, <1>3 DEF SentInv, ArtifactsInv
<1>6. QueuesInv'
  BY <1>1, QueuesKept
<1> QED  BY <1>4, <1>5, <1>6 DEF SentInv

LEMMA LoopTakeSent ==
  ASSUME FilesInv, SentInv, LoopTake
  PROVE  SentInv'
<1> DEFINE loud   == state.primed /\ ~loop.muted
           told   == state.notified \union ToSet(loop.seen)
           newS   == [state EXCEPT !.primed = TRUE, !.notified = told]
           left   == IF loud THEN Unnotified ELSE <<>>
           newL   == [AtRest EXCEPT !.pc = "send", !.left = left]
<1>1. /\ state' = newS /\ loop' = newL
      /\ quiet' = IF loud THEN quiet ELSE quiet \union ToSet(Unnotified)
      /\ UNCHANGED <<outbox, senders, sent, gone, used, muted>>
  BY DEF LoopTake
<1>2. /\ state \in [notified : SUBSET Artifacts, read : SUBSET Items, primed : BOOLEAN]
      /\ loop.seen \in Seq(Artifacts) /\ Once(loop.seen)
  BY DEF SentInv, SentType, LoopType, ArtifactsInv
<1>3. /\ Unnotified \in Seq(Artifacts) /\ Once(Unnotified)
      /\ ToSet(Unnotified) = ToSet(loop.seen) \ state.notified
  BY <1>2, WithoutFacts DEF Unnotified
<1>4. ToSet(loop.seen) \subseteq Artifacts
  BY <1>2 DEF ToSet
<1>5. /\ newS \in [notified : SUBSET Artifacts, read : SUBSET Items, primed : BOOLEAN]
      /\ newS.notified = told
  BY <1>2, <1>4
<1>6. left \in Seq(Artifacts) /\ Once(left)
  BY <1>3, RestFacts
<1>7. ToSet(left) = IF loud THEN ToSet(Unnotified) ELSE {}
  BY RestFacts
<1>8. newL \in LoopType /\ newL.left = left /\ newL.seen = <<>>
  <2> HIDE DEF left
  <2>1. newL \in LoopType
    BY <1>6, RestFacts DEF LoopType
  <2>2. newL.left = left
    BY RestFacts DEF LoopType
  <2>3. newL.seen = <<>>
    BY RestFacts DEF LoopType
  <2> QED  BY <2>1, <2>2, <2>3
<1>9. quiet' \subseteq Artifacts
  BY <1>1, <1>3, <1>4 DEF SentInv, SentType
<1> HIDE DEF newS, newL, left
<1>10. SentType'
  BY <1>1, <1>5, <1>8, <1>9 DEF SentInv, SentType
<1>11. ArtifactsInv'
  <2>1. Once(loop'.seen) /\ Once(loop'.left)
    BY <1>1, <1>6, <1>8, RestFacts
  <2> SUFFICES ASSUME NEW a \in Artifacts \ gone
               PROVE  /\ a \notin state'.notified => sent'[a] = 0
                      /\ sent'[a] <= 1
                      /\ a \in ToSet(loop'.left) => a \in state'.notified /\ sent'[a] = 0
                      /\ a \in quiet' => /\ a \in state'.notified /\ sent'[a] = 0
                                         /\ a \notin ToSet(loop'.left)
    BY <2>1, <1>1 DEF ArtifactsInv
  <2>2. /\ a \notin state.notified => sent[a] = 0
        /\ sent[a] <= 1
        /\ a \in quiet => a \in state.notified /\ sent[a] = 0
    BY DEF SentInv, ArtifactsInv
  <2>3. state'.notified = told /\ loop'.left = left /\ sent' = sent
    BY <1>1, <1>5, <1>8
  <2>4. CASE loud
    BY <2>2, <2>3, <2>4, <1>1, <1>3, <1>7
  <2>5. CASE ~loud
    BY <2>2, <2>3, <2>5, <1>1, <1>3, <1>7
  <2> QED  BY <2>4, <2>5
<1>12. QueuesInv'
  BY <1>1, QueuesKept
<1> QED  BY <1>10, <1>11, <1>12 DEF SentInv

LEMMA SendFacts ==
  ASSUME SentInv, NEW i \in Items, Send(i)
  PROVE  /\ sent' \in [Items -> Nat] /\ sent'[i] = sent[i] + 1
         /\ \A j \in Items : j # i => sent'[j] = sent[j]
  BY DEF Send, SentInv, SentType

LEMMA LoopSendSent ==
  ASSUME SentInv, LoopSend
  PROVE  SentInv'
<1>1. UNCHANGED <<state, outbox, senders, quiet, gone, used, muted>>
  BY DEF LoopSend
<1>2. loop \in LoopType
  BY DEF SentInv, SentType
<1>3. CASE loop.left = <<>>
  <2> DEFINE new == [loop EXCEPT !.pc = "outbox"]
  <2>1. loop' = new /\ sent' = sent
    BY <1>3 DEF LoopSend
  <2>2. new \in LoopType /\ new.left = loop.left /\ new.seen = loop.seen
    BY <1>2 DEF LoopType
  <2> HIDE DEF new
  <2>3. SentType'
    BY <1>1, <2>1, <2>2 DEF SentInv, SentType
  <2> QED  BY <1>1, <2>1, <2>2, <2>3, ArtifactsKept, QueuesKept DEF SentInv
<1>4. CASE loop.left # <<>>
  <2> DEFINE a   == Head(loop.left)
             new == [loop EXCEPT !.left = Tail(@)]
  <2>1. loop' = new /\ Send(a)
    BY <1>4 DEF LoopSend
  <2>2. loop.left \in Seq(Artifacts) /\ Once(loop.left)
    BY <1>2 DEF SentInv, ArtifactsInv, LoopType
  <2>3. /\ a \in Artifacts /\ Tail(loop.left) \in Seq(Artifacts)
        /\ ToSet(loop.left) = {a} \union ToSet(Tail(loop.left))
        /\ Once(Tail(loop.left)) /\ a \notin ToSet(Tail(loop.left))
    BY <1>4, <2>2, TailFacts
  <2>4. new \in LoopType /\ new.left = Tail(loop.left) /\ new.seen = loop.seen
    BY <1>2, <2>3 DEF LoopType
  <2> HIDE DEF new, a
  <2>5. /\ sent' \in [Items -> Nat] /\ sent'[a] = sent[a] + 1
        /\ \A j \in Items : j # a => sent'[j] = sent[j]
    BY <2>1, <2>3, SendFacts DEF Items
  <2>6. SentType'
    BY <1>1, <2>1, <2>4, <2>5 DEF SentInv, SentType
  <2>7. QueuesInv'
    <3>1. \A i \in Others : i \in Items /\ i # a
      BY <2>3, AnnounceAssumption DEF Others, Items
    <3> QED  BY <1>1, <2>5, <3>1, QueuesKept
  <2>8. ArtifactsInv'
    <3>1. Once(loop'.seen) /\ Once(loop'.left)
      BY <2>1, <2>3, <2>4 DEF SentInv, ArtifactsInv
    <3> SUFFICES ASSUME NEW b \in Artifacts \ gone
                 PROVE  /\ b \notin state.notified => sent'[b] = 0
                        /\ sent'[b] <= 1
                        /\ b \in ToSet(loop'.left) => b \in state.notified /\ sent'[b] = 0
                        /\ b \in quiet => /\ b \in state.notified /\ sent'[b] = 0
                                          /\ b \notin ToSet(loop'.left)
      BY <3>1, <1>1 DEF ArtifactsInv
    <3>2. /\ b \notin state.notified => sent[b] = 0
          /\ sent[b] <= 1
          /\ b \in ToSet(loop.left) => b \in state.notified /\ sent[b] = 0
          /\ b \in quiet => b \in state.notified /\ sent[b] = 0 /\ b \notin ToSet(loop.left)
      BY DEF SentInv, ArtifactsInv
    <3>3. loop'.left = Tail(loop.left) /\ b \in Items
      BY <2>1, <2>4 DEF Items
    <3>4. CASE b = a
      BY <2>3, <2>5, <3>2, <3>3, <3>4
    <3>5. CASE b # a
      BY <2>3, <2>5, <3>2, <3>3, <3>5
    <3> QED  BY <3>4, <3>5
  <2> QED  BY <2>6, <2>7, <2>8 DEF SentInv
<1> QED  BY <1>3, <1>4

\* What leaves the outbox becomes a queue of its own.
LEMMA LoopOutboxSent ==
  ASSUME SentInv, LoopOutbox
  PROVE  SentInv'
<1> DEFINE fresh == Without(outbox, stale)
<1>1. /\ \/ senders' = senders
         \/ fresh # <<>> /\ senders' = senders \union {fresh}
      /\ outbox' = <<>> /\ loop' = AtRest
      /\ UNCHANGED <<state, sent, quiet, gone, used, muted>>
  BY DEF LoopOutbox, bookVars
<1>2. outbox \in Seq(Messages) /\ Once(outbox)
  BY DEF SentInv, SentType, QueuesInv
<1>3. fresh \in Seq(Messages) /\ Once(fresh) /\ ToSet(fresh) \subseteq ToSet(outbox)
  BY <1>2, WithoutFacts
<1> HIDE DEF fresh
<1>4. fresh \in Seq(Others)
  BY <1>3 DEF Others
<1>5. SentType'
  BY <1>1, <1>4, RestFacts DEF SentInv, SentType
<1>6. ArtifactsInv'
  BY <1>1, ArtifactsKept
<1>7. QueuesInv'
  <2>1. Once(outbox') /\ ToSet(outbox') = {}
    BY <1>1, RestFacts
  <2>2. \A s \in senders' : Once(s) /\ ToSet(s) \subseteq used
    BY <1>1, <1>3 DEF SentInv, QueuesInv
  <2>3. \A s, t \in senders' : s # t => ToSet(s) \intersect ToSet(t) = {}
    <3>1. \A s \in senders : ToSet(s) \intersect ToSet(fresh) = {}
      BY <1>3 DEF SentInv, QueuesInv
    <3>2. \A s, t \in senders : s # t => ToSet(s) \intersect ToSet(t) = {}
      BY DEF SentInv, QueuesInv
    <3> QED  BY <1>1, <3>1, <3>2
  <2>4. ASSUME NEW i \in Others
        PROVE  /\ sent[i] <= 1
               /\ i \notin used => sent[i] = 0
               /\ \A s \in senders' : i \in ToSet(s) => sent[i] = 0
    BY <1>1, <1>3 DEF SentInv, QueuesInv
  <2> QED  BY <1>1, <2>1, <2>2, <2>3, <2>4 DEF QueuesInv
<1> QED  BY <1>5, <1>6, <1>7 DEF SentInv

LEMMA SenderSent ==
  ASSUME SentInv, NEW s \in senders, SenderStep(s)
  PROVE  SentInv'
<1> DEFINE i == Head(s)
<1>1. /\ Send(i) /\ senders' = (senders \ {s}) \union (IF Len(s) = 1 THEN {} ELSE {Tail(s)})
      /\ UNCHANGED <<state, loop, outbox, quiet, gone, used, muted>>
  BY DEF SenderStep
<1>2. /\ s \in Seq(Others) /\ s # <<>> /\ Once(s) /\ ToSet(s) \subseteq used
      /\ ToSet(s) \intersect ToSet(outbox) = {}
  BY DEF SentInv, SentType, QueuesInv
<1>3. /\ i \in Others /\ Tail(s) \in Seq(Others)
      /\ ToSet(s) = {i} \union ToSet(Tail(s))
      /\ Once(Tail(s)) /\ i \notin ToSet(Tail(s))
  BY <1>2, TailFacts
<1>4. Len(s) # 1 => Tail(s) # <<>>
  <2>1. Len(s) \in Nat /\ Len(Tail(s)) = Len(s) - 1
    BY <1>2
  <2>2. Tail(s) = <<>> => Len(Tail(s)) = Len(<<>>)
    BY Zenon
  <2>3. Len(<<>>) = 0
    OBVIOUS
  <2> QED  BY <2>1, <2>2, <2>3
<1>5. i \in Items /\ i \notin Artifacts
  BY <1>3, AnnounceAssumption DEF Others, Items
<1>6. sent[i] = 0
  BY <1>3 DEF SentInv, QueuesInv
<1> HIDE DEF i
<1>7. /\ sent' \in [Items -> Nat] /\ sent'[i] = 1
      /\ \A j \in Items : j # i => sent'[j] = sent[j]
  BY <1>1, <1>5, <1>6, SendFacts
<1>8. SentType'
  BY <1>1, <1>3, <1>4, <1>7 DEF SentInv, SentType
<1>9. ArtifactsInv'
  <2>1. \A a \in Artifacts : sent'[a] = sent[a]
    BY <1>5, <1>7 DEF Items
  <2> QED  BY <1>1, <2>1, ArtifactsKept
<1>10. \A t \in senders' : (t \in senders /\ t # s) \/ t = Tail(s)
  BY <1>1
<1>11. \A t \in senders : t # s => ToSet(t) \intersect ToSet(s) = {}
  BY DEF SentInv, QueuesInv
<1>12. QueuesInv'
  <2>1. \A t \in senders' : /\ Once(t) /\ ToSet(t) \subseteq used
                            /\ ToSet(t) \intersect ToSet(outbox) = {}
    BY <1>2, <1>3, <1>10 DEF SentInv, QueuesInv
  <2>2. \A t, u \in senders' : t # u => ToSet(t) \intersect ToSet(u) = {}
    <3>1. \A t, u \in senders : t # u => ToSet(t) \intersect ToSet(u) = {}
      BY DEF SentInv, QueuesInv
    <3> QED  BY <1>3, <1>10, <1>11, <3>1
  <2>3. \A t \in senders' : i \notin ToSet(t)
    BY <1>3, <1>10, <1>11
  <2>4. i \notin ToSet(outbox) /\ i \in used
    BY <1>2, <1>3
  <2>5. ASSUME NEW j \in Others
        PROVE  /\ sent'[j] <= 1
               /\ j \notin used => sent'[j] = 0
               /\ j \in ToSet(outbox) => sent'[j] = 0
               /\ \A t \in senders' : j \in ToSet(t) => sent'[j] = 0
    <3>1. CASE j = i
      BY <3>1, <1>7, <2>3, <2>4
    <3>2. CASE j # i
      <4>1. sent'[j] = sent[j]
        BY <3>2, <1>7 DEF Others, Items
      <4>2. \A t \in senders' : j \in ToSet(t) => sent[j] = 0
        BY <1>3, <1>10 DEF SentInv, QueuesInv
      <4> QED  BY <4>1, <4>2 DEF SentInv, QueuesInv
    <3> QED  BY <3>1, <3>2
  <2>6. Once(outbox) /\ ToSet(outbox) \subseteq used
    BY DEF SentInv, QueuesInv
  <2> QED  BY <1>1, <2>1, <2>2, <2>5, <2>6 DEF QueuesInv
<1> QED  BY <1>8, <1>9, <1>12 DEF SentInv

LEMMA QueueNotificationSent ==
  ASSUME SentInv, NEW m \in Messages, QueueNotification(m)
  PROVE  SentInv'
<1>1. /\ m \notin used /\ used' = used \union {m} /\ outbox' = Append(outbox, m)
      /\ UNCHANGED <<state, loop, senders, sent, quiet, gone, muted>>
  BY DEF QueueNotification, bookVars, daemonVars
<1>2. /\ outbox \in Seq(Messages) /\ Once(outbox) /\ ToSet(outbox) \subseteq used
      /\ m \in Others
  BY DEF SentInv, SentType, QueuesInv, Others
<1>3. /\ outbox' \in Seq(Messages) /\ Once(outbox')
      /\ ToSet(outbox') = ToSet(outbox) \union {m}
  <2>1. /\ Append(outbox, m) \in Seq(Messages)
        /\ ToSet(Append(outbox, m)) = ToSet(outbox) \union {m}
        /\ Once(outbox) /\ m \notin ToSet(outbox) => Once(Append(outbox, m))
    BY <1>2, AppendedOne
  <2> QED  BY <1>1, <1>2, <2>1
<1>4. SentType'
  BY <1>1, <1>3 DEF SentInv, SentType
<1>5. ArtifactsInv'
  BY <1>1, ArtifactsKept
<1>6. QueuesInv'
  <2>1. \A s \in senders : m \notin ToSet(s)
    BY <1>1 DEF SentInv, QueuesInv
  <2>2. sent[m] = 0
    BY <1>1, <1>2 DEF SentInv, QueuesInv
  <2>3. \A s \in senders : /\ Once(s) /\ ToSet(s) \subseteq used'
                           /\ ToSet(s) \intersect ToSet(outbox') = {}
                           /\ \A t \in senders : s # t => ToSet(s) \intersect ToSet(t) = {}
    BY <1>1, <1>3, <2>1 DEF SentInv, QueuesInv
  <2>4. ASSUME NEW i \in Others
        PROVE  /\ sent[i] <= 1
               /\ i \notin used' => sent[i] = 0
               /\ i \in ToSet(outbox') => sent[i] = 0
               /\ \A s \in senders : i \in ToSet(s) => sent[i] = 0
    BY <1>1, <1>3, <2>2 DEF SentInv, QueuesInv
  <2> QED  BY <1>1, <1>2, <1>3, <2>3, <2>4 DEF QueuesInv
<1> QED  BY <1>4, <1>5, <1>6 DEF SentInv

LEMMA RunEndsSent ==
  ASSUME SentInv, NEW r \in Runs, RunEnds(r)
  PROVE  SentInv'
<1>1. /\ r \notin used /\ used' = used \union {r}
      /\ senders' \in {senders, senders \union {<<r>>}}
      /\ UNCHANGED <<state, loop, outbox, sent, quiet, gone, muted>>
  BY DEF RunEnds, bookVars
<1>2. /\ <<r>> \in Seq(Others) \ {<<>>} /\ Once(<<r>>) /\ ToSet(<<r>>) = {r} /\ r \in Others
  <2>1. r \in Others
    BY DEF Others
  <2>2. Len(<<r>>) = 1 /\ <<r>>[1] = r /\ <<r>> # <<>> /\ <<r>> \in Seq(Others)
    BY <2>1
  <2> QED  BY <2>1, <2>2 DEF Once, ToSet
<1>3. SentType'
  BY <1>1, <1>2 DEF SentInv, SentType
<1>4. ArtifactsInv'
  BY <1>1, ArtifactsKept
<1>5. QueuesInv'
  <2>1. r \notin ToSet(outbox) /\ \A s \in senders : r \notin ToSet(s)
    BY <1>1 DEF SentInv, QueuesInv
  <2>2. sent[r] = 0
    BY <1>1, <1>2 DEF SentInv, QueuesInv
  <2>3. \A s \in senders' : s \in senders \/ s = <<r>>
    BY <1>1
  <2>4. \A s \in senders' : /\ Once(s) /\ ToSet(s) \subseteq used'
                            /\ ToSet(s) \intersect ToSet(outbox) = {}
    BY <1>1, <1>2, <2>1, <2>3 DEF SentInv, QueuesInv
  <2>5. \A s, t \in senders' : s # t => ToSet(s) \intersect ToSet(t) = {}
    <3>1. \A s, t \in senders : s # t => ToSet(s) \intersect ToSet(t) = {}
      BY DEF SentInv, QueuesInv
    <3> QED  BY <1>2, <2>1, <2>3, <3>1
  <2>6. ASSUME NEW i \in Others
        PROVE  /\ sent[i] <= 1
               /\ i \notin used' => sent[i] = 0
               /\ i \in ToSet(outbox) => sent[i] = 0
               /\ \A s \in senders' : i \in ToSet(s) => sent[i] = 0
    BY <1>1, <1>2, <2>2, <2>3 DEF SentInv, QueuesInv
  <2>7. Once(outbox) /\ ToSet(outbox) \subseteq used'
    BY <1>1 DEF SentInv, QueuesInv
  <2> QED  BY <1>1, <2>4, <2>5, <2>6, <2>7 DEF QueuesInv
<1> QED  BY <1>3, <1>4, <1>5 DEF SentInv

LEMMA DeleteBeginSent ==
  ASSUME SentInv, NEW c \in Requests, NEW a \in Artifacts, DeleteBegin(c, a)
  PROVE  SentInv'
<1>1. gone' = gone \union {a} /\ UNCHANGED <<state, loop, outbox, senders, sent, quiet, used, muted>>
  BY DEF DeleteBegin, daemonVars
<1>2. SentType'
  BY <1>1 DEF SentInv, SentType
<1> QED  BY <1>1, <1>2, ArtifactsKept, QueuesKept DEF SentInv

\* The record is only given up for an artifact that is gone.
LEMMA DeleteForgetSent ==
  ASSUME FilesInv, SentInv, NEW c \in Requests, DeleteForget(c)
  PROVE  SentInv'
<1> DEFINE new == [state EXCEPT !.notified = @ \ ops[c].ids, !.read = @ \ ops[c].ids]
<1>1. /\ state' = new /\ ops[c].pc = "forget"
      /\ UNCHANGED <<loop, outbox, senders, sent, quiet, gone, used, muted>>
  BY DEF DeleteForget, At, bookVars, daemonVars
<1>2. /\ new.notified = state.notified \ ops[c].ids
      /\ new \in [notified : SUBSET Artifacts, read : SUBSET Items, primed : BOOLEAN]
  BY DEF SentInv, SentType
<1> HIDE DEF new
<1>3. ops[c].ids \subseteq gone
  BY <1>1 DEF FilesInv, UnlinkInv, Clients
<1>4. SentType'
  BY <1>1, <1>2 DEF SentInv, SentType
<1>5. ArtifactsInv'
  <2>1. \A a \in Artifacts \ gone : a \in state.notified <=> a \in state'.notified
    BY <1>1, <1>2, <1>3
  <2> QED  BY <1>1, <2>1 DEF SentInv, ArtifactsInv
<1> QED  BY <1>1, <1>4, <1>5, QueuesKept DEF SentInv

LEMMA ReadMarkSent ==
  ASSUME FilesInv, SentInv, NEW c \in Requests, ReadMark(c)
  PROVE  SentInv'
<1> DEFINE new == [state EXCEPT !.read = @ \union ops[c].ids]
<1>1. state' = new /\ UNCHANGED <<loop, outbox, senders, sent, quiet, gone, used, muted>>
  BY DEF ReadMark, bookVars, daemonVars
<1>2. ops[c].ids \subseteq Items
  BY DEF FilesInv, TypeInv, OpType, Clients
<1>3. /\ new.notified = state.notified
      /\ new \in [notified : SUBSET Artifacts, read : SUBSET Items, primed : BOOLEAN]
  BY <1>2 DEF SentInv, SentType
<1> HIDE DEF new
<1>4. SentType'
  BY <1>1, <1>3 DEF SentInv, SentType
<1> QED  BY <1>1, <1>3, <1>4, ArtifactsKept, QueuesKept DEF SentInv

\* The daemon forgets what it had still to send.
LEMMA CrashSent ==
  ASSUME SentInv, Crash
  PROVE  SentInv'
<1>1. /\ loop' = AtRest /\ senders' = {}
      /\ UNCHANGED <<state, outbox, sent, quiet, gone, used, muted>>
  BY DEF Crash
<1>2. SentType'
  BY <1>1, RestFacts DEF SentInv, SentType
<1>3. ArtifactsInv'
  BY <1>1, ArtifactsKept
<1>4. QueuesInv'
  BY <1>1 DEF SentInv, QueuesInv
<1> QED  BY <1>2, <1>3, <1>4 DEF SentInv

LEMMA SentInvStep == FilesInv /\ SentInv /\ [Next]_vars => SentInv'
<1> SUFFICES ASSUME FilesInv, SentInv, [Next]_vars PROVE SentInv'
  OBVIOUS
<1>1. CASE /\ UNCHANGED <<state, loop, outbox, senders, sent, quiet, gone>>
           /\ used \subseteq used' /\ muted' \in BOOLEAN
  <2>1. SentType'
    BY <1>1 DEF SentInv, SentType
  <2> QED  BY <1>1, <2>1, ArtifactsKept, QueuesKept DEF SentInv
<1>2. muted \in BOOLEAN
  BY DEF SentInv, SentType
<1>3. CASE UNCHANGED vars
  BY <1>1, <1>2, <1>3 DEF vars
<1>4. CASE Loop
  BY <1>4, LoopLookSent, LoopTakeSent, LoopSendSent, LoopOutboxSent DEF Loop
<1>5. CASE Sending
  BY <1>5, SenderSent DEF Sending
<1>6. CASE Publish
  BY <1>1, <1>2, <1>6 DEF Publish, PublishBegin, PublishCopy, PublishRecord, CliDies,
                          bookVars, daemonVars
<1>7. CASE Request
  <2>1. ASSUME NEW c \in Requests, ReadBegin(c) \/ CarryLook(c) \/ CarryWrite(c) \/ DeleteFiles(c)
                                   \/ OpenServe(c) \/ \E a \in Artifacts : OpenFind(c, a)
        PROVE  SentInv'
    BY <1>1, <1>2, <2>1 DEF ReadBegin, CarryLook, CarryWrite, DeleteFiles, OpenServe, OpenFind,
                            bookVars, daemonVars
  <2> QED  BY <1>7, <2>1, DeleteBeginSent, DeleteForgetSent, ReadMarkSent DEF Request, Handle
<1>8. CASE \E m \in Messages : QueueNotification(m)
  BY <1>8, QueueNotificationSent
<1>9. CASE \E r \in Runs : RunEnds(r)
  BY <1>9, RunEndsSent
<1>10. CASE ReadNotification \/ SwitchNotifications \/ OutboxAges \/ OutboxDamaged \/ Restart
  BY <1>1, <1>2, <1>10 DEF ReadNotification, SwitchNotifications, OutboxAges, OutboxDamaged,
                          Restart, bookVars, daemonVars
<1>11. CASE Crash
  BY <1>11, CrashSent
<1> QED  BY <1>3, <1>4, <1>5, <1>6, <1>7, <1>8, <1>9, <1>10, <1>11 DEF Next

\* An artifact, a message and an outcome are announced at most once, however often
\* the daemon dies and is started again: what is sent has been taken off its
\* queue, or onto the record, before.
THEOREM NothingIsToldTwice == Spec => []AnnouncedOnce
<1>1. Init => FilesInv /\ SentInv
  BY InitFiles, InitSent
<1>2. FilesInv /\ SentInv /\ [Next]_vars => FilesInv' /\ SentInv'
  BY FilesInvStep, SentInvStep
<1>3. SentInv => AnnouncedOnce
  BY DEF SentInv, ArtifactsInv, QueuesInv, AnnouncedOnce, Items, Others
<1> QED  BY <1>1, <1>2, <1>3, PTL DEF Spec

\* What was taken to stay unannounced stays so, whatever the operator switches and
\* deletes and however often the daemon dies.
THEOREM SilenceIsKept == Spec => []QuietStaysQuiet
<1>1. Init => FilesInv /\ SentInv
  BY InitFiles, InitSent
<1>2. FilesInv /\ SentInv /\ [Next]_vars => FilesInv' /\ SentInv'
  BY FilesInvStep, SentInvStep
<1>3. SentInv => QuietStaysQuiet
  BY DEF SentInv, SentType, ArtifactsInv, QuietStaysQuiet
<1> QED  BY <1>1, <1>2, <1>3, PTL DEF Spec

=============================================================================
