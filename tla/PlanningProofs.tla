--------------------------- MODULE PlanningProofs ---------------------------
(***************************************************************************)
(* A pass of the scheduler, for any number of due tasks and whatever the   *)
(* providers allow.                                                        *)
(*                                                                         *)
(* The order of the queue: the scan of the code makes the choice Engine is *)
(* built on, nothing passes an exclusive task that waits, and the reasons  *)
(* the queue shows are the true ones.                                      *)
(*                                                                         *)
(* Where the work goes: how the ranking orders the members of a pool, what *)
(* walking a chain of fallbacks comes to, and, from both, what every task  *)
(* of a pass is promised: a place on the configured chain with a model of  *)
(* the kind asked for, parallel work spread over the members of a pool,    *)
(* and backfill that waits and takes only what is spare.                   *)
(***************************************************************************)
EXTENDS Planning, FiniteSetTheorems, WellFoundedInduction, TLAPS

-----------------------------------------------------------------------------
(* Recursion.                                                              *)

LEMMA LeastNumber ==
  ASSUME NEW S \in SUBSET Nat, S # {}
  PROVE  \E n \in S : \A m \in S : n <= m
<1> DEFINE R == OpToRel(<, Nat)
<1>1. IsWellFoundedOn(R, Nat)
  BY NatLessThanWellFounded
<1>2. PICK n \in S : \A m \in S : ~(<<m, n>> \in R)
  <2> HIDE DEF R
  <2> QED  BY <1>1, WFMin
<1>3. \A m \in S : ~(m < n)
  BY <1>2 DEF OpToRel
<1> QED  BY <1>3

\* What holds of 0 and is handed on holds up to any number.
LEMMA UpTo ==
  ASSUME NEW n \in Nat, NEW S, 0 \in S, \A m \in 1..n : m - 1 \in S => m \in S
  PROVE  0..n \subseteq S
<1> DEFINE Bad == {m \in 0..n : m \notin S}
<1> SUFFICES ASSUME Bad # {} PROVE FALSE
  OBVIOUS
<1>1. Bad \in SUBSET Nat
  OBVIOUS
<1>2. PICK b \in Bad : \A m \in Bad : b <= m
  <2> HIDE DEF Bad
  <2> QED  BY <1>1, LeastNumber
<1>3. b \in 1..n /\ b - 1 \in 0..n /\ b - 1 \notin Bad
  BY <1>2
<1> QED  BY <1>2, <1>3

Stages(n, X) == [1..n -> [X -> X]]
Staged(n, X, b, F) ==
  \E f \in [0..n -> X] : f[0] = b /\ \A m \in 1..n : f[m] = F[m][f[m - 1]]

\* A value of every stage can be had from a first one and a step per stage.
LEMMA Recursion ==
  ASSUME NEW X, NEW b \in X, NEW n \in Nat, NEW F \in Stages(n, X)
  PROVE  Staged(n, X, b, F)
<1> DEFINE Good(i) == \E f \in [0..i -> X] : f[0] = b /\ \A m \in 1..i : f[m] = F[m][f[m - 1]]
           Bad == {i \in 0..n : ~Good(i)}
<1> SUFFICES ASSUME Bad # {} PROVE FALSE
  <2>1. n \in 0..n
    OBVIOUS
  <2>2. Bad = {} => Good(n)
    <3> HIDE DEF Good
    <3> QED  BY <2>1
  <2> QED  BY <2>2 DEF Staged
<1>1. PICK i \in Bad : \A m \in Bad : i <= m
  <2>1. Bad \in SUBSET Nat
    OBVIOUS
  <2> HIDE DEF Bad
  <2> QED  BY <2>1, LeastNumber
<1>2. Good(0)
  <2> DEFINE f == [m \in 0..0 |-> b]
  <2>1. f \in [0..0 -> X] /\ f[0] = b /\ 1..0 = {}
    OBVIOUS
  <2> HIDE DEF f
  <2> QED  BY <2>1
<1>3. i \in 1..n /\ i - 1 \in 0..n /\ i - 1 \notin Bad
  <2> HIDE DEF Good
  <2> QED  BY <1>1, <1>2
<1>4. PICK f \in [0..(i - 1) -> X] :
        f[0] = b /\ \A m \in 1..(i - 1) : f[m] = F[m][f[m - 1]]
  BY <1>3
<1> DEFINE g == [m \in 0..i |-> IF m < i THEN f[m] ELSE F[i][f[i - 1]]]
<1>5. F[i][f[i - 1]] \in X
  BY <1>3, <1>4 DEF Stages
<1>6. g \in [0..i -> X]
  BY <1>3, <1>4, <1>5
<1>7. g[0] = b
  BY <1>3, <1>4
<1>8. ASSUME NEW m \in 1..i PROVE g[m] = F[m][g[m - 1]]
  <2>1. m - 1 \in 0..i /\ m - 1 < i /\ g[m - 1] = f[m - 1]
    BY <1>3
  <2>2. CASE m = i
    BY <2>1, <2>2, <1>3
  <2>3. CASE m # i
    <3>1. m \in 1..(i - 1) /\ m < i
      BY <2>3, <1>3
    <3> QED  BY <3>1, <2>1, <1>4
  <2> QED  BY <2>2, <2>3
<1> HIDE DEF g
<1>9. Good(i)
  BY <1>6, <1>7, <1>8
<1> QED  BY <1>1, <1>9

-----------------------------------------------------------------------------
(* Lists.                                                                  *)

\* No task stands in a list twice.
Once(q) == \A i, j \in 1..Len(q) : q[i] = q[j] => i = j
InList(q) == {q[i] : i \in 1..Len(q)}

LEMMA Alone ==
  ASSUME NEW S, NEW x \in S
  PROVE  <<x>> \in Seq(S) /\ Len(<<x>>) = 1 /\ <<x>>[1] = x
OBVIOUS

LEMMA ListSet == ASSUME NEW S, NEW q \in Seq(S) PROVE ToSet(q) = InList(q)
BY DEF ToSet, InList

LEMMA AppendedOne ==
  ASSUME NEW S, NEW q \in Seq(S), NEW e \in S
  PROVE  /\ Append(q, e) \in Seq(S)
         /\ InList(Append(q, e)) = InList(q) \cup {e}
         /\ Once(q) /\ e \notin InList(q) => Once(Append(q, e))
<1> DEFINE more == Append(q, e)
           n == Len(q)
<1>1. /\ more \in Seq(S) /\ n \in Nat /\ Len(more) = n + 1 /\ more[n + 1] = e
      /\ \A i \in 1..n : more[i] = q[i]
  OBVIOUS
<1>2. 1..(n + 1) = 1..n \cup {n + 1}
  BY <1>1
<1> HIDE DEF more, n
<1>3. InList(more) = {more[i] : i \in 1..n \cup {n + 1}}
  BY <1>1, <1>2 DEF InList
<1>4. InList(q) = {more[i] : i \in 1..n}
  BY <1>1 DEF InList, n
<1>5. InList(more) = InList(q) \cup {e}
  BY <1>1, <1>3, <1>4
<1>6. ASSUME Once(q), e \notin InList(q) PROVE Once(more)
  <2>1. \A i \in 1..n : q[i] # e
    BY <1>6 DEF InList, n
  <2>2. \A i, j \in 1..n : q[i] = q[j] => i = j
    BY <1>6 DEF Once, n
  <2>3. \A i, j \in 1..(n + 1) : more[i] = more[j] => i = j
    BY <1>1, <1>2, <2>1, <2>2
  <2> QED  BY <1>1, <2>3 DEF Once
<1> QED  BY <1>1, <1>5, <1>6 DEF more

\* The stages of Only.
Picks(q, kept, g) ==
  /\ Only(q, kept) = g[Len(q)] /\ g[0] = <<>>
  /\ \A m \in 1..Len(q) : g[m] = IF q[m] \in kept THEN Append(g[m - 1], q[m]) ELSE g[m - 1]

LEMMA OnlyPicks ==
  ASSUME NEW S, NEW q \in Seq(S), NEW kept
  PROVE  \E g : Picks(q, kept, g)
<1> DEFINE n == Len(q)
           F == [m \in 1..n |-> [x \in Seq(S) |-> IF q[m] \in kept THEN Append(x, q[m]) ELSE x]]
           Steps(f) == f = [m \in 0..n |->
                              IF m = 0 THEN <<>>
                              ELSE IF q[m] \in kept THEN Append(f[m - 1], q[m]) ELSE f[m - 1]]
<1>1. n \in Nat /\ F \in Stages(n, Seq(S)) /\ <<>> \in Seq(S)
      /\ \A m \in 1..n : q[m] \in S
  BY DEF Stages
<1>2. PICK f \in [0..n -> Seq(S)] : f[0] = <<>> /\ \A m \in 1..n : f[m] = F[m][f[m - 1]]
  <2> HIDE DEF F, n, Steps
  <2>1. Staged(n, Seq(S), <<>>, F)
    <3>1. n \in Nat
      BY <1>1
    <3>2. F \in Stages(n, Seq(S))
      BY <1>1
    <3>3. <<>> \in Seq(S)
      BY <1>1
    <3> QED  BY <3>1, <3>2, <3>3, Recursion
  <2> QED  BY <2>1 DEF Staged
<1>3. \A m \in 1..n : m - 1 \in 0..n /\ f[m] = IF q[m] \in kept THEN Append(f[m - 1], q[m]) ELSE f[m - 1]
  <2> SUFFICES ASSUME NEW m \in 1..n
               PROVE  m - 1 \in 0..n
                      /\ f[m] = IF q[m] \in kept THEN Append(f[m - 1], q[m]) ELSE f[m - 1]
    OBVIOUS
  <2>1. m - 1 \in 0..n /\ f[m - 1] \in Seq(S)
    <3> HIDE DEF F, n
    <3> QED  BY <1>1, <1>2
  <2> QED  BY <2>1, <1>2
<1>4. Steps(f)
  <2> DEFINE all == [m \in 0..n |->
                       IF m = 0 THEN <<>>
                       ELSE IF q[m] \in kept THEN Append(f[m - 1], q[m]) ELSE f[m - 1]]
  <2>1. ASSUME NEW m \in 0..n PROVE all[m] = f[m]
    <3>1. all[m] = IF m = 0 THEN <<>>
                   ELSE IF q[m] \in kept THEN Append(f[m - 1], q[m]) ELSE f[m - 1]
      OBVIOUS
    <3> HIDE DEF F, n, all
    <3>2. CASE m = 0
      BY <3>1, <3>2, <1>2
    <3>3. CASE m # 0
      <4>1. m \in 1..n
        BY <3>3, <1>1
      <4> QED  BY <4>1, <3>1, <3>3, <1>3
    <3> QED  BY <3>2, <3>3
  <2>2. f = all
    <3>1. f = [m \in 0..n |-> f[m]] /\ all = [m \in 0..n |-> all[m]]
      BY <1>2
    <3> HIDE DEF all, n
    <3> QED  BY <2>1, <3>1
  <2> QED  BY <2>2
<1> DEFINE g == CHOOSE h : Steps(h)
<1>5. Steps(g)
  <2> HIDE DEF Steps
  <2> QED  BY <1>4
<1>6. Only(q, kept) = g[n]
  BY DEF Only
<1> HIDE DEF g
<1>7. g[0] = <<>>
      /\ \A m \in 1..n : g[m] = IF q[m] \in kept THEN Append(g[m - 1], q[m]) ELSE g[m - 1]
  <2> HIDE DEF n
  <2> DEFINE all == [m \in 0..n |->
                       IF m = 0 THEN <<>>
                       ELSE IF q[m] \in kept THEN Append(g[m - 1], q[m]) ELSE g[m - 1]]
  <2>1. g = all
    BY <1>5
  <2>2. \A m \in 0..n : all[m] = IF m = 0 THEN <<>>
                                 ELSE IF q[m] \in kept THEN Append(g[m - 1], q[m]) ELSE g[m - 1]
    OBVIOUS
  <2> HIDE DEF all
  <2> QED  BY <1>1, <2>1, <2>2
<1>8. Picks(q, kept, g)
  BY <1>6, <1>7 DEF Picks
<1> QED  BY <1>8

\* Only leaves out what is not to be kept, and repeats nothing.
LEMMA OnlyFacts ==
  ASSUME NEW S, NEW q \in Seq(S), NEW kept
  PROVE  /\ Only(q, kept) \in Seq(S)
         /\ InList(Only(q, kept)) = InList(q) \cap kept
         /\ Once(q) => Once(Only(q, kept))
<1> DEFINE n == Len(q)
<1>1. n \in Nat /\ <<>> \in Seq(S) /\ \A m \in 1..n : q[m] \in S
  OBVIOUS
<1>2. PICK g : Picks(q, kept, g)
  BY OnlyPicks
<1>3. Only(q, kept) = g[n]
  BY <1>2 DEF Picks
<1>4. g[0] = <<>>
      /\ \A m \in 1..n : g[m] = IF q[m] \in kept THEN Append(g[m - 1], q[m]) ELSE g[m - 1]
  BY <1>2 DEF Picks
<1> DEFINE Here(m) == {q[i] : i \in 1..m}
           Good(m) == /\ g[m] \in Seq(S) /\ InList(g[m]) = Here(m) \cap kept
                      /\ Once(q) => Once(g[m])
           Bad == {m \in 0..n : ~Good(m)}
<1>5. Bad = {}
  <2> SUFFICES ASSUME Bad # {} PROVE FALSE
    OBVIOUS
  <2>1. PICK b \in Bad : \A m \in Bad : b <= m
    <3>1. Bad \in SUBSET Nat
      BY <1>1
    <3> HIDE DEF Bad
    <3> QED  BY <3>1, LeastNumber
  <2>2. Good(0)
    <3>1. InList(<<>>) = {} /\ Once(<<>>) /\ Here(0) = {}
      BY DEF InList, Once
    <3> QED  BY <3>1, <1>1, <1>4
  <2>3. b \in 1..n /\ b - 1 \in 0..n /\ b - 1 \notin Bad
    <3> HIDE DEF Good, n
    <3>1. b # 0
      BY <2>1, <2>2
    <3> QED  BY <2>1, <3>1, <1>1
  <2>4. Good(b - 1)
    <3> HIDE DEF Good
    <3> QED  BY <2>3
  <2>5. g[b] = IF q[b] \in kept THEN Append(g[b - 1], q[b]) ELSE g[b - 1]
    BY <1>4, <2>3
  <2>6. Here(b) = Here(b - 1) \cup {q[b]} /\ q[b] \in S
    <3>1. 1..b = 1..(b - 1) \cup {b}
      BY <2>3
    <3> QED  BY <3>1, <2>3, <1>1
  <2>7. CASE q[b] \notin kept
    BY <2>7, <2>1, <2>4, <2>5, <2>6
  <2>8. CASE q[b] \in kept
    <3> DEFINE old == g[b - 1]
    <3>1. old \in Seq(S) /\ g[b] = Append(old, q[b]) /\ InList(old) = Here(b - 1) \cap kept
      BY <2>8, <2>4, <2>5
    <3>2. Once(q) => Once(old)
      BY <2>4
    <3> HIDE DEF old
    <3>3. /\ g[b] \in Seq(S) /\ InList(g[b]) = InList(old) \cup {q[b]}
          /\ Once(old) /\ q[b] \notin InList(old) => Once(g[b])
      BY <3>1, <2>6, AppendedOne, SMTT(60)
    <3>4. InList(g[b]) = Here(b) \cap kept
      BY <3>1, <3>3, <2>6, <2>8
    <3>5. ASSUME Once(q) PROVE q[b] \notin Here(b - 1)
      <4>1. \A i \in 1..(b - 1) : i \in 1..n /\ i # b
        BY <2>3
      <4> QED  BY <3>5, <4>1, <2>3 DEF Once
    <3>6. Good(b)
      BY <3>1, <3>2, <3>3, <3>4, <3>5
    <3> QED  BY <3>6, <2>1
  <2> QED  BY <2>7, <2>8
<1>6. Good(n)
  <2> HIDE DEF Good
  <2> QED  BY <1>1, <1>5
<1> QED  BY <1>3, <1>6 DEF InList

\* And it keeps the order.
LEMMA OnlyOrder ==
  ASSUME NEW S, NEW q \in Seq(S), NEW kept,
         NEW i \in 1..Len(Only(q, kept)), NEW j \in 1..Len(Only(q, kept)), i < j
  PROVE  \E k, l \in 1..Len(q) : k < l /\ Only(q, kept)[i] = q[k] /\ Only(q, kept)[j] = q[l]
<1> DEFINE n == Len(q)
           From(m, x, y) == \E k, l \in 1..m : k < l /\ x = q[k] /\ y = q[l]
<1>1. PICK g : Picks(q, kept, g)
  BY OnlyPicks
<1>2. /\ n \in Nat /\ <<>> \in Seq(S) /\ \A m \in 1..n : q[m] \in S
      /\ Only(q, kept) = g[n] /\ g[0] = <<>>
      /\ \A m \in 1..n : g[m] = IF q[m] \in kept THEN Append(g[m - 1], q[m]) ELSE g[m - 1]
  BY <1>1 DEF Picks
<1> DEFINE Good(m) == /\ g[m] \in Seq(S) /\ InList(g[m]) \subseteq {q[k] : k \in 1..m}
                      /\ \A x, y \in 1..Len(g[m]) : x < y => From(m, g[m][x], g[m][y])
           T == {m \in 0..n : Good(m)}
<1>3. 0 \in T
  <2>1. PICK x \in Seq(S) : x = <<>>
    BY <1>2
  <2>2. Len(x) = 0 /\ g[0] = x /\ InList(x) = {}
    BY <1>2, <2>1 DEF InList
  <2>3. 1..Len(x) = {} /\ 0 \in 0..n
    BY <1>2, <2>2
  <2> HIDE DEF n, From
  <2> QED  BY <2>2, <2>3
<1>4. ASSUME NEW m \in 1..n, m - 1 \in T PROVE m \in T
  <2>1. PICK old : old = g[m - 1]
    OBVIOUS
  <2>2. /\ old \in Seq(S) /\ InList(old) \subseteq {q[k] : k \in 1..(m - 1)}
        /\ \A x, y \in 1..Len(old) : x < y => From(m - 1, old[x], old[y])
    <3>1. Good(m - 1)
      <4> HIDE DEF Good
      <4> QED  BY <1>4
    <3> HIDE DEF From
    <3> QED  BY <2>1, <3>1, Zenon
  <2>3. m \in Nat /\ m \in 0..n /\ m \in 1..m /\ \A k \in 1..(m - 1) : k \in 1..m /\ k < m
    BY <1>2
  <2>4. {q[k] : k \in 1..m} = {q[k] : k \in 1..(m - 1)} \cup {q[m]}
    <3>1. 1..m = 1..(m - 1) \cup {m}
      BY <2>3
    <3> QED  BY <3>1
  <2>5. \A x, y : From(m - 1, x, y) => From(m, x, y)
    BY <2>3
  <2>6. ASSUME NEW x \in InList(old) PROVE From(m, x, q[m])
    <3>1. PICK k \in 1..(m - 1) : x = q[k]
      BY <2>2
    <3>2. k \in 1..m /\ k < m
      BY <2>3
    <3> QED  BY <2>3, <3>1, <3>2
  <2>7. g[m] = IF q[m] \in kept THEN Append(old, q[m]) ELSE old
    BY <1>2, <2>1
  <2> HIDE DEF From, n
  <2>8. CASE q[m] \in kept
    <3>1. PICK new : new = Append(old, q[m]) /\ g[m] = new
      BY <2>7, <2>8, Zenon
    <3>2. /\ new \in Seq(S) /\ Len(new) = Len(old) + 1 /\ Len(old) \in Nat
          /\ new[Len(old) + 1] = q[m] /\ \A x \in 1..Len(old) : new[x] = old[x]
      <4>1. PICK e \in S : e = q[m]
        BY <1>2
      <4> QED  BY <2>2, <3>1, <4>1
    <3>3. InList(new) = InList(old) \cup {q[m]}
      BY <1>2, <2>2, <3>1, AppendedOne
    <3>4. ASSUME NEW x \in 1..Len(new), NEW y \in 1..Len(new), x < y
          PROVE  From(m, new[x], new[y])
      <4>1. x \in 1..Len(old) /\ old[x] \in InList(old)
        BY <3>2, <3>4 DEF InList
      <4>2. CASE y = Len(old) + 1
        BY <2>6, <3>2, <4>1, <4>2
      <4>3. CASE y # Len(old) + 1
        <5>1. y \in 1..Len(old)
          BY <3>2, <4>3
        <5> QED  BY <2>2, <2>5, <3>2, <3>4, <4>1, <5>1
      <4> QED  BY <4>2, <4>3
    <3>5. Good(m)
      BY <2>2, <2>4, <3>1, <3>2, <3>3, <3>4
    <3> QED  BY <2>3, <3>5
  <2>9. CASE q[m] \notin kept
    <3>1. g[m] = old
      BY <2>7, <2>9
    <3>2. Good(m)
      BY <2>2, <2>4, <2>5, <3>1
    <3> QED  BY <2>3, <3>2
  <2> QED  BY <2>8, <2>9
<1>5. Good(n)
  <2>1. n \in Nat /\ n \in 0..n
    BY <1>2
  <2> HIDE DEF T, n
  <2>2. 0..n \subseteq T
    BY <1>3, <1>4, <2>1, UpTo
  <2>3. n \in T
    BY <2>1, <2>2
  <2> QED  BY <2>3 DEF T
<1> QED  BY <1>2, <1>5

LEMMA JoinedOnce ==
  ASSUME NEW S, NEW p \in Seq(S), NEW q \in Seq(S), Once(p), Once(q), InList(p) \cap InList(q) = {}
  PROVE  p \o q \in Seq(S) /\ Once(p \o q)
<1> DEFINE m == Len(p)
           n == Len(q)
           both == p \o q
<1>1. /\ m \in Nat /\ n \in Nat /\ both \in Seq(S) /\ Len(both) = m + n
      /\ \A i \in 1..(m + n) : both[i] = IF i <= m THEN p[i] ELSE q[i - m]
  OBVIOUS
<1>2. /\ \A i, j \in 1..m : p[i] = p[j] => i = j
      /\ \A i, j \in 1..n : q[i] = q[j] => i = j
      /\ \A i \in 1..m, j \in 1..n : p[i] # q[j]
  BY SMTT(60) DEF Once, InList
<1> HIDE DEF m, n, both
<1>3. ASSUME NEW i \in 1..(m + n), NEW j \in 1..(m + n), both[i] = both[j], i # j
      PROVE  FALSE
  <2>1. /\ i <= m => i \in 1..m /\ both[i] = p[i]
        /\ ~(i <= m) => i - m \in 1..n /\ both[i] = q[i - m]
        /\ j <= m => j \in 1..m /\ both[j] = p[j]
        /\ ~(j <= m) => j - m \in 1..n /\ both[j] = q[j - m]
    BY <1>1
  <2>2. i - m = j - m => i = j
    BY <1>1
  <2> QED  BY <1>2, <1>3, <2>1, <2>2
<1>4. Once(both)
  BY <1>1, <1>3 DEF Once
<1> QED  BY <1>1, <1>4 DEF both

-----------------------------------------------------------------------------
(* The scan.                                                               *)

\* What starts, by its place in the list: a parallel task none but parallel ones
\* are ahead of, and an exclusive one at the head with nothing running.
Starts(q, parallel, before, i) ==
  /\ ~before.nonParallel
  /\ IF parallel[q[i]] THEN \A j \in 1..(i - 1) : parallel[q[j]]
                       ELSE i = 1 /\ ~before.parallel

Stopped(q, parallel, before, n) ==
  before.nonParallel \/ \E i \in 1..n : ~parallel[q[i]]

LEMMA ScanFacts ==
  ASSUME NEW S, NEW q \in Seq(S), NEW parallel \in [S -> BOOLEAN],
         NEW before \in [nonParallel : BOOLEAN, parallel : BOOLEAN]
  PROVE  SelectScan(q, parallel, before)
           = {q[i] : i \in {j \in 1..Len(q) : Starts(q, parallel, before, j)}}
<1> DEFINE n == Len(q)
           X == [start : SUBSET S, stopped : BOOLEAN]
           b0 == [start |-> {}, stopped |-> before.nonParallel]
           Step(x, m) == IF x.stopped THEN x
                         ELSE IF parallel[q[m]]
                              THEN [x EXCEPT !.start = @ \cup {q[m]}]
                         ELSE IF before.parallel \/ x.start # {}
                              THEN [x EXCEPT !.stopped = TRUE]
                         ELSE [start |-> {q[m]}, stopped |-> TRUE]
           F == [m \in 1..n |-> [x \in X |-> Step(x, m)]]
           Steps(f) == f = [m \in 0..n |->
                              IF m = 0 THEN [start |-> {}, stopped |-> before.nonParallel]
                              ELSE LET past == f[m - 1] IN
                                   IF past.stopped THEN past
                                   ELSE IF parallel[q[m]]
                                        THEN [past EXCEPT !.start = @ \cup {q[m]}]
                                   ELSE IF before.parallel \/ past.start # {}
                                        THEN [past EXCEPT !.stopped = TRUE]
                                   ELSE [start |-> {q[m]}, stopped |-> TRUE]]
<1>1. n \in Nat /\ b0 \in X /\ \A m \in 1..n : q[m] \in S
  OBVIOUS
<1>2. \A m \in 1..n : \A x \in X : Step(x, m) \in X
  BY <1>1
<1>3. F \in Stages(n, X)
  <2> HIDE DEF X, Step, n
  <2> QED  BY <1>2 DEF Stages
<1>4. PICK f \in [0..n -> X] : f[0] = b0 /\ \A m \in 1..n : f[m] = F[m][f[m - 1]]
  <2> HIDE DEF F, X, b0, n
  <2>1. Staged(n, X, b0, F)
    <3>1. n \in Nat
      BY <1>1
    <3>2. b0 \in X
      BY <1>1
    <3> QED  BY <3>1, <3>2, <1>3, Recursion
  <2> QED  BY <2>1 DEF Staged
<1>5. \A m \in 1..n : m - 1 \in 0..n /\ f[m] = Step(f[m - 1], m)
  <2> SUFFICES ASSUME NEW m \in 1..n PROVE m - 1 \in 0..n /\ f[m] = Step(f[m - 1], m)
    OBVIOUS
  <2>1. m - 1 \in 0..n
    BY <1>1
  <2> HIDE DEF X, Step, n
  <2> QED  BY <2>1, <1>4
<1>6. Steps(f)
  <2> DEFINE all == [m \in 0..n |-> IF m = 0 THEN b0 ELSE Step(f[m - 1], m)]
  <2>1. f = all
    <3> HIDE DEF Step, X, b0, n, F
    <3> QED  BY <1>1, <1>4, <1>5
  <2> QED  BY <2>1
<1> DEFINE g == CHOOSE h : Steps(h)
<1>7. Steps(g)
  <2> HIDE DEF Steps
  <2> QED  BY <1>6
<1>8. SelectScan(q, parallel, before) = g[n].start
  BY DEF SelectScan
<1> HIDE DEF g
<1>9. g[0] = b0 /\ \A m \in 1..n : g[m] = Step(g[m - 1], m)
  <2> DEFINE all == [m \in 0..n |-> IF m = 0 THEN b0 ELSE Step(g[m - 1], m)]
  <2>1. g = all
    BY <1>7
  <2> HIDE DEF Step, b0, n
  <2>2. \A m \in 0..n : all[m] = IF m = 0 THEN b0 ELSE Step(g[m - 1], m)
    OBVIOUS
  <2> HIDE DEF all
  <2> QED  BY <1>1, <2>1, <2>2, SMTT(60)
<1> DEFINE Chosen(m) == {q[i] : i \in {j \in 1..m : Starts(q, parallel, before, j)}}
           Good(m) == g[m] = [start |-> Chosen(m), stopped |-> Stopped(q, parallel, before, m)]
           Bad == {m \in 0..n : ~Good(m)}
<1>10. Bad = {}
  <2> SUFFICES ASSUME Bad # {} PROVE FALSE
    OBVIOUS
  <2>1. PICK b \in Bad : \A m \in Bad : b <= m
    <3>1. Bad \in SUBSET Nat
      BY <1>1
    <3> HIDE DEF Bad
    <3> QED  BY <3>1, LeastNumber
  <2>2. Good(0)
    <3>1. Chosen(0) = {}
      OBVIOUS
    <3>2. Stopped(q, parallel, before, 0) = before.nonParallel
      BY DEF Stopped
    <3> HIDE DEF Chosen
    <3> QED  BY <3>1, <3>2, <1>9
  <2>3. b \in 1..n /\ b - 1 \in 0..n /\ b - 1 \notin Bad
    <3> HIDE DEF Good, n
    <3>1. b # 0
      BY <2>1, <2>2
    <3> QED  BY <2>1, <3>1, <1>1
  <2>4. Good(b - 1)
    <3> HIDE DEF Good
    <3> QED  BY <2>3
  <2> DEFINE past == [start |-> Chosen(b - 1), stopped |-> Stopped(q, parallel, before, b - 1)]
  <2>5. g[b] = Step(past, b)
    <3>1. g[b] = Step(g[b - 1], b)
      BY <1>9, <2>3
    <3> HIDE DEF Step
    <3> QED  BY <3>1, <2>4
  <2>6. 1..b = 1..(b - 1) \cup {b} /\ parallel[q[b]] \in BOOLEAN
    BY <1>1, <2>3
  <2>7. Chosen(b) = IF Starts(q, parallel, before, b) THEN Chosen(b - 1) \cup {q[b]} ELSE Chosen(b - 1)
    BY <2>6
  <2>8. Stopped(q, parallel, before, b) <=> Stopped(q, parallel, before, b - 1) \/ ~parallel[q[b]]
    BY <2>6 DEF Stopped
  <2>9. CASE past.stopped
    <3>1. ~Starts(q, parallel, before, b)
      BY <2>3, <2>9 DEF Stopped, Starts
    <3>2. Stopped(q, parallel, before, b) <=> past.stopped
      BY <2>8, <2>9
    <3>3. g[b] = past
      BY <2>5, <2>9
    <3>4. Stopped(q, parallel, before, b) = Stopped(q, parallel, before, b - 1)
      BY <3>2 DEF Stopped
    <3> QED  BY <3>1, <3>3, <3>4, <2>1, <2>7
  <2>10. CASE ~past.stopped /\ parallel[q[b]]
    <3>1. Starts(q, parallel, before, b)
      BY <2>10 DEF Stopped, Starts
    <3>2. Stopped(q, parallel, before, b) = Stopped(q, parallel, before, b - 1)
      BY <2>8, <2>10 DEF Stopped
    <3>3. g[b] = [start |-> Chosen(b - 1) \cup {q[b]}, stopped |-> past.stopped]
      BY <2>5, <2>10, ZenonT(60)
    <3> QED  BY <3>1, <3>2, <3>3, <2>1, <2>7
  <2>11. CASE ~past.stopped /\ ~parallel[q[b]]
    <3>1. Stopped(q, parallel, before, b) = TRUE
      BY <2>6, <2>11 DEF Stopped
    <3>2. b # 1 => past.start # {}
      <4> SUFFICES ASSUME b # 1 PROVE q[1] \in past.start
        OBVIOUS
      <4>1. 1 \in 1..(b - 1) /\ 1..(1 - 1) = {}
        BY <2>3
      <4>2. parallel[q[1]] /\ ~before.nonParallel
        BY <2>11, <4>1 DEF Stopped
      <4>3. Starts(q, parallel, before, 1)
        BY <4>1, <4>2 DEF Starts
      <4> QED  BY <4>1, <4>3
    <3>3. b = 1 => past.start = {}
      BY <2>3
    <3>4. Starts(q, parallel, before, b) <=> ~before.parallel /\ past.start = {}
      <4>1. ~before.nonParallel
        BY <2>11 DEF Stopped
      <4> HIDE DEF past
      <4> QED  BY <2>11, <3>2, <3>3, <4>1 DEF Starts
    <3>5. CASE before.parallel \/ past.start # {}
      <4>1. g[b] = [start |-> Chosen(b - 1), stopped |-> TRUE]
        BY <2>5, <2>11, <3>5
      <4> QED  BY <3>1, <3>4, <3>5, <4>1, <2>1, <2>7
    <3>6. CASE ~(before.parallel \/ past.start # {})
      <4>1. g[b] = [start |-> {q[b]}, stopped |-> TRUE] /\ Chosen(b - 1) = {}
        BY <2>5, <2>11, <3>6
      <4> QED  BY <3>1, <3>4, <3>6, <4>1, <2>1, <2>7
    <3> QED  BY <3>5, <3>6
  <2> QED  BY <2>9, <2>10, <2>11, <2>6
<1>11. Good(n)
  <2> HIDE DEF Good
  <2> QED  BY <1>1, <1>10
<1> QED  BY <1>8, <1>11

-----------------------------------------------------------------------------
(* A pass.                                                                 *)

PassInv ==
  /\ due \in Seq(Tasks) /\ Once(due)
  /\ Parallel \in [Tasks -> BOOLEAN]
  /\ running \in [nonParallel : BOOLEAN, parallel : BOOLEAN]
  /\ starts = SelectScan(Runnable, Parallel, running)

\* The tasks a pass may start are a list of tasks, each of them once.
LEMMA SortedOnce ==
  ASSUME NEW q \in Seq(Tasks), Once(q)
  PROVE  Sorted(q) \in Seq(Tasks) /\ Once(Sorted(q))
<1> DEFINE K == {t \in Tasks : ~task[t].backfill}
           L == {t \in Tasks : task[t].backfill}
<1>1. /\ Only(q, K) \in Seq(Tasks) /\ Once(Only(q, K)) /\ InList(Only(q, K)) = InList(q) \cap K
      /\ Only(q, L) \in Seq(Tasks) /\ Once(Only(q, L)) /\ InList(Only(q, L)) = InList(q) \cap L
  <2> HIDE DEF K, L
  <2> QED  BY OnlyFacts
<1>2. K \cap L = {}
  OBVIOUS
<1>3. InList(Only(q, K)) \cap InList(Only(q, L)) = {}
  <2> HIDE DEF K, L
  <2> QED  BY <1>1, <1>2
<1> HIDE DEF K, L
<1>4. Only(q, K) \o Only(q, L) \in Seq(Tasks) /\ Once(Only(q, K) \o Only(q, L))
  BY <1>1, <1>3, JoinedOnce
<1> QED  BY <1>4 DEF Sorted, K, L

LEMMA RunnableOnce ==
  ASSUME PassInv
  PROVE  Runnable \in Seq(Tasks) /\ Once(Runnable)
BY SortedOnce, OnlyFacts DEF PassInv, Runnable, RunnableNow

LEMMA NothingSorted ==
  Sorted(<<>>) = <<>> /\ \A kept : Only(<<>>, kept) = <<>>
<1>1. <<>> \in Seq(Tasks) /\ InList(<<>>) = {}
  BY DEF InList
<1>2. \A kept : Only(<<>>, kept) = <<>>
  <2> SUFFICES ASSUME NEW kept PROVE Only(<<>>, kept) = <<>>
    OBVIOUS
  <2>1. PICK empty \in Seq(Tasks) : empty = <<>>
    BY <1>1
  <2>2. Only(empty, kept) \in Seq(Tasks) /\ InList(Only(empty, kept)) = InList(empty) \cap kept
    BY OnlyFacts
  <2>3. PICK q \in Seq(Tasks) : q = Only(<<>>, kept) /\ InList(q) = {}
    BY <2>1, <2>2, <1>1
  <2>4. 1 \notin 1..Len(q)
    BY <2>3 DEF InList
  <2> QED  BY <2>3, <2>4
<1>3. Sorted(<<>>) = <<>>
  BY <1>2 DEF Sorted
<1> QED  BY <1>2, <1>3

LEMMA NothingRunnable ==
  ASSUME NEW p
  PROVE  RunnableNow(Sorted(<<>>), p) = <<>> /\ RunnableNow(<<>>, p) = <<>>
BY NothingSorted DEF RunnableNow

LEMMA PassInit == Init => PassInv
<1> SUFFICES ASSUME Init PROVE PassInv
  OBVIOUS
<1>1. due \in Seq(Tasks) /\ Once(due)
  BY DEF Init, Once
<1>2. Parallel \in [Tasks -> BOOLEAN]
  BY DefinitionsAssumption DEF Init, Parallel
<1>3. running \in [nonParallel : BOOLEAN, parallel : BOOLEAN] /\ starts = {} /\ Runnable = <<>>
  BY NothingRunnable DEF Init, Runnable
<1>4. SelectScan(<<>>, Parallel, running) = {}
  <2>1. PICK q \in Seq(Tasks) : q = <<>>
    <3>1. <<>> \in Seq(Tasks)
      OBVIOUS
    <3> QED  BY <3>1
  <2>2. SelectScan(q, Parallel, running)
          = {q[i] : i \in {j \in 1..Len(q) : Starts(q, Parallel, running, j)}}
    BY <1>2, <1>3, ScanFacts
  <2> QED  BY <2>1, <2>2
<1> QED  BY <1>1, <1>2, <1>3, <1>4 DEF PassInv

LEMMA PassStep ==
  ASSUME PassInv, [Next]_vars
  PROVE  PassInv'
<1>1. ASSUME NEW t \in Tasks, AnotherIsDue(t) PROVE PassInv'
  <2>1. due' = Append(due, t) /\ t \notin InList(due)
    BY <1>1, ListSet DEF AnotherIsDue, PassInv
  <2>2. due' \in Seq(Tasks) /\ Once(due')
    BY <2>1, AppendedOne DEF PassInv
  <2>3. Parallel' = Parallel /\ running' = running
    BY <1>1 DEF AnotherIsDue, Tick, Parallel
  <2>4. starts' = SelectScan(RunnableNow(Sorted(due'), place'), Parallel, running)
    BY <1>1 DEF AnotherIsDue, Tick
  <2>5. Runnable' = RunnableNow(Sorted(due'), place')
    BY <1>1 DEF AnotherIsDue, Tick, Runnable, RunnableNow, Sorted, Probed, GateHolds
  <2> QED  BY <2>2, <2>3, <2>4, <2>5 DEF PassInv
<1>2. CASE NothingIsDue
  <2>1. due' = <<>> /\ due' \in Seq(Tasks) /\ Once(due')
    BY <1>2 DEF NothingIsDue, Once
  <2>3. Parallel' = Parallel /\ running' = running
    BY <1>2 DEF NothingIsDue, Tick, Parallel
  <2>4. starts' = SelectScan(RunnableNow(<<>>, place'), Parallel, running)
    BY <1>2 DEF NothingIsDue, Tick
  <2>5. Runnable' = RunnableNow(Sorted(<<>>), place')
    BY <1>2 DEF NothingIsDue, Tick, Runnable, RunnableNow, Sorted, Probed, GateHolds
  <2> QED  BY <2>1, <2>3, <2>4, <2>5, NothingRunnable DEF PassInv
<1>3. CASE UNCHANGED vars
  BY <1>3 DEF vars, PassInv, Runnable, RunnableNow, Sorted, Probed, GateHolds, Parallel
<1> QED  BY <1>1, <1>2, <1>3 DEF Next

LEMMA OrderHolds == PassInv => QueueOrderHolds
<1> SUFFICES ASSUME PassInv PROVE SelectAgrees /\ NeverPassesExclusive /\ HeldIsTrue
  BY DEF QueueOrderHolds
<1> DEFINE q == Runnable
           P == Parallel
           St(i) == Starts(q, P, running, i)
<1>1. /\ q \in Seq(Tasks) /\ P \in [Tasks -> BOOLEAN] /\ Len(q) \in Nat
      /\ running \in [nonParallel : BOOLEAN, parallel : BOOLEAN]
      /\ \A i, j \in 1..Len(q) : q[i] = q[j] => i = j
      /\ ToSet(q) = {q[i] : i \in 1..Len(q)}
  BY RunnableOnce, ListSet DEF PassInv, Once, InList
<1>2. starts = {q[i] : i \in {j \in 1..Len(q) : St(j)}}
  BY <1>1, ScanFacts DEF PassInv
<1> HIDE DEF q, P
<1>3. /\ \A i \in 1..Len(q) : q[i] \in starts <=> St(i)
      /\ starts \subseteq ToSet(q)
  <2> HIDE DEF St
  <2> QED  BY <1>1, <1>2
<1>4. \A i \in 1..Len(q) : \A u : Ahead(q, u, q[i]) <=> \E j \in 1..(i - 1) : q[j] = u
  <2> SUFFICES ASSUME NEW i \in 1..Len(q), NEW u
               PROVE  Ahead(q, u, q[i]) <=> \E j \in 1..(i - 1) : q[j] = u
    OBVIOUS
  <2>1. ASSUME Ahead(q, u, q[i]) PROVE \E j \in 1..(i - 1) : q[j] = u
    <3>1. PICK j \in 1..Len(q), k \in 1..Len(q) : j < k /\ q[j] = u /\ q[k] = q[i]
      BY <2>1 DEF Ahead
    <3>2. k = i
      BY <3>1, <1>1
    <3>3. j \in 1..(i - 1)
      BY <3>1, <3>2, <1>1
    <3> QED  BY <3>1, <3>3
  <2>2. ASSUME NEW j \in 1..(i - 1), q[j] = u PROVE Ahead(q, u, q[i])
    <3>1. j \in 1..Len(q) /\ j < i
      BY <1>1
    <3> QED  BY <3>1, <2>2 DEF Ahead
  <2> QED  BY <2>1, <2>2
<1>5. \A i \in 1..Len(q) : \A j \in 1..(i - 1) : j \in 1..Len(q)
  BY <1>1
<1>6. SelectAgrees
  <2>1. ASSUME NEW i \in 1..Len(q)
        PROVE  q[i] \in Select(ToSet(q), q, P, running) <=> St(i)
    <3>1. (\A u \in ToSet(q) : Ahead(q, u, q[i]) => P[u]) <=> \A j \in 1..(i - 1) : P[q[j]]
      <4>1. ASSUME NEW u \in ToSet(q), Ahead(q, u, q[i]), \A j \in 1..(i - 1) : P[q[j]]
            PROVE  P[u]
        <5>1. PICK j \in 1..(i - 1) : q[j] = u
          BY <4>1, <1>4
        <5> QED  BY <4>1, <5>1
      <4>2. ASSUME NEW j \in 1..(i - 1), \A u \in ToSet(q) : Ahead(q, u, q[i]) => P[u]
            PROVE  P[q[j]]
        <5>1. q[j] \in ToSet(q) /\ Ahead(q, q[j], q[i])
          BY <1>1, <1>4, <1>5
        <5> QED  BY <4>2, <5>1
      <4> HIDE DEF St
      <4> QED  BY <4>1, <4>2
    <3>2. (\A u \in ToSet(q) : ~Ahead(q, u, q[i])) <=> i = 1
      <4>1. ASSUME i # 1 PROVE \E u \in ToSet(q) : Ahead(q, u, q[i])
        <5>1. 1 \in 1..(i - 1)
          BY <4>1, <1>1
        <5>2. q[1] \in ToSet(q) /\ Ahead(q, q[1], q[i])
          BY <5>1, <1>1, <1>4, <1>5
        <5> QED  BY <5>2
      <4>2. ASSUME i = 1, NEW u \in ToSet(q), Ahead(q, u, q[i]) PROVE FALSE
        <5>1. \E j \in 1..(i - 1) : q[j] = u
          BY <4>2, <1>4
        <5> QED  BY <4>2, <5>1
      <4> QED  BY <4>1, <4>2
    <3>3. q[i] \in ToSet(q)
      BY <1>1
    <3> QED  BY <3>1, <3>2, <3>3 DEF Select, Starts
  <2>2. Select(ToSet(q), q, P, running) \subseteq ToSet(q)
    BY DEF Select
  <2> HIDE DEF St
  <2>3. starts = Select(ToSet(q), q, P, running)
    <3>1. starts \subseteq Select(ToSet(q), q, P, running)
      BY <1>1, <1>3, <2>1
    <3>2. Select(ToSet(q), q, P, running) \subseteq starts
      BY <1>1, <1>3, <2>1, <2>2
    <3> QED  BY <3>1, <3>2
  <2> QED  BY <2>3 DEF SelectAgrees, q, P
<1>7. NeverPassesExclusive
  <2>1. ASSUME NEW t \in ToSet(q), NEW u \in ToSet(q), Ahead(q, u, t), ~P[u], u \notin starts,
               t \in starts
        PROVE  FALSE
    <3>1. PICK i \in 1..Len(q) : q[i] = t
      BY <1>1
    <3>2. PICK j \in 1..(i - 1) : q[j] = u
      BY <2>1, <3>1, <1>4
    <3>3. St(i)
      BY <2>1, <3>1, <1>3
    <3>4. i # 1
      BY <3>2
    <3> QED  BY <2>1, <3>1, <3>2, <3>3, <3>4 DEF Starts
  <2> QED  BY <2>1 DEF NeverPassesExclusive, q, P
<1>8. HeldIsTrue
  <2> DEFINE chosen == SelectScan(q, P, running)
             waits == {i \in 1..Len(q) : q[i] \notin chosen}
             Reason(i) == IF running.nonParallel THEN "an exclusive task is running"
                          ELSE IF \E j \in 1..(i - 1) : ~P[q[j]] THEN "behind an exclusive task"
                          ELSE "runs alone"
             held == [t \in {q[i] : i \in waits} |-> Reason(CHOOSE i \in waits : q[i] = t)]
  <2>1. chosen = starts
    BY DEF PassInv, q, P
  <2>2. Held(q, P, running) = held
    BY DEF Held
  <2>3. waits = {i \in 1..Len(q) : q[i] \notin starts}
    BY <2>1
  <2> HIDE DEF chosen, waits
  <2>4. {q[i] : i \in waits} = ToSet(q) \ starts
    BY <1>1, <2>3
  <2>5. ASSUME NEW i \in waits PROVE held[q[i]] = Reason(i)
    <3>1. (CHOOSE j \in waits : q[j] = q[i]) = i
      BY <1>1, <2>3
    <3> HIDE DEF Reason
    <3> QED  BY <3>1
  <2>6. DOMAIN held = ToSet(q) \ starts
    BY <2>4
  <2> HIDE DEF held
  <2>7. ASSUME NEW t \in ToSet(q) \ starts, held[t] = "runs alone"
        PROVE  /\ ~P[t] /\ ~running.nonParallel
               /\ running.parallel \/ \E u \in starts : Ahead(q, u, t)
               /\ \A u \in ToSet(q) : Ahead(q, u, t) => P[u]
    <3>1. PICK i \in waits : q[i] = t
      BY <2>4, <2>7
    <3>2. i \in 1..Len(q) /\ ~St(i) /\ Reason(i) = "runs alone"
      BY <3>1, <2>3, <2>5, <2>7, <1>3
    <3>3. ~running.nonParallel /\ \A j \in 1..(i - 1) : P[q[j]]
      BY <3>2
    <3>4. ~P[t]
      BY <3>1, <3>2, <3>3 DEF Starts
    <3>5. running.parallel \/ i # 1
      BY <3>1, <3>2, <3>3, <3>4 DEF Starts
    <3>6. ASSUME i # 1 PROVE q[1] \in starts /\ Ahead(q, q[1], t)
      <4>1. 1 \in 1..(i - 1) /\ 1 \in 1..Len(q) /\ 1..(1 - 1) = {}
        BY <3>2, <3>6, <1>1
      <4>2. St(1)
        BY <3>3, <4>1 DEF Starts
      <4> QED  BY <4>1, <4>2, <1>3, <1>4, <3>1, <3>2
    <3>7. ASSUME NEW u \in ToSet(q), Ahead(q, u, t) PROVE P[u]
      <4>1. PICK j \in 1..(i - 1) : q[j] = u
        BY <3>1, <3>2, <3>7, <1>4
      <4> QED  BY <4>1, <3>3
    <3> QED  BY <3>3, <3>4, <3>5, <3>6, <3>7
  <2>8. ASSUME NEW t \in ToSet(q) \ starts, held[t] = "behind an exclusive task"
        PROVE  \E u \in ToSet(q) : Ahead(q, u, t) /\ ~P[u]
    <3>1. PICK i \in waits : q[i] = t
      BY <2>4, <2>8
    <3>2. i \in 1..Len(q) /\ Reason(i) = "behind an exclusive task"
      BY <3>1, <2>3, <2>5, <2>8
    <3>3. PICK j \in 1..(i - 1) : ~P[q[j]]
      BY <3>2
    <3>4. j \in 1..Len(q) /\ q[j] \in ToSet(q)
      BY <3>2, <1>1, <1>5
    <3> QED  BY <3>1, <3>2, <3>3, <3>4, <1>4
  <2> QED  BY <2>2, <2>6, <2>7, <2>8 DEF HeldIsTrue, q, P
<1> QED  BY <1>6, <1>7, <1>8

\* The order of the queue is kept: the scan of the code chooses what the rule
\* chooses that Engine is built on, no task starts ahead of an exclusive one that
\* waits, and the reasons the queue gives are those of exactly the waiting tasks.
THEOREM OrderIsKept == Spec => []QueueOrderHolds
BY PassInit, PassStep, OrderHolds, PTL DEF Spec

-----------------------------------------------------------------------------
(* Urgency.                                                                *)

Positive == Nat \ {0}

LEMMA TimesGrows ==
  ASSUME NEW x \in Nat, NEW y \in Nat, NEW c \in Positive
  PROVE  /\ x * c \in Nat
         /\ x <= y <=> x * c <= y * c
         /\ x < y <=> x * c < y * c
BY DEF Positive

LEMMA TimesCommutes ==
  ASSUME NEW x \in Nat, NEW y \in Nat, NEW z \in Nat
  PROVE  /\ x * y \in Nat /\ x * y = y * x
         /\ (x * y) * z = (x * z) * y
OBVIOUS

\* x/a is at least y/b, and y/b is at least z/c; then x/a is at least z/c, and
\* is more if one of the others is.
LEMMA FractionsCompare ==
  ASSUME NEW x \in Nat, NEW y \in Nat, NEW z \in Nat,
         NEW a \in Positive, NEW b \in Positive, NEW c \in Positive,
         y * a <= x * b, z * b <= y * c
  PROVE  /\ z * a <= x * c
         /\ (y * a < x * b \/ z * b < y * c) => z * a < x * c
         /\ (y * a = x * b /\ z * b = y * c) => z * a = x * c
<1>1. a \in Nat /\ b \in Nat /\ c \in Nat
  BY DEF Positive
<1>2. PICK p1 \in Nat, p2 \in Nat, p3 \in Nat, p4 \in Nat, p5 \in Nat, p6 \in Nat :
        /\ p1 = x * b /\ p2 = y * a /\ p3 = y * c /\ p4 = z * b /\ p5 = x * c /\ p6 = z * a
  BY <1>1, TimesCommutes
<1>3. /\ p1 * c = p5 * b /\ p2 * c = p3 * a /\ p4 * a = p6 * b
  BY <1>1, <1>2, TimesCommutes
<1>4. /\ p2 <= p1 <=> p2 * c <= p1 * c
      /\ p2 < p1 <=> p2 * c < p1 * c
      /\ p4 <= p3 <=> p4 * a <= p3 * a
      /\ p4 < p3 <=> p4 * a < p3 * a
      /\ p6 <= p5 <=> p6 * b <= p5 * b
      /\ p6 < p5 <=> p6 * b < p5 * b
  BY TimesGrows
<1>5. PICK q1 \in Nat, q2 \in Nat, q3 \in Nat, q4 \in Nat :
        q1 = p1 * c /\ q2 = p2 * c /\ q3 = p4 * a /\ q4 = p6 * b
  BY <1>1, TimesCommutes
<1>6. /\ p2 <= p1 /\ p4 <= p3
      /\ q4 = q3 /\ p5 * b = q1 /\ p3 * a = q2
  BY <1>2, <1>3, <1>5
<1>7. /\ p2 <= p1 <=> q2 <= q1
      /\ p2 < p1 <=> q2 < q1
      /\ p4 <= p3 <=> q3 <= q2
      /\ p4 < p3 <=> q3 < q2
      /\ p6 <= p5 <=> q4 <= q1
      /\ p6 < p5 <=> q4 < q1
  BY <1>4, <1>5, <1>6
<1>8. /\ p6 <= p5
      /\ (p2 < p1 \/ p4 < p3) => p6 < p5
      /\ (p2 = p1 /\ p4 = p3) => p6 = p5
  BY <1>6, <1>7
<1> QED  BY <1>2, <1>8

Tie(s, t) == ~Before(s, t) /\ ~Before(t, s)
Scores == [tier : 0..3, urgency : [n : Nat, d : Positive], weight : Positive, running : Nat]

\* The rule a pool is sorted by is an order in which members may tie: nothing is
\* before itself, what is before the later one is before the last, ties carry on,
\* and the tiers come first (RankPool and what sort asks of its less function).
THEOREM RankingIsAnOrder ==
  ASSUME NEW s \in Scores, NEW t \in Scores, NEW u \in Scores
  PROVE  /\ ~Before(s, s)
         /\ Before(s, t) /\ Before(t, u) => Before(s, u)
         /\ Tie(s, t) /\ Tie(t, u) => Tie(s, u)
         /\ s.tier < t.tier => Before(s, t) /\ ~Before(t, s)
<1>1. \A v \in {s, t, u} : /\ v.tier \in Nat /\ v.running \in Nat
                           /\ v.urgency.n \in Nat /\ v.urgency.d \in Positive /\ v.weight \in Nat
                           /\ v.urgency.n * v.weight \in Nat
  <2> SUFFICES ASSUME NEW v \in {s, t, u}
               PROVE  /\ v.tier \in Nat /\ v.running \in Nat
                      /\ v.urgency.n \in Nat /\ v.urgency.d \in Positive /\ v.weight \in Nat
                      /\ v.urgency.n * v.weight \in Nat
    OBVIOUS
  <2>1. /\ v.tier \in Nat /\ v.running \in Nat
        /\ v.urgency.n \in Nat /\ v.urgency.d \in Positive /\ v.weight \in Nat
    BY DEF Scores, Positive
  <2> QED  BY <2>1, TimesCommutes
<1> DEFINE x == s.urgency.n * s.weight
           y == t.urgency.n * t.weight
           z == u.urgency.n * u.weight
           a == s.urgency.d
           b == t.urgency.d
           c == u.urgency.d
           xa == x * a
           xb == x * b
           xc == x * c
           ya == y * a
           yc == y * c
           za == z * a
           zb == z * b
<1>2. /\ Before(s, s) <=> \/ s.tier < s.tier
                          \/ s.tier = s.tier /\ xa > xa
                          \/ s.tier = s.tier /\ xa = xa /\ s.running < s.running
      /\ Before(s, t) <=> \/ s.tier < t.tier
                          \/ s.tier = t.tier /\ xb > ya
                          \/ s.tier = t.tier /\ xb = ya /\ s.running < t.running
      /\ Before(t, s) <=> \/ t.tier < s.tier
                          \/ t.tier = s.tier /\ ya > xb
                          \/ t.tier = s.tier /\ ya = xb /\ t.running < s.running
      /\ Before(t, u) <=> \/ t.tier < u.tier
                          \/ t.tier = u.tier /\ yc > zb
                          \/ t.tier = u.tier /\ yc = zb /\ t.running < u.running
      /\ Before(s, u) <=> \/ s.tier < u.tier
                          \/ s.tier = u.tier /\ xc > za
                          \/ s.tier = u.tier /\ xc = za /\ s.running < u.running
      /\ Before(u, t) <=> \/ u.tier < t.tier
                          \/ u.tier = t.tier /\ zb > yc
                          \/ u.tier = t.tier /\ zb = yc /\ u.running < t.running
      /\ Before(u, s) <=> \/ u.tier < s.tier
                          \/ u.tier = s.tier /\ za > xc
                          \/ u.tier = s.tier /\ za = xc /\ u.running < s.running
  BY Zenon DEF Before
<1>3. /\ x \in Nat /\ y \in Nat /\ z \in Nat
      /\ a \in Positive /\ b \in Positive /\ c \in Positive
  BY <1>1
<1> HIDE DEF x, y, z, a, b, c
<1>4. /\ xa \in Nat /\ xb \in Nat /\ xc \in Nat /\ ya \in Nat /\ yc \in Nat
      /\ za \in Nat /\ zb \in Nat
  BY <1>3, TimesGrows
<1>5. ya <= xb /\ zb <= yc => /\ za <= xc
                              /\ (ya < xb \/ zb < yc) => za < xc
                              /\ (ya = xb /\ zb = yc) => za = xc
  BY <1>3, FractionsCompare
<1> HIDE DEF xa, xb, xc, ya, yc, za, zb
<1>6. ~Before(s, s)
  BY <1>1, <1>2, <1>4
<1>7. Before(s, t) /\ Before(t, u) => Before(s, u)
  BY <1>1, <1>2, <1>4, <1>5
<1>8. s.tier < t.tier => Before(s, t) /\ ~Before(t, s)
  BY <1>1, <1>2, <1>4
<1>9. Tie(s, t) /\ Tie(t, u) => Tie(s, u)
  BY <1>1, <1>2, <1>4, <1>5 DEF Tie
<1> QED  BY <1>6, <1>7, <1>8, <1>9

LEMMA PositiveTimes ==
  ASSUME NEW x \in Positive, NEW y \in Positive
  PROVE  x * y \in Positive
<1>1. x \in Nat /\ y \in Nat /\ 0 \in Nat /\ 0 < x /\ 0 * y = 0
  BY DEF Positive
<1>2. x * y \in Nat /\ 0 * y < x * y
  BY <1>1, TimesGrows
<1> QED  BY <1>1, <1>2 DEF Positive

LEMMA LongFacts ==
  ASSUME NEW reading, ValidReading(reading), LongWindow(reading.windows) # None
  PROVE  LongWindow(reading.windows) \in DOMAIN reading.windows
<1> DEFINE ws == reading.windows
           others == {w \in DOMAIN ws \ {"five_hour"} : ws[w].left # NoReset}
<1>1. /\ DOMAIN ws \subseteq {"week", "day", "five_hour"}
      /\ \A w \in DOMAIN ws : ws[w].left \in Int
  BY DEF ValidReading, WindowKinds
<1> HIDE DEF ws
<1>2. CASE "week" \in DOMAIN ws
  BY <1>2 DEF LongWindow, ws
<1>3. CASE "week" \notin DOMAIN ws /\ others # {}
  <2>1. others = {"day"} /\ "day" \in DOMAIN ws
    BY <1>1, <1>3
  <2>2. \E w \in others : \A v \in others : ws[w].left >= ws[v].left
    <3>1. ws["day"].left >= ws["day"].left
      BY <1>1, <2>1
    <3> QED  BY <2>1, <3>1
  <2>3. LongWindow(ws) = CHOOSE w \in others : \A v \in others : ws[w].left >= ws[v].left
    BY <1>3 DEF LongWindow
  <2>4. LongWindow(ws) \in others
    <3> HIDE DEF others
    <3> QED  BY <2>2, <2>3
  <2> QED  BY <2>1, <2>4 DEF ws
<1>4. CASE "week" \notin DOMAIN ws /\ others = {}
  BY <1>4 DEF LongWindow, ws
<1> QED  BY <1>2, <1>3, <1>4

\* The score of an account that may take work depends on its runs in two ways:
\* they divide the urgency of an account that has a long window, and they are
\* what is compared last.
Measured(n, k, tier, weight, r) ==
  [tier |-> tier, urgency |-> [n |-> n, d |-> k * (1 + r)], weight |-> weight, running |-> r]
Follows(reading, w, n, k, tier, weight) ==
  \A r \in Nat : Score(reading, w, TRUE, r) = Measured(n, k, tier, weight, r)
ScoreKnown(reading, w) ==
  \/ \A r \in Nat : Score(reading, w, TRUE, r) = Unscored(1, r)
  \/ \E n \in Nat, k \in Positive, tier \in {0, 2}, weight \in Positive :
       Follows(reading, w, n, k, tier, weight)

LEMMA ScoreShape ==
  ASSUME NEW reading, ValidReading(reading), NEW w \in Nat
  PROVE  ScoreKnown(reading, w)
<1> DEFINE ws == reading.windows
           long == LongWindow(ws)
           over == ws[long].left = 0
           used == IF over THEN 0 ELSE ws[long].used
           left == IF over \/ ws[long].left = NoReset THEN Length(long) ELSE ws[long].left
           tight == /\ "five_hour" \in DOMAIN ws \ {long}
                    /\ ws["five_hour"].left # 0 /\ ws["five_hour"].used >= 9
           tier == IF used = 10 \/ tight THEN 2 ELSE 0
           weight == IF w > 0 THEN w ELSE IF reading.capacity > 0 THEN reading.capacity ELSE 1
           n == (10 - used) * Length(long)
           k == 10 * left
<1>1. CASE long = None
  BY <1>1 DEF Score, ScoreKnown
<1>2. CASE long # None
  <2>1. long \in DOMAIN ws
    BY <1>2, LongFacts
  <2>2. /\ Length(long) \in Positive
        /\ ws[long].used \in 0..10 /\ ws[long].left \in Int /\ ws[long].left >= -1
        /\ reading.capacity \in Nat
    <3> HIDE DEF long
    <3> QED  BY <2>1 DEF ValidReading, WindowKinds, Length, Positive, NoReset
  <2>3. used \in 0..10 /\ left \in Positive
    <3> HIDE DEF long, ws
    <3> QED  BY <2>2 DEF Positive, NoReset
  <2>4. tier \in {0, 2} /\ weight \in Positive
    BY <2>2 DEF Positive
  <2>5. n \in Nat /\ k \in Positive
    <3> HIDE DEF used, left, long
    <3>1. PICK u \in Nat, l \in Nat : u = 10 - used /\ l = Length(long)
      BY <2>2, <2>3 DEF Positive
    <3>2. u * l \in Nat
      BY TimesCommutes
    <3> QED  BY <2>3, <3>1, <3>2 DEF Positive
  <2>6. \A r \in Nat : Score(reading, w, TRUE, r)
          = [tier |-> tier, urgency |-> [n |-> n, d |-> k * (1 + r)],
             weight |-> weight, running |-> r]
    BY <1>2 DEF Score
  <2>7. Follows(reading, w, n, k, tier, weight)
    <3> HIDE DEF n, k, tier, weight
    <3> QED  BY <2>6 DEF Follows, Measured
  <2> HIDE DEF n, k, tier, weight
  <2> QED  BY <2>4, <2>5, <2>7 DEF ScoreKnown
<1> QED  BY <1>1, <1>2

LEMMA MeasuredType ==
  ASSUME NEW n \in Nat, NEW k \in Positive, NEW tier \in {0, 2}, NEW weight \in Positive,
         NEW r \in Nat
  PROVE  Measured(n, k, tier, weight, r) \in Scores
<1>1. 1 + r \in Positive
  BY DEF Positive
<1>2. k * (1 + r) \in Positive
  BY <1>1, PositiveTimes
<1> QED  BY <1>2 DEF Measured, Scores

LEMMA ScoreFacts ==
  ASSUME NEW reading, ValidReading(reading), NEW w \in Nat, NEW usable \in BOOLEAN, NEW r \in Nat
  PROVE  /\ Score(reading, w, usable, r) \in Scores
         /\ Score(reading, w, usable, r).tier = 3 <=> ~usable
<1>1. CASE ~usable
  <2>1. Score(reading, w, usable, r) = Unscored(3, r)
    BY <1>1 DEF Score
  <2> QED  BY <1>1, <2>1 DEF Unscored, Scores, Positive
<1>2. CASE usable /\ \A i \in Nat : Score(reading, w, TRUE, i) = Unscored(1, i)
  <2>1. usable = TRUE
    BY <1>2
  <2>2. Score(reading, w, usable, r) = Unscored(1, r)
    BY <1>2, <2>1, Zenon
  <2>3. Unscored(1, r) \in Scores /\ Unscored(1, r).tier = 1
    BY DEF Unscored, Scores, Positive
  <2> QED  BY <2>1, <2>2, <2>3
<1>3. ASSUME usable, NEW n \in Nat, NEW k \in Positive, NEW tier \in {0, 2}, NEW weight \in Positive,
             Follows(reading, w, n, k, tier, weight)
      PROVE  /\ Score(reading, w, usable, r) \in Scores
             /\ Score(reading, w, usable, r).tier # 3
  <2>1. Score(reading, w, usable, r) = Measured(n, k, tier, weight, r)
    <3>1. usable = TRUE
      BY <1>3
    <3> QED  BY <1>3, <3>1, Zenon DEF Follows
  <2>2. Measured(n, k, tier, weight, r).tier = tier
    BY DEF Measured
  <2> QED  BY <2>1, <2>2, MeasuredType
<1> QED  BY <1>1, <1>2, <1>3, ScoreShape, ZenonT(60) DEF ScoreKnown

\* An account with more runs ranks behind, everything else being the same.
LEMMA MoreRuns ==
  ASSUME NEW reading, ValidReading(reading), NEW w \in Nat,
         NEW r \in Nat, NEW more \in Nat, r < more
  PROVE  Before(Score(reading, w, TRUE, r), Score(reading, w, TRUE, more))
<1>1. CASE \A i \in Nat : Score(reading, w, TRUE, i) = Unscored(1, i)
  <2>1. Before(Unscored(1, r), Unscored(1, more))
    BY DEF Unscored, Before
  <2>2. Score(reading, w, TRUE, r) = Unscored(1, r) /\ Score(reading, w, TRUE, more) = Unscored(1, more)
    BY <1>1, Zenon
  <2> QED  BY <2>1, <2>2, Zenon
<1>2. ASSUME NEW n \in Nat, NEW k \in Positive, NEW tier \in {0, 2}, NEW weight \in Positive,
             Follows(reading, w, n, k, tier, weight)
      PROVE  Before(Score(reading, w, TRUE, r), Score(reading, w, TRUE, more))
  <2> DEFINE d == k * (1 + r)
             e == k * (1 + more)
             p == n * weight
  <2>1. 1 + r \in Nat /\ 1 + more \in Nat /\ 1 + r < 1 + more /\ k \in Nat /\ weight \in Nat
    BY DEF Positive
  <2>2. d \in Nat /\ e \in Nat /\ d < e
    <3>1. PICK i \in Nat, j \in Nat : i = 1 + r /\ j = 1 + more
      BY <2>1
    <3>2. i * k < j * k /\ i * k = k * i /\ j * k = k * j /\ k * i \in Nat /\ k * j \in Nat
      BY <2>1, <3>1, TimesGrows, TimesCommutes
    <3> QED  BY <3>1, <3>2
  <2>3. p \in Nat
    BY <2>1, TimesCommutes
  <2>4. /\ Score(reading, w, TRUE, r) = Measured(n, k, tier, weight, r)
        /\ Score(reading, w, TRUE, more) = Measured(n, k, tier, weight, more)
    BY <1>2 DEF Follows
  <2>5. Before(Measured(n, k, tier, weight, r), Measured(n, k, tier, weight, more))
          <=> \/ tier < tier
              \/ tier = tier /\ p * e > p * d
              \/ tier = tier /\ p * e = p * d /\ r < more
    BY DEF Before, Measured
  <2> HIDE DEF d, e, p
  <2>6. p * e > p * d \/ p * e = p * d
    <3>1. CASE p = 0
      BY <3>1, <2>2
    <3>2. CASE p # 0
      <4>1. d * p < e * p /\ p * d = d * p /\ p * e = e * p /\ d * p \in Nat /\ e * p \in Nat
        BY <3>2, <2>2, <2>3, TimesGrows, TimesCommutes DEF Positive
      <4> QED  BY <4>1
    <3> QED  BY <3>1, <3>2
  <2> QED  BY <2>4, <2>5, <2>6
<1> QED  BY <1>1, <1>2, ScoreShape, ZenonT(60) DEF ScoreKnown

\* Allowance that is at risk with some runs planned is so with fewer.
LEMMA LessSpare ==
  ASSUME NEW reading, ValidReading(reading), NEW usable \in BOOLEAN,
         NEW r \in Nat, NEW more \in Nat, r <= more, NEW threshold \in Nat,
         Spare(Score(reading, 1, usable, more), threshold)
  PROVE  usable /\ Spare(Score(reading, 1, usable, r), threshold)
<1>1. usable
  BY ScoreFacts DEF Spare
<1>2. CASE \A i \in Nat : Score(reading, 1, TRUE, i) = Unscored(1, i)
  <2>1. usable = TRUE
    BY <1>1
  <2>2. Score(reading, 1, usable, more) = Unscored(1, more)
    BY <1>2, <2>1, Zenon
  <2> QED  BY <2>2 DEF Unscored, Spare
<1>3. ASSUME NEW n \in Nat, NEW k \in Positive, NEW tier \in {0, 2}, NEW weight \in Positive,
             Follows(reading, 1, n, k, tier, weight)
      PROVE  Spare(Score(reading, 1, usable, r), threshold)
  <2> DEFINE d == k * (1 + r)
             e == k * (1 + more)
  <2>1. 1 + r \in Nat /\ 1 + more \in Nat /\ 1 + r <= 1 + more /\ k \in Nat
    BY DEF Positive
  <2>2. d \in Nat /\ e \in Nat /\ d <= e
    <3>1. PICK i \in Nat, j \in Nat : i = 1 + r /\ j = 1 + more
      BY <2>1
    <3>2. i * k <= j * k /\ i * k = k * i /\ j * k = k * j /\ k * i \in Nat /\ k * j \in Nat
      BY <2>1, <3>1, TimesGrows, TimesCommutes
    <3> QED  BY <3>1, <3>2
  <2>3. /\ Score(reading, 1, usable, r) = Measured(n, k, tier, weight, r)
        /\ Score(reading, 1, usable, more) = Measured(n, k, tier, weight, more)
    <3>1. usable = TRUE
      BY <1>1
    <3> QED  BY <1>3, <3>1, Zenon DEF Follows
  <2>4. /\ Spare(Measured(n, k, tier, weight, r), threshold) <=> tier = 0 /\ 10 * n > threshold * d
        /\ Spare(Measured(n, k, tier, weight, more), threshold) <=> tier = 0 /\ 10 * n > threshold * e
    BY DEF Spare, Measured
  <2> HIDE DEF d, e
  <2>5. threshold * d \in Nat /\ threshold * e \in Nat /\ threshold * d <= threshold * e
    <3>1. CASE threshold = 0
      BY <3>1, <2>2
    <3>2. CASE threshold # 0
      <4>1. /\ d * threshold <= e * threshold /\ d * threshold \in Nat /\ e * threshold \in Nat
            /\ threshold * d = d * threshold /\ threshold * e = e * threshold
        BY <3>2, <2>2, TimesGrows, TimesCommutes DEF Positive
      <4> QED  BY <4>1
    <3> QED  BY <3>1, <3>2
  <2>6. tier = 0 /\ 10 * n > threshold * e
    BY <2>3, <2>4
  <2>7. 10 * n > threshold * d
    <3>1. PICK x \in Nat, y \in Nat : x = threshold * d /\ y = threshold * e
      BY <2>5
    <3> QED  BY <2>5, <2>6, <3>1
  <2> QED  BY <2>3, <2>4, <2>6, <2>7
<1>4. ScoreKnown(reading, 1)
  <2>1. 1 \in Nat
    OBVIOUS
  <2> QED  BY <2>1, ScoreShape
<1> QED  BY <1>1, <1>2, <1>3, <1>4 DEF ScoreKnown

-----------------------------------------------------------------------------
(* Pools.                                                                  *)

LEMMA MinimalScore ==
  ASSUME NEW n \in Positive, NEW sc \in [1..n -> Scores]
  PROVE  \E i \in 1..n : \A j \in 1..n : ~Before(sc[j], sc[i])
<1> DEFINE First(m, i) == \A j \in 1..m : ~Before(sc[j], sc[i])
           S == {m \in 0..n : m = 0 \/ \E i \in 1..m : First(m, i)}
<1>1. n \in Nat /\ 0 \in S /\ n # 0
  BY DEF Positive
<1>2. ASSUME NEW m \in 1..n, m - 1 \in S PROVE m \in S
  <2>1. /\ m \in Nat /\ m - 1 \in Nat /\ 1..m = 1..(m - 1) \cup {m} /\ 1..m \subseteq 1..n
        /\ m \in 1..m
    BY <1>1
  <2>2. ~Before(sc[m], sc[m])
    BY RankingIsAnOrder
  <2>3. CASE m - 1 = 0
    <3>1. First(m, m)
      BY <2>1, <2>2, <2>3
    <3> HIDE DEF First
    <3> QED  BY <2>1, <3>1
  <2>4. ASSUME NEW i \in 1..(m - 1), First(m - 1, i) PROVE \E k \in 1..m : First(m, k)
    <3>1. i \in 1..m /\ i \in 1..n
      BY <2>1
    <3>2. CASE ~Before(sc[m], sc[i])
      <4>1. First(m, i)
        BY <2>1, <2>4, <3>2
      <4> HIDE DEF First
      <4> QED  BY <3>1, <4>1
    <3>3. CASE Before(sc[m], sc[i])
      <4>1. ASSUME NEW j \in 1..(m - 1), Before(sc[j], sc[m]) PROVE FALSE
        <5>1. sc[j] \in Scores /\ sc[m] \in Scores /\ sc[i] \in Scores
          BY <2>1, <3>1
        <5>2. Before(sc[j], sc[i])
          BY <3>3, <4>1, <5>1, RankingIsAnOrder
        <5> QED  BY <2>4, <5>2
      <4>2. First(m, m)
        BY <2>1, <2>2, <4>1
      <4> HIDE DEF First
      <4> QED  BY <2>1, <4>2
    <3> QED  BY <3>2, <3>3
  <2> HIDE DEF First
  <2> QED  BY <1>2, <2>1, <2>3, <2>4
<1>3. 0..n \subseteq S
  <2> HIDE DEF S
  <2>1. n \in Nat
    BY <1>1
  <2>2. 0 \in S
    BY <1>1
  <2>3. \A m \in 1..n : m - 1 \in S => m \in S
    BY <1>2
  <2> QED  BY <2>1, <2>2, <2>3, UpTo
<1>4. n \in S
  <2> HIDE DEF S
  <2> QED  BY <1>1, <1>3
<1> QED  BY <1>1, <1>4

\* What FirstOf finds, where there is something to find.
LEMMA FirstFound ==
  ASSUME NEW S, NEW q \in Seq(S), NEW kept, InList(q) \cap kept # {}
  PROVE  FirstOf(q, kept) \in InList(q) /\ FirstOf(q, kept) \in kept
<1> DEFINE Hits == {i \in 1..Len(q) : q[i] \in kept}
<1>1. Hits \in SUBSET Nat /\ Hits # {}
  BY DEF InList
<1>2. PICK i \in Hits : \A j \in Hits : i <= j
  <2> HIDE DEF Hits
  <2> QED  BY <1>1, LeastNumber
<1>3. i \in 1..Len(q) /\ q[i] \in kept /\ \A j \in 1..i - 1 : q[j] \notin kept
  BY <1>2
<1>4. PICK k : /\ k = CHOOSE h \in 1..Len(q) : q[h] \in kept /\ \A j \in 1..h - 1 : q[j] \notin kept
               /\ k \in 1..Len(q) /\ q[k] \in kept
  BY <1>3
<1>5. FirstOf(q, kept) = q[k]
  BY <1>4 DEF FirstOf
<1> QED  BY <1>4, <1>5 DEF InList

\* A configuration and a moment of it.
Sound(set, av) ==
  LET ids == DOMAIN set.instances
  IN /\ IsFiniteSet(ids) /\ None \notin ids
     /\ \A p \in ids : set.instances[p].enabled \in BOOLEAN
     /\ \A pool \in DOMAIN set.pools : ValidPool(ids, set.pools[pool])
     /\ ValidMoment(ids, av)

LEMMA Spareness ==
  ASSUME NEW set, NEW av, Sound(set, av), NEW p \in DOMAIN set.instances,
         NEW threshold \in Nat, HasSpare(set, av, p, threshold)
  PROVE  MayTake(set, av, p)
<1>1. /\ ValidReading(av.limits[p]) /\ av.running[p] \in Nat /\ 1 \in Nat
      /\ MayTake(set, av, p) \in BOOLEAN
  BY DEF Sound, ValidMoment, MayTake
<1> DEFINE score == Score(av.limits[p], 1, MayTake(set, av, p), av.running[p])
<1>2. score.tier = 3 <=> ~MayTake(set, av, p)
  BY <1>1, ScoreFacts
<1>3. score.tier = 0
  BY DEF HasSpare, Spare
<1> QED  BY <1>2, <1>3

LEMMA UsableTakes ==
  ASSUME NEW set, NEW av, Sound(set, av), NEW p \in DOMAIN set.instances,
         NEW sel, sel.threshold \in Nat, Usable(set, av, sel, p)
  PROVE  MayTake(set, av, p)
BY Spareness DEF Usable

LEMMA MemberScores ==
  ASSUME NEW set, NEW av, Sound(set, av), NEW sel, sel.threshold \in Nat,
         NEW m \in [id : DOMAIN set.instances, weight : Nat]
  PROVE  /\ MemberScore(set, av, sel, m) \in Scores
         /\ MemberScore(set, av, sel, m).tier = 3 <=> ~Usable(set, av, sel, m.id)
<1>1. /\ ValidReading(av.limits[m.id]) /\ av.running[m.id] \in Nat /\ m.weight \in Nat
  BY DEF Sound, ValidMoment
<1>2. Usable(set, av, sel, m.id) \in BOOLEAN
  BY DEF Usable, MayTake, HasSpare, Spare
<1> QED  BY <1>1, <1>2, ScoreFacts DEF MemberScore

\* None of the members ranks before the best one.
LEMMA BestFacts ==
  ASSUME NEW set, NEW av, Sound(set, av), NEW sel, sel.threshold \in Nat,
         NEW q \in Seq([id : DOMAIN set.instances, weight : Nat]), q # <<>>
  PROVE  /\ Best(set, av, sel, q) \in InList(q)
         /\ \A o \in InList(q) :
              ~Before(MemberScore(set, av, sel, o), MemberScore(set, av, sel, Best(set, av, sel, q)))
<1> DEFINE M == [id : DOMAIN set.instances, weight : Nat]
           Sc(m) == MemberScore(set, av, sel, m)
           n == Len(q)
           sc == [i \in 1..n |-> Sc(q[i])]
           kept == {m \in InList(q) : ~\E o \in InList(q) : Before(Sc(o), Sc(m))}
<1>1. n \in Positive /\ \A i \in 1..n : q[i] \in M
  <2> HIDE DEF M
  <2>1. q \in Seq(M)
    BY DEF M
  <2> QED  BY <2>1 DEF Positive
<1>2. sc \in [1..n -> Scores]
  <2>1. \A i \in 1..n : Sc(q[i]) \in Scores
    BY <1>1, MemberScores
  <2> HIDE DEF Sc, n
  <2> QED  BY <2>1
<1>3. PICK i \in 1..n : \A j \in 1..n : ~Before(sc[j], sc[i])
  <2> HIDE DEF sc, n
  <2> QED  BY <1>1, <1>2, MinimalScore
<1>4. q[i] \in InList(q) \cap kept
  <2>1. \A j \in 1..n : sc[j] = Sc(q[j])
    OBVIOUS
  <2> HIDE DEF sc, Sc
  <2> QED  BY <1>3, <2>1 DEF InList
<1>5. Best(set, av, sel, q) = FirstOf(q, kept)
  <2>1. ToSet(q) = InList(q)
    BY ListSet
  <2> QED  BY <2>1, Zenon DEF Best
<1> HIDE DEF kept
<1>6. Best(set, av, sel, q) \in InList(q) /\ Best(set, av, sel, q) \in kept
  BY <1>4, <1>5, FirstFound
<1> QED  BY <1>6 DEF kept

\* Pool work goes to the member that holds its session, or else to the best; to
\* one that cannot take it only when none can, and backfill work not at all then.
Preferred(set, av, sel, m) == m.id = sel.prefer /\ Usable(set, av, sel, m.id)
PoolChoice(set, av, sel, m) ==
  LET members == InList(set.pools[sel.pool]) IN
  \/ Preferred(set, av, sel, m)
  \/ /\ Usable(set, av, sel, m.id)
     /\ \A o \in members : ~Preferred(set, av, sel, o)
     /\ \A o \in members : ~Before(MemberScore(set, av, sel, o), MemberScore(set, av, sel, m))
  \/ ~sel.backfill /\ \A o \in members : ~Usable(set, av, sel, o.id)
OnMember(set, av, sel, res, m) ==
  /\ set.instances[m.id].enabled
  /\ res.on = m.id /\ res.model = ModelOn(set, m.id, sel.model)
  /\ PoolChoice(set, av, sel, m)

LEMMA PoolOutcome ==
  ASSUME NEW set, NEW av, Sound(set, av), NEW sel, sel.threshold \in Nat, sel.backfill \in BOOLEAN,
         sel.pool \in DOMAIN set.pools
  PROVE  LET members == InList(set.pools[sel.pool])
             res == ResolvePool(set, av, sel)
         IN \/ res.on = None /\ \A o \in members : ~Usable(set, av, sel, o.id)
            \/ \E m \in members : OnMember(set, av, sel, res, m)
<1> DEFINE M == [id : DOMAIN set.instances, weight : Nat]
           pool == set.pools[sel.pool]
           members == Only(pool, {m \in ToSet(pool) : Configured(set, m.id)})
           enabled == Only(members, {m \in ToSet(members) : set.instances[m.id].enabled})
           best == Best(set, av, sel, members)
           On(id) == [Goes(id, ModelOn(set, id, sel.model)) EXCEPT !.why = "pool"]
           res == ResolvePool(set, av, sel)
           U(m) == Usable(set, av, sel, m.id)
           Out(at) == \/ at.on = None /\ \A o \in InList(pool) : ~U(o)
                      \/ \E m \in InList(pool) : OnMember(set, av, sel, at, m)
           blocked == {m \in ToSet(enabled) : m.id \in av.blocked}
<1>1. pool \in Seq(M) /\ ToSet(pool) = InList(pool) /\ InList(pool) \subseteq M
  <2>1. pool \in Seq(M)
    BY DEF Sound, ValidPool
  <2> HIDE DEF pool, M
  <2> QED  BY <2>1, ListSet DEF InList
<1>2. members \in Seq(M) /\ InList(members) = InList(pool) /\ ToSet(members) = InList(pool)
  <2> DEFINE kept == {m \in ToSet(pool) : Configured(set, m.id)}
  <2>1. InList(pool) \cap kept = InList(pool)
    <3>1. \A m \in M : Configured(set, m.id)
      BY DEF Configured
    <3> HIDE DEF pool, M
    <3> QED  BY <1>1, <3>1
  <2> HIDE DEF kept, pool, M
  <2>2. Only(pool, kept) \in Seq(M) /\ InList(Only(pool, kept)) = InList(pool) \cap kept
    BY <1>1, OnlyFacts
  <2> QED  BY <2>1, <2>2, ListSet DEF kept
<1>3. /\ enabled \in Seq(M) /\ ToSet(enabled) = InList(enabled)
      /\ InList(enabled) = {m \in InList(pool) : set.instances[m.id].enabled}
  <2> DEFINE kept == {m \in ToSet(members) : set.instances[m.id].enabled}
  <2>1. InList(members) \cap kept = {m \in InList(pool) : set.instances[m.id].enabled}
    <3> HIDE DEF members, pool
    <3> QED  BY <1>2
  <2> HIDE DEF kept, pool, members, M
  <2>2. Only(members, kept) \in Seq(M) /\ InList(Only(members, kept)) = InList(members) \cap kept
    BY <1>2, OnlyFacts
  <2> QED  BY <2>1, <2>2, ListSet DEF kept
<1>4. \A m \in InList(pool) : U(m) => m \in InList(enabled)
  <2> SUFFICES ASSUME NEW m \in InList(pool), U(m) PROVE set.instances[m.id].enabled
    BY <1>3
  <2>1. m.id \in DOMAIN set.instances
    BY <1>1
  <2>2. MayTake(set, av, m.id)
    BY <2>1, UsableTakes
  <2> QED  BY <2>2 DEF MayTake, CanTake
<1>5. \A m \in InList(pool) : On(m.id).on = m.id /\ On(m.id).model = ModelOn(set, m.id, sel.model)
  BY DEF Goes
<1>6. /\ enabled = <<>> => res = Refused("switched off")
      /\ enabled # <<>> /\ (\E m \in ToSet(enabled) : m.id = sel.prefer /\ U(m)) => res = On(sel.prefer)
      /\ /\ enabled # <<>> /\ ~(\E m \in ToSet(enabled) : m.id = sel.prefer /\ U(m))
         /\ MemberScore(set, av, sel, best).tier < 3
         => res = On(best.id)
      /\ /\ enabled # <<>> /\ ~(\E m \in ToSet(enabled) : m.id = sel.prefer /\ U(m))
         /\ ~(MemberScore(set, av, sel, best).tier < 3) /\ sel.backfill
         => res = Refused("no spare")
      /\ /\ enabled # <<>> /\ ~(\E m \in ToSet(enabled) : m.id = sel.prefer /\ U(m))
         /\ ~(MemberScore(set, av, sel, best).tier < 3) /\ ~sel.backfill
         /\ (\E m \in ToSet(enabled) : m.id \in av.blocked)
         => res = On(FirstOf(enabled, blocked).id)
      /\ /\ enabled # <<>> /\ ~(\E m \in ToSet(enabled) : m.id = sel.prefer /\ U(m))
         /\ ~(MemberScore(set, av, sel, best).tier < 3) /\ ~sel.backfill
         /\ ~(\E m \in ToSet(enabled) : m.id \in av.blocked)
         => res = On(enabled[1].id)
  BY Zenon DEF ResolvePool
<1>7. \A why : Refused(why).on = None
  BY DEF Refused
<1> HIDE DEF M, pool, members, enabled, res, On, U, blocked
<1>8. CASE enabled = <<>>
  <2>1. InList(enabled) = {}
    BY <1>8 DEF InList
  <2> QED  BY <2>1, <1>4, <1>6, <1>7, <1>8 DEF pool, res, U
<1>9. enabled # <<>> => 1 \in 1..Len(enabled) /\ enabled[1] \in InList(enabled)
  BY <1>3 DEF InList
<1>10. ASSUME enabled # <<>>, NEW m \in ToSet(enabled), m.id = sel.prefer /\ U(m) PROVE Out(res)
  <2>1. res = On(m.id)
    BY <1>6, <1>10
  <2>2. m \in InList(pool) /\ set.instances[m.id].enabled
    BY <1>3
  <2>3. OnMember(set, av, sel, res, m)
    BY <1>5, <1>10, <2>1, <2>2 DEF OnMember, PoolChoice, Preferred, U
  <2> QED  BY <2>2, <2>3
<1> DEFINE none == ~\E m \in ToSet(enabled) : m.id = sel.prefer /\ U(m)
           few == MemberScore(set, av, sel, best).tier < 3
<1>11. none => \A o \in InList(pool) : ~Preferred(set, av, sel, o)
  BY <1>3, <1>4 DEF Preferred, U
<1>12. enabled # <<>> =>
         /\ best \in InList(pool) /\ best \in M
         /\ \A o \in InList(pool) :
              ~Before(MemberScore(set, av, sel, o), MemberScore(set, av, sel, best))
  <2> SUFFICES ASSUME enabled # <<>>
               PROVE  /\ best \in InList(members) /\ best \in M
                      /\ \A o \in InList(members) :
                           ~Before(MemberScore(set, av, sel, o), MemberScore(set, av, sel, best))
    BY <1>2
  <2>1. members # <<>>
    <3>1. InList(members) # {}
      BY <1>2, <1>3, <1>9
    <3> QED  BY <3>1, <1>2 DEF InList
  <2>2. members \in Seq([id : DOMAIN set.instances, weight : Nat])
    BY <1>2 DEF M
  <2>3. /\ best \in InList(members)
        /\ \A o \in InList(members) :
              ~Before(MemberScore(set, av, sel, o), MemberScore(set, av, sel, best))
    BY <2>1, <2>2, BestFacts
  <2> QED  BY <2>3, <1>1, <1>2
<1>13. ASSUME enabled # <<>>, few PROVE U(best)
  <2>1. MemberScore(set, av, sel, best).tier = 3 <=> ~U(best)
    BY <1>12, <1>13, MemberScores DEF M, U
  <2> QED  BY <2>1, <1>13
<1>14. ASSUME enabled # <<>>, ~few, NEW o \in InList(pool) PROVE ~U(o)
  <2>1. o \in [id : DOMAIN set.instances, weight : Nat] /\ best \in [id : DOMAIN set.instances, weight : Nat]
    BY <1>1, <1>12, <1>14 DEF M
  <2>2. /\ MemberScore(set, av, sel, o) \in Scores /\ MemberScore(set, av, sel, best) \in Scores
        /\ MemberScore(set, av, sel, o).tier = 3 <=> ~U(o)
    BY <2>1, MemberScores DEF U
  <2>3. ~(MemberScore(set, av, sel, o).tier < MemberScore(set, av, sel, best).tier)
    BY <2>2, <1>12, <1>14, RankingIsAnOrder
  <2>4. MemberScore(set, av, sel, o).tier \in 0..3 /\ MemberScore(set, av, sel, best).tier \in 0..3
    BY <2>2 DEF Scores
  <2> QED  BY <2>2, <2>3, <2>4, <1>14
<1> HIDE DEF few, best
<1>15. CASE enabled # <<>> /\ none /\ few
  <2>1. best \in InList(pool) /\ U(best) /\ res = On(best.id)
    BY <1>6, <1>12, <1>13, <1>15 DEF few
  <2>2. set.instances[best.id].enabled
    BY <2>1, <1>3, <1>4
  <2>3. \A o \in InList(pool) : /\ ~Preferred(set, av, sel, o)
                                /\ ~Before(MemberScore(set, av, sel, o), MemberScore(set, av, sel, best))
    BY <1>11, <1>12, <1>15
  <2>4. PoolChoice(set, av, sel, best)
    BY <2>1, <2>3 DEF PoolChoice, U, pool
  <2>5. OnMember(set, av, sel, res, best)
    BY <1>5, <2>1, <2>2, <2>4 DEF OnMember
  <2> QED  BY <2>1, <2>5 DEF pool, res, U
<1>16. CASE enabled # <<>> /\ none /\ ~few /\ sel.backfill
  <2>1. res = Refused("no spare")
    BY <1>6, <1>16 DEF few
  <2> QED  BY <2>1, <1>7, <1>14, <1>16 DEF pool, res, U
<1>17. ASSUME enabled # <<>>, ~few, ~sel.backfill, NEW m \in InList(enabled), res = On(m.id)
       PROVE  Out(res)
  <2>1. m \in InList(pool) /\ set.instances[m.id].enabled
    BY <1>3
  <2>2. PoolChoice(set, av, sel, m)
    BY <1>14, <1>17 DEF PoolChoice, U, pool
  <2>3. OnMember(set, av, sel, res, m)
    BY <1>5, <1>17, <2>1, <2>2 DEF OnMember
  <2> QED  BY <2>1, <2>3
<1>18. CASE enabled # <<>> /\ none /\ ~few /\ ~sel.backfill
  <2>1. CASE \E m \in ToSet(enabled) : m.id \in av.blocked
    <3>1. InList(enabled) \cap blocked # {}
      BY <1>3, <2>1 DEF blocked
    <3>2. FirstOf(enabled, blocked) \in InList(enabled)
      BY <1>3, <3>1, FirstFound
    <3>3. res = On(FirstOf(enabled, blocked).id)
      BY <1>6, <1>18, <2>1 DEF few
    <3> QED  BY <1>17, <1>18, <3>2, <3>3 DEF pool, res, U
  <2>2. CASE ~\E m \in ToSet(enabled) : m.id \in av.blocked
    <3>1. res = On(enabled[1].id)
      BY <1>6, <1>18, <2>2 DEF few
    <3> QED  BY <1>9, <1>17, <1>18, <3>1 DEF pool, res, U
  <2> QED  BY <2>1, <2>2
<1>19. Out(res)
  <2>1. (enabled # <<>> /\ ~none) => Out(res)
    BY <1>10
  <2> QED  BY <2>1, <1>8, <1>15, <1>16, <1>18 DEF pool, res, U
<1> QED  BY <1>19 DEF pool, res, U

-----------------------------------------------------------------------------
(* Fallbacks.                                                              *)

Hop(set, path) ==
  LET next == set.instances[Last(path)].fallback IN
  IF Configured(set, next) /\ ~Contains(path, next) THEN Append(path, next) ELSE path
Walks(set, origin, walk) ==
  LET size == Cardinality(DOMAIN set.instances) IN
  /\ walk \in [0..size -> Seq(DOMAIN set.instances)]
  /\ walk[0] = <<origin>>
  /\ \A m \in 1..size : walk[m] = Hop(set, walk[m - 1])
  /\ Chain(set, origin) = walk[size]

LEMMA ChainWalks ==
  ASSUME NEW set, IsFiniteSet(DOMAIN set.instances), NEW origin \in DOMAIN set.instances
  PROVE  \E walk : Walks(set, origin, walk)
<1> DEFINE ids == DOMAIN set.instances
           n == Cardinality(ids)
           X == Seq(ids)
           F == [m \in 1..n |-> [x \in X |-> Hop(set, x)]]
           All(f) == [m \in 0..n |-> IF m = 0 THEN <<origin>> ELSE Hop(set, f[m - 1])]
           Steps(f) == f = All(f)
<1>1. n \in Nat /\ <<origin>> \in X
  <2>1. n \in Nat
    BY FS_CardinalityType
  <2> HIDE DEF n, ids
  <2>2. <<origin>> \in Seq(ids)
    <3>1. origin \in ids
      BY DEF ids
    <3> QED  BY <3>1
  <2> QED  BY <2>1, <2>2
<1>2. \A x \in X : Hop(set, x) \in X
  <2> SUFFICES ASSUME NEW x \in Seq(ids) PROVE Hop(set, x) \in Seq(ids)
    OBVIOUS
  <2> DEFINE next == set.instances[Last(x)].fallback
  <2>1. Hop(set, x) = x \/ (next \in ids /\ Hop(set, x) = Append(x, next))
    BY DEF Hop, Configured
  <2> HIDE DEF ids, next
  <2> QED  BY <2>1
<1>3. F \in Stages(n, X)
  <2> HIDE DEF X, n
  <2> QED  BY <1>2 DEF Stages
<1>4. PICK f \in [0..n -> X] : f[0] = <<origin>> /\ \A m \in 1..n : f[m] = F[m][f[m - 1]]
  <2> HIDE DEF F, X, n
  <2>1. n \in Nat
    BY <1>1
  <2>2. <<origin>> \in X
    BY <1>1
  <2>3. Staged(n, X, <<origin>>, F)
    BY <1>3, <2>1, <2>2, Recursion
  <2> QED  BY <2>3 DEF Staged
<1>5. \A m \in 1..n : m - 1 \in 0..n /\ f[m] = Hop(set, f[m - 1])
  <2> SUFFICES ASSUME NEW m \in 1..n PROVE m - 1 \in 0..n /\ f[m] = Hop(set, f[m - 1])
    OBVIOUS
  <2>1. m - 1 \in 0..n
    BY <1>1
  <2> HIDE DEF X, n
  <2> QED  BY <2>1, <1>4
<1>6. Steps(f)
  <2> HIDE DEF X, n, F
  <2> QED  BY <1>1, <1>4, <1>5
<1> DEFINE g == CHOOSE h : Steps(h)
<1>7. Steps(g)
  <2> HIDE DEF Steps
  <2> QED  BY <1>6
<1>8. Chain(set, origin) = g[n]
  BY Zenon DEF Chain, Hop
<1> HIDE DEF g
<1>9. g[0] = <<origin>> /\ \A m \in 1..n : g[m] = Hop(set, g[m - 1])
  <2> DEFINE all == All(g)
  <2>1. g = all
    BY <1>7
  <2> HIDE DEF n
  <2>2. \A m \in 0..n : all[m] = IF m = 0 THEN <<origin>> ELSE Hop(set, g[m - 1])
    OBVIOUS
  <2> HIDE DEF all
  <2> QED  BY <1>1, <2>1, <2>2
<1>10. g \in [0..n -> X]
  <2> DEFINE S == {m \in 0..n : g[m] \in X}
  <2> HIDE DEF X, n
  <2>1. 0 \in S
    BY <1>1, <1>9, SMTT(60)
  <2>2. \A m \in 1..n : m - 1 \in S => m \in S
    BY <1>1, <1>2, <1>9
  <2>3. n \in Nat
    BY <1>1
  <2>4. 0..n \subseteq S
    <3> HIDE DEF S
    <3> QED  BY <2>1, <2>2, <2>3, UpTo
  <2>5. g = [m \in 0..n |-> g[m]]
    <3> DEFINE all == All(g)
    <3>1. g = all /\ all = [m \in 0..n |-> all[m]]
      BY <1>7
    <3> HIDE DEF all
    <3> QED  BY <3>1
  <2> QED  BY <2>4, <2>5
<1>11. Walks(set, origin, g)
  BY <1>8, <1>9, <1>10 DEF Walks
<1> QED  BY <1>11

\* The chain goes from one provider to the one it names, none twice, up to a
\* provider that names none that is new.
Linked(set, origin, path) ==
  /\ path \in Seq(DOMAIN set.instances) /\ Len(path) \in Positive
  /\ path[1] = origin /\ Once(path)
  /\ \A i \in 2..Len(path) : path[i] = set.instances[path[i - 1]].fallback
Ended(set, path) ==
  Configured(set, set.instances[Last(path)].fallback) =>
    set.instances[Last(path)].fallback \in InList(path)

LEMMA HopLinks ==
  ASSUME NEW set, NEW origin \in DOMAIN set.instances, NEW path, Linked(set, origin, path)
  PROVE  /\ Linked(set, origin, Hop(set, path))
         /\ Ended(set, path) => Hop(set, path) = path
         /\ ~Ended(set, path) => Len(Hop(set, path)) = Len(path) + 1
         /\ InList(Hop(set, path)) =
              IF Ended(set, path) THEN InList(path)
              ELSE InList(path) \cup {set.instances[Last(path)].fallback}
<1> DEFINE next == set.instances[Last(path)].fallback
           more == Append(path, next)
<1>1. Contains(path, next) <=> next \in InList(path)
  BY DEF Contains, InList
<1>2. CASE Ended(set, path)
  <2>1. Hop(set, path) = path
    BY <1>1, <1>2 DEF Ended, Hop
  <2> QED  BY <1>2, <2>1
<1>3. CASE ~Ended(set, path)
  <2>1. next \in DOMAIN set.instances /\ next \notin InList(path) /\ Hop(set, path) = more
    BY <1>1, <1>3 DEF Ended, Hop, Configured
  <2>2. /\ path \in Seq(DOMAIN set.instances) /\ Len(path) \in Nat /\ Len(path) >= 1
        /\ Once(path) /\ path[1] = origin
        /\ \A i \in 2..Len(path) : path[i] = set.instances[path[i - 1]].fallback
    BY DEF Linked, Positive
  <2>3. Last(path) = path[Len(path)]
    BY DEF Last
  <2> HIDE DEF next
  <2>4. /\ Len(more) = Len(path) + 1 /\ more[Len(path) + 1] = next
        /\ \A i \in 1..Len(path) : more[i] = path[i]
    BY <2>1, <2>2
  <2>5. more \in Seq(DOMAIN set.instances) /\ InList(more) = InList(path) \cup {next} /\ Once(more)
    BY <2>1, <2>2, AppendedOne
  <2>6. ASSUME NEW i \in 2..Len(more) PROVE more[i] = set.instances[more[i - 1]].fallback
    <3>1. i - 1 \in 1..Len(path)
      BY <2>2, <2>4
    <3>2. CASE i = Len(path) + 1
      <4>1. i - 1 = Len(path)
        BY <3>2, <2>2
      <4>2. more[i - 1] = Last(path)
        BY <2>3, <2>4, <3>1, <4>1
      <4> QED  BY <2>4, <3>2, <4>2 DEF next
    <3>3. CASE i # Len(path) + 1
      <4>1. i \in 2..Len(path) /\ i \in 1..Len(path)
        BY <3>3, <2>2, <2>4
      <4> QED  BY <2>2, <2>4, <3>1, <4>1
    <3> QED  BY <3>2, <3>3
  <2>7. Len(more) \in Positive /\ more[1] = origin
    BY <2>2, <2>4 DEF Positive
  <2>8. Linked(set, origin, more)
    BY <2>5, <2>6, <2>7 DEF Linked
  <2> QED  BY <1>3, <2>1, <2>4, <2>5, <2>8 DEF next
<1> QED  BY <1>2, <1>3

LEMMA ChainFacts ==
  ASSUME NEW set, IsFiniteSet(DOMAIN set.instances), NEW origin \in DOMAIN set.instances
  PROVE  Linked(set, origin, Chain(set, origin)) /\ Ended(set, Chain(set, origin))
<1> DEFINE ids == DOMAIN set.instances
           n == Cardinality(ids)
<1>1. PICK walk : Walks(set, origin, walk)
  BY ChainWalks
<1>2. n \in Nat
  BY FS_CardinalityType
<1>3. /\ walk[0] = <<origin>> /\ \A m \in 1..n : walk[m] = Hop(set, walk[m - 1])
      /\ Chain(set, origin) = walk[n]
  BY <1>1 DEF Walks
<1> DEFINE Good(m) == /\ Linked(set, origin, walk[m])
                      /\ Ended(set, walk[m]) \/ Len(walk[m]) = m + 1
           S == {m \in 0..n : Good(m)}
<1>4. 0 \in S
  <2>1. PICK path : path = <<origin>>
    OBVIOUS
  <2>2. path \in Seq(ids) /\ Len(path) = 1 /\ path[1] = origin
    BY <2>1, Alone
  <2> HIDE DEF ids, n
  <2>3. Once(path) /\ 2..Len(path) = {}
    BY <2>2 DEF Once
  <2>4. Linked(set, origin, path)
    BY <2>2, <2>3 DEF Linked, Positive, ids
  <2> QED  BY <1>2, <1>3, <2>1, <2>2, <2>4
<1>5. ASSUME NEW m \in 1..n, m - 1 \in S PROVE m \in S
  <2>1. PICK path : path = walk[m - 1]
    OBVIOUS
  <2>2. Linked(set, origin, path) /\ (Ended(set, path) \/ Len(path) = m) /\ walk[m] = Hop(set, path)
    <3> HIDE DEF n
    <3> QED  BY <1>2, <1>3, <1>5, <2>1
  <2>3. Linked(set, origin, walk[m])
    BY <2>2, HopLinks
  <2>4. Ended(set, walk[m]) \/ Len(walk[m]) = m + 1
    BY <2>2, HopLinks
  <2> HIDE DEF n
  <2> QED  BY <1>2, <2>3, <2>4
<1>6. Good(n)
  <2> HIDE DEF S, n
  <2>1. 0..n \subseteq S
    BY <1>2, <1>4, <1>5, UpTo
  <2>2. n \in S
    BY <1>2, <2>1
  <2> QED  BY <2>2 DEF S
<1>7. ASSUME Len(walk[n]) = n + 1 PROVE FALSE
  <2>1. PICK path : path = walk[n] /\ path \in Seq(ids) /\ Len(path) = n + 1 /\ Once(path)
    BY <1>6, <1>7 DEF Linked
  <2>2. path \in [1..(n + 1) -> ids]
    <3> HIDE DEF n, ids
    <3> QED  BY <2>1
  <2>3. IsFiniteSet(1..(n + 1)) /\ Cardinality(1..(n + 1)) = n + 1
    <3>1. 1 \in Int /\ n + 1 \in Int /\ ~(1 > n + 1)
      BY <1>2
    <3>2. IsFiniteSet(1..(n + 1)) /\ Cardinality(1..(n + 1)) = IF 1 > n + 1 THEN 0 ELSE (n + 1) - 1 + 1
      BY <3>1, FS_Interval
    <3> HIDE DEF n
    <3> QED  BY <1>2, <3>1, <3>2
  <2>4. Cardinality(ids) < Cardinality(1..(n + 1))
    <3>1. n < n + 1
      BY <1>2
    <3> QED  BY <2>3, <3>1
  <2>5. \E i, j \in 1..(n + 1) : i # j /\ path[i] = path[j]
    <3>1. IsFiniteSet(ids)
      OBVIOUS
    <3> HIDE DEF n, ids
    <3> QED  BY <2>2, <2>3, <2>4, <3>1, FS_PigeonHole
  <2> HIDE DEF n
  <2> QED  BY <2>1, <2>5 DEF Once
<1> QED  BY <1>3, <1>6, <1>7

\* Whom a provider hands work to, one step further.
Further(set, S) ==
  S \union ({set.instances[p].fallback : p \in S} \intersect DOMAIN set.instances)
Closes(set, origin, closure) ==
  LET size == Cardinality(DOMAIN set.instances) IN
  /\ closure[0] = {origin}
  /\ \A m \in 1..size : closure[m] = Further(set, closure[m - 1])
  /\ Reachable(set, origin) = closure[size]

LEMMA ReachableCloses ==
  ASSUME NEW set, IsFiniteSet(DOMAIN set.instances), NEW origin \in DOMAIN set.instances
  PROVE  \E closure : Closes(set, origin, closure)
<1> DEFINE ids == DOMAIN set.instances
           n == Cardinality(ids)
           X == SUBSET ids
           F == [m \in 1..n |-> [x \in X |-> Further(set, x)]]
           All(f) == [m \in 0..n |-> IF m = 0 THEN {origin} ELSE Further(set, f[m - 1])]
           Steps(f) == f = All(f)
<1>1. n \in Nat /\ {origin} \in X
  BY FS_CardinalityType
<1>2. \A x \in X : Further(set, x) \in X
  BY DEF Further
<1>3. F \in Stages(n, X)
  <2> HIDE DEF X, n
  <2> QED  BY <1>2 DEF Stages
<1>4. PICK f \in [0..n -> X] : f[0] = {origin} /\ \A m \in 1..n : f[m] = F[m][f[m - 1]]
  <2> HIDE DEF F, X, n
  <2>1. n \in Nat
    BY <1>1
  <2>2. {origin} \in X
    BY <1>1
  <2>3. Staged(n, X, {origin}, F)
    BY <1>3, <2>1, <2>2, Recursion
  <2> QED  BY <2>3 DEF Staged
<1>5. \A m \in 1..n : m - 1 \in 0..n /\ f[m] = Further(set, f[m - 1])
  <2> SUFFICES ASSUME NEW m \in 1..n PROVE m - 1 \in 0..n /\ f[m] = Further(set, f[m - 1])
    OBVIOUS
  <2>1. m - 1 \in 0..n
    BY <1>1
  <2> HIDE DEF X, n
  <2> QED  BY <2>1, <1>4
<1>6. Steps(f)
  <2> HIDE DEF X, n, F
  <2> QED  BY <1>1, <1>4, <1>5
<1> DEFINE g == CHOOSE h : Steps(h)
<1>7. Steps(g)
  <2> HIDE DEF Steps
  <2> QED  BY <1>6
<1>8. Reachable(set, origin) = g[n]
  BY Zenon DEF Reachable, Further
<1> HIDE DEF g
<1>9. g[0] = {origin} /\ \A m \in 1..n : g[m] = Further(set, g[m - 1])
  <2> DEFINE all == All(g)
  <2>1. g = all
    BY <1>7
  <2> HIDE DEF n
  <2>2. \A m \in 0..n : all[m] = IF m = 0 THEN {origin} ELSE Further(set, g[m - 1])
    OBVIOUS
  <2> HIDE DEF all
  <2> QED  BY <1>1, <2>1, <2>2
<1>10. Closes(set, origin, g)
  BY <1>8, <1>9 DEF Closes
<1> QED  BY <1>10

\* The walk along the fallbacks meets exactly the providers that can be reached
\* over them, however the fallbacks are wired (Set.ResolveAvailable).
THEOREM ChainIsReachable ==
  ASSUME NEW set, IsFiniteSet(DOMAIN set.instances), NEW origin \in DOMAIN set.instances
  PROVE  Reachable(set, origin) = InList(Chain(set, origin))
<1> DEFINE ids == DOMAIN set.instances
           n == Cardinality(ids)
           chain == Chain(set, origin)
<1>1. PICK walk, closure : Walks(set, origin, walk) /\ Closes(set, origin, closure)
  BY ChainWalks, ReachableCloses
<1>2. n \in Nat
  BY FS_CardinalityType
<1>3. /\ walk[0] = <<origin>> /\ \A m \in 1..n : walk[m] = Hop(set, walk[m - 1])
      /\ chain = walk[n]
      /\ closure[0] = {origin} /\ \A m \in 1..n : closure[m] = Further(set, closure[m - 1])
      /\ Reachable(set, origin) = closure[n]
  BY <1>1 DEF Walks, Closes
<1>4. Linked(set, origin, chain) /\ Ended(set, chain)
  BY ChainFacts
<1>5. origin \in InList(chain)
  BY <1>4 DEF Linked, InList, Positive
<1>6. ASSUME NEW p \in InList(chain), set.instances[p].fallback \in ids
      PROVE  set.instances[p].fallback \in InList(chain)
  <2>1. PICK i \in 1..Len(chain) : p = chain[i]
    BY DEF InList
  <2>2. Len(chain) \in Nat
    BY <1>4 DEF Linked, Positive
  <2>3. CASE i = Len(chain)
    BY <1>4, <1>6, <2>1, <2>3 DEF Ended, Configured, Last
  <2>4. CASE i # Len(chain)
    <3>1. i + 1 \in 2..Len(chain) /\ i + 1 \in 1..Len(chain) /\ (i + 1) - 1 = i
      BY <2>2, <2>4
    <3>2. chain[i + 1] = set.instances[p].fallback
      BY <1>4, <2>1, <3>1 DEF Linked
    <3> QED  BY <3>1, <3>2 DEF InList
  <2> QED  BY <2>3, <2>4
<1> HIDE DEF chain
<1> DEFINE S == {m \in 0..n : closure[m] \subseteq InList(chain)}
           T == {m \in 0..n : Linked(set, origin, walk[m]) /\ InList(walk[m]) \subseteq closure[m]}
<1>7. n \in S
  <2> HIDE DEF n
  <2>1. 0 \in S
    BY <1>2, <1>3, <1>5
  <2>2. ASSUME NEW m \in 1..n, m - 1 \in S PROVE m \in S
    <3>1. closure[m] = Further(set, closure[m - 1]) /\ closure[m - 1] \subseteq InList(chain)
      BY <1>3, <2>2
    <3>2. closure[m] \subseteq InList(chain)
      BY <1>6, <3>1 DEF Further
    <3> QED  BY <1>2, <3>2
  <2>3. 0..n \subseteq S
    <3> HIDE DEF S
    <3> QED  BY <1>2, <2>1, <2>2, UpTo
  <2> HIDE DEF S
  <2> QED  BY <1>2, <2>3
<1>8. n \in T
  <2> HIDE DEF n
  <2>1. 0 \in T
    <3>1. PICK path : path = <<origin>>
      OBVIOUS
    <3>2. path \in Seq(ids) /\ Len(path) = 1 /\ path[1] = origin
      BY <3>1, Alone
    <3> HIDE DEF ids
    <3>3. Once(path) /\ 2..Len(path) = {} /\ InList(path) = {origin}
      BY <3>2 DEF Once, InList
    <3>4. Linked(set, origin, path)
      BY <3>2, <3>3 DEF Linked, Positive, ids
    <3> QED  BY <1>2, <1>3, <3>1, <3>3, <3>4
  <2>2. ASSUME NEW m \in 1..n, m - 1 \in T PROVE m \in T
    <3>1. PICK path : path = walk[m - 1]
      OBVIOUS
    <3>2. /\ Linked(set, origin, path) /\ InList(path) \subseteq closure[m - 1]
          /\ walk[m] = Hop(set, path) /\ closure[m] = Further(set, closure[m - 1])
      BY <1>3, <2>2, <3>1
    <3>3. Linked(set, origin, walk[m])
      BY <3>2, HopLinks
    <3>4. InList(walk[m]) \subseteq closure[m]
      <4>1. CASE Ended(set, path)
        <5>1. InList(walk[m]) = InList(path)
          BY <3>2, <4>1, HopLinks
        <5> QED  BY <3>2, <5>1 DEF Further
      <4>2. CASE ~Ended(set, path)
        <5>1. InList(walk[m]) = InList(path) \cup {set.instances[Last(path)].fallback}
          BY <3>2, <4>2, HopLinks
        <5>2. Last(path) \in InList(path)
          BY <3>2 DEF Linked, Last, InList, Positive
        <5>3. set.instances[Last(path)].fallback \in ids
          BY <4>2 DEF Ended, Configured
        <5> QED  BY <3>2, <5>1, <5>2, <5>3 DEF Further
      <4> QED  BY <4>1, <4>2
    <3> QED  BY <1>2, <3>3, <3>4
  <2>3. 0..n \subseteq T
    <3> HIDE DEF T
    <3> QED  BY <1>2, <2>1, <2>2, UpTo
  <2> HIDE DEF T
  <2> QED  BY <1>2, <2>3
<1>9. closure[n] \subseteq InList(chain) /\ InList(walk[n]) \subseteq closure[n]
  BY <1>7, <1>8
<1>10. Reachable(set, origin) = InList(chain)
  <2> HIDE DEF n
  <2> QED  BY <1>3, <1>9
<1> QED  BY <1>10 DEF chain

-----------------------------------------------------------------------------
(* Work that names a provider.                                             *)

Origin(set, sel) == IF sel.provider = None THEN set.default ELSE sel.provider

\* It stays where it belongs, or goes to one along the chain that may take it.
Stays(set, av, sel, res) ==
  LET id == Origin(set, sel) IN
  /\ res.on = id /\ res.model = ModelOn(set, id, sel.model)
  /\ sel.backfill => HasSpare(set, av, id, sel.threshold)
  /\ id \in av.blocked => /\ ~sel.backfill
                          /\ \A p \in Reachable(set, id) : ~MayTake(set, av, p)
Moves(set, av, sel, res) ==
  LET id == Origin(set, sel)
      chain == Chain(set, id)
  IN /\ ~sel.backfill /\ id \in av.blocked
     /\ \E i \in 2..Len(chain) :
          /\ MayTake(set, av, chain[i])
          /\ res.on = chain[i]
          /\ res.model = FallbackModel(set, id, chain[i - 1], chain[i], sel.model)

LEMMA NamedOutcome ==
  ASSUME NEW set, NEW av, Sound(set, av), NEW sel, sel.threshold \in Nat, sel.pool = None
  PROVE  LET res == ResolveAvailable(set, av, sel)
             id == Origin(set, sel)
         IN \/ res.on = None
            \/ /\ id \in DOMAIN set.instances /\ set.instances[id].enabled
               /\ Stays(set, av, sel, res) \/ Moves(set, av, sel, res)
<1> DEFINE ids == DOMAIN set.instances
           id == Origin(set, sel)
           at == Resolve(set, sel)
           res == ResolveAvailable(set, av, sel)
           chain == Chain(set, id)
           hops == {i \in 2..Len(chain) : MayTake(set, av, chain[i])}
           hop == Min(hops)
<1>1. \/ at.on = None
      \/ /\ id \in ids /\ id # None /\ set.instances[id].enabled
         /\ at.on = id /\ at.model = ModelOn(set, id, sel.model)
  BY DEF Resolve, Refused, Goes, Configured, Origin, Sound
<1>2. CASE at.on = None
  BY <1>2 DEF ResolveAvailable
<1>3. CASE at.on # None
  <2>1. /\ id \in ids /\ id # None /\ set.instances[id].enabled
        /\ at.on = id /\ at.model = ModelOn(set, id, sel.model)
    BY <1>1, <1>3
  <2>2. /\ sel.backfill /\ HasSpare(set, av, id, sel.threshold) => res = at
        /\ sel.backfill /\ ~HasSpare(set, av, id, sel.threshold) => res = Refused("no spare")
        /\ ~sel.backfill /\ (id \notin av.blocked \/ hops = {}) => res = at
        /\ ~sel.backfill /\ ~(id \notin av.blocked \/ hops = {}) =>
             res = [on |-> chain[hop], why |-> "fallback", from |-> id,
                    model |-> FallbackModel(set, id, chain[hop - 1], chain[hop], sel.model)]
    <3>1. sel.pool = None /\ at.on # None /\ at.on = id
      BY <1>3, <2>1
    <3> QED  BY <3>1, Zenon DEF ResolveAvailable
  <2> HIDE DEF at, res, id, chain
  <2>3. CASE sel.backfill /\ HasSpare(set, av, id, sel.threshold)
    <3>1. id \notin av.blocked
      BY <2>1, <2>3, Spareness DEF MayTake
    <3>2. Stays(set, av, sel, res)
      BY <2>1, <2>2, <2>3, <3>1 DEF Stays, id
    <3> QED  BY <2>1, <3>2 DEF res, id
  <2>4. CASE sel.backfill /\ ~HasSpare(set, av, id, sel.threshold)
    <3>1. res.on = None
      <4>1. res = Refused("no spare")
        BY <2>2, <2>4, Zenon
      <4> QED  BY <4>1 DEF Refused
    <3> QED  BY <3>1 DEF res
  <2>5. CASE ~sel.backfill /\ (id \notin av.blocked \/ hops = {})
    <3>1. ASSUME id \in av.blocked, NEW p \in Reachable(set, id) PROVE ~MayTake(set, av, p)
      <4>1. Reachable(set, id) = InList(chain) /\ Linked(set, id, chain)
        BY <2>1, ChainIsReachable, ChainFacts DEF Sound, chain
      <4>2. PICK i \in 1..Len(chain) : p = chain[i]
        BY <3>1, <4>1 DEF InList
      <4>3. CASE i = 1
        BY <3>1, <4>1, <4>2, <4>3 DEF Linked, MayTake
      <4>4. CASE i # 1
        <5>1. i \in 2..Len(chain)
          BY <4>1, <4>4 DEF Linked, Positive
        <5> QED  BY <2>5, <3>1, <4>2, <5>1
      <4> QED  BY <4>3, <4>4
    <3>2. Stays(set, av, sel, res)
      BY <2>1, <2>2, <2>5, <3>1 DEF Stays, id
    <3> QED  BY <2>1, <3>2 DEF res, id
  <2>6. CASE ~sel.backfill /\ ~(id \notin av.blocked \/ hops = {})
    <3>1. hop \in hops
      <4>1. hops \in SUBSET Nat /\ hops # {}
        <5>1. \A i \in 2..Len(chain) : i \in Nat
          OBVIOUS
        <5> QED  BY <2>6, <5>1
      <4>2. PICK least \in hops : \A i \in hops : least <= i
        <5> HIDE DEF hops
        <5> QED  BY <4>1, LeastNumber
      <4> HIDE DEF hops
      <4> QED  BY <4>2 DEF Min
    <3>2. /\ res.on = chain[hop]
          /\ res.model = FallbackModel(set, id, chain[hop - 1], chain[hop], sel.model)
      <4>1. res = [on |-> chain[hop], why |-> "fallback", from |-> id,
                   model |-> FallbackModel(set, id, chain[hop - 1], chain[hop], sel.model)]
        BY <2>2, <2>6, Zenon
      <4> HIDE DEF hop
      <4> QED  BY <4>1
    <3> HIDE DEF hop
    <3>3. Moves(set, av, sel, res)
      BY <2>6, <3>1, <3>2 DEF Moves, id, chain
    <3> QED  BY <2>1, <3>3 DEF res, id
  <2> QED  BY <2>3, <2>4, <2>5, <2>6
<1> QED  BY <1>2, <1>3

-----------------------------------------------------------------------------
(* The plan of a pass.                                                     *)

Known == task \in Definitions /\ world \in Worlds
Ids == DOMAIN world.set.instances
Counts == [Ids -> Nat]

\* What a task is answered when so many runs are planned, and the runs then.
Seen(c) == [world.av EXCEPT !.running = c]
Answer(t, c) == ResolveAvailable(world.set, Seen(c), Selection(t))
Takes(t, c) ==
  ~task[t].script /\ Answer(t, c).on # None /\ Answer(t, c).on \notin world.av.blocked
Counted(t, c) == IF Takes(t, c) THEN [c EXCEPT ![Answer(t, c).on] = @ + 1] ELSE c

LEMMA SeenSound ==
  ASSUME Known, NEW c \in Counts
  PROVE  /\ Sound(world.set, Seen(c))
         /\ Seen(c).blocked = world.av.blocked /\ Seen(c).unready = world.av.unready
         /\ Seen(c).limits = world.av.limits /\ Seen(c).running = c
         /\ world.av.running \in Counts
<1>1. Sound(world.set, world.av)
  BY WorldsAssumption DEF Known, Sound
<1>2. PICK av : av = world.av /\ ValidMoment(Ids, av)
  BY <1>1 DEF Sound, Ids
<1>3. DOMAIN av = {"blocked", "unready", "limits", "running"} /\ av.running \in Counts
  BY <1>2 DEF ValidMoment, Counts
<1>4. PICK seen : seen = [av EXCEPT !.running = c]
  OBVIOUS
<1>5. /\ DOMAIN seen = {"blocked", "unready", "limits", "running"}
      /\ seen.blocked = av.blocked /\ seen.unready = av.unready
      /\ seen.limits = av.limits /\ seen.running = c
  BY <1>3, <1>4
<1>6. ValidMoment(Ids, seen)
  BY <1>2, <1>5 DEF ValidMoment, Counts
<1>7. Seen(c) = seen
  BY <1>2, <1>4 DEF Seen
<1>8. Sound(world.set, seen)
  BY <1>1, <1>6 DEF Sound, Ids
<1> QED  BY <1>2, <1>3, <1>5, <1>7, <1>8

LEMMA SelectionFacts ==
  ASSUME Known, NEW t \in Tasks
  PROVE  /\ Selection(t).threshold = Threshold /\ Threshold \in Nat
         /\ Selection(t).backfill = task[t].backfill /\ task[t].backfill \in BOOLEAN
         /\ Selection(t).pool = task[t].pool /\ Selection(t).model = task[t].model
         /\ Selection(t).prefer = IF task[t].pool = None THEN None ELSE world.holder
         /\ Origin(world.set, Selection(t)) = Named(t)
BY DefinitionsAssumption, ThresholdAssumption DEF Known, Selection, Origin, Named

\* The answer for a pool task, and for one that names a provider.
Pool(t) == InList(world.set.pools[task[t].pool])
PoolAnswer(t, c) ==
  LET res == Answer(t, c)
      av == Seen(c)
      sel == Selection(t)
  IN \/ res.on = None /\ task[t].pool \notin DOMAIN world.set.pools
     \/ /\ task[t].pool \in DOMAIN world.set.pools
        /\ \/ res.on = None /\ \A o \in Pool(t) : ~Usable(world.set, av, sel, o.id)
           \/ \E m \in Pool(t) : m.id \in Ids /\ OnMember(world.set, av, sel, res, m)
NamedAnswer(t, c) ==
  LET res == Answer(t, c) IN
  \/ res.on = None
  \/ /\ Named(t) \in Ids /\ world.set.instances[Named(t)].enabled
     /\ \/ Stays(world.set, Seen(c), Selection(t), res)
        \/ Moves(world.set, Seen(c), Selection(t), res)

LEMMA Answers ==
  ASSUME Known, NEW t \in Tasks, NEW c \in Counts
  PROVE  /\ task[t].pool # None => PoolAnswer(t, c)
         /\ task[t].pool = None => NamedAnswer(t, c)
         /\ Answer(t, c).on = None \/ Answer(t, c).on \in Ids
<1> DEFINE set == world.set
           av == Seen(c)
           sel == Selection(t)
           res == Answer(t, c)
<1>1. Sound(set, av)
  BY SeenSound
<1>2. /\ sel.threshold \in Nat /\ sel.backfill \in BOOLEAN /\ sel.pool = task[t].pool
      /\ Origin(set, sel) = Named(t)
  BY SelectionFacts
<1> HIDE DEF av, sel
<1>3. ASSUME task[t].pool # None PROVE PoolAnswer(t, c) /\ (res.on = None \/ res.on \in Ids)
  <2>1. res = ResolvePool(set, av, sel)
    BY <1>2, <1>3 DEF Answer, ResolveAvailable, av, sel
  <2> HIDE DEF res
  <2>2. CASE sel.pool \notin DOMAIN set.pools
    <3>1. res.on = None
      BY <2>1, <2>2 DEF ResolvePool, Refused
    <3> QED  BY <3>1, <2>2, <1>2, SMTT(60) DEF PoolAnswer, res
  <2>3. CASE sel.pool \in DOMAIN set.pools
    <3>1. \/ res.on = None /\ \A o \in InList(set.pools[sel.pool]) : ~Usable(set, av, sel, o.id)
          \/ \E m \in InList(set.pools[sel.pool]) : OnMember(set, av, sel, res, m)
      BY <1>1, <1>2, <2>1, <2>3, PoolOutcome
    <3>2. \A m \in InList(set.pools[sel.pool]) : m.id \in Ids
      <4>1. PICK pool : pool = set.pools[sel.pool] /\ pool \in Seq([id : Ids, weight : Nat])
        BY <1>1, <2>3 DEF Sound, ValidPool, Ids
      <4>2. \A i \in 1..Len(pool) : pool[i] \in [id : Ids, weight : Nat]
        <5> DEFINE M == [id : Ids, weight : Nat]
        <5> HIDE DEF M
        <5>1. pool \in Seq(M)
          BY <4>1 DEF M
        <5>2. \A i \in 1..Len(pool) : pool[i] \in M
          BY <5>1
        <5> QED  BY <5>2 DEF M
      <4> QED  BY <4>1, <4>2 DEF InList
    <3>3. res.on = None \/ res.on \in Ids
      BY <3>1, <3>2 DEF OnMember
    <3>4. PoolAnswer(t, c)
      BY <3>1, <3>2, <2>3, <1>2 DEF PoolAnswer, Pool, res, av, sel
    <3> QED  BY <3>3, <3>4
  <2> QED  BY <2>2, <2>3 DEF res
<1>4. ASSUME task[t].pool = None PROVE NamedAnswer(t, c) /\ (res.on = None \/ res.on \in Ids)
  <2>1. \/ res.on = None
        \/ /\ Origin(set, sel) \in DOMAIN set.instances
           /\ set.instances[Origin(set, sel)].enabled
           /\ Stays(set, av, sel, res) \/ Moves(set, av, sel, res)
    BY <1>1, <1>2, <1>4, NamedOutcome DEF Answer, av, sel
  <2>2. NamedAnswer(t, c)
    BY <2>1, <1>2 DEF NamedAnswer, Ids, av, sel
  <2>3. ASSUME Named(t) \in Ids, Moves(set, av, sel, res) PROVE res.on \in Ids
    <3>1. PICK chain : chain = Chain(set, Named(t)) /\ chain \in Seq(Ids)
      BY <1>1, <2>3, ChainFacts DEF Sound, Linked, Ids
    <3>2. \E i \in 2..Len(chain) : res.on = chain[i]
      BY <2>3, <3>1, <1>2 DEF Moves
    <3> QED  BY <3>1, <3>2
  <2>4. res.on = None \/ res.on \in Ids
    BY <2>1, <2>3, <1>2 DEF Stays, Ids
  <2> QED  BY <2>2, <2>4
<1> QED  BY <1>3, <1>4

PlaceOf(t, c) == IF task[t].script THEN Goes(None, None) ELSE Answer(t, c)
Plan(q, p, count) ==
  /\ count \in [0..Len(q) -> Counts] /\ count[0] = world.av.running
  /\ \A i \in 1..Len(q) : /\ i - 1 \in 0..Len(q)
                          /\ count[i] = Counted(q[i], count[i - 1])
                          /\ p[q[i]] = PlaceOf(q[i], count[i - 1])

\* One task more in the pass, as the model has it.
PassNext(t, before) ==
  LET av  == [world.av EXCEPT !.running = before.planned]
      res == ResolveAvailable(world.set, av, Selection(t))
  IN IF task[t].script
     THEN [before EXCEPT !.on = Append(@, Goes(None, None))]
     ELSE [on |-> Append(before.on, res),
           planned |-> IF res.on = None \/ res.on \in av.blocked
                       THEN before.planned
                       ELSE [before.planned EXCEPT ![res.on] = @ + 1]]
Places == {Goes(None, None)} \cup {Answer(t, c) : t \in Tasks, c \in Counts}
Passes == [on : Seq(Places), planned : Counts]

LEMMA CountedType ==
  ASSUME Known, NEW t \in Tasks, NEW c \in Counts
  PROVE  Counted(t, c) \in Counts /\ PlaceOf(t, c) \in Places
<1>1. PlaceOf(t, c) \in Places
  BY DEF PlaceOf, Places
<1>2. CASE Takes(t, c)
  <2>1. Answer(t, c).on \in Ids
    BY <1>2, Answers DEF Takes
  <2>2. PICK at : at = Answer(t, c).on
    OBVIOUS
  <2>3. [c EXCEPT ![at] = @ + 1] \in Counts
    BY <2>1, <2>2 DEF Counts
  <2> QED  BY <1>1, <1>2, <2>2, <2>3 DEF Counted
<1>3. CASE ~Takes(t, c)
  BY <1>1, <1>3 DEF Counted
<1> QED  BY <1>2, <1>3

LEMMA PassNextFacts ==
  ASSUME Known, NEW t \in Tasks, NEW before \in Passes
  PROVE  /\ PassNext(t, before) \in Passes
         /\ PassNext(t, before).on = Append(before.on, PlaceOf(t, before.planned))
         /\ PassNext(t, before).planned = Counted(t, before.planned)
<1>1. PICK on \in Seq(Places), c \in Counts : before = [on |-> on, planned |-> c]
  BY DEF Passes
<1>2. before.on = on /\ before.planned = c
  BY <1>1
<1>3. /\ Counted(t, c) \in Counts /\ PlaceOf(t, c) \in Places
      /\ Seen(c).blocked = world.av.blocked
  BY CountedType, SeenSound
<1>4. PassNext(t, before) = [on |-> Append(on, PlaceOf(t, c)), planned |-> Counted(t, c)]
  <2>1. CASE task[t].script
    <3>1. PassNext(t, before) = [before EXCEPT !.on = Append(@, Goes(None, None))]
      BY <2>1 DEF PassNext
    <3>2. PassNext(t, before) = [on |-> Append(on, Goes(None, None)), planned |-> c]
      BY <3>1, <1>1
    <3>3. PlaceOf(t, c) = Goes(None, None) /\ Counted(t, c) = c
      BY <2>1 DEF PlaceOf, Counted, Takes
    <3> QED  BY <3>2, <3>3
  <2>2. CASE ~task[t].script
    <3>1. PlaceOf(t, c) = Answer(t, c)
      BY <2>2 DEF PlaceOf
    <3>2. Counted(t, c) = IF Answer(t, c).on = None \/ Answer(t, c).on \in Seen(c).blocked
                          THEN c ELSE [c EXCEPT ![Answer(t, c).on] = @ + 1]
      BY <2>2, <1>3 DEF Counted, Takes
    <3>3. PassNext(t, before) =
            [on |-> Append(before.on, Answer(t, before.planned)),
             planned |-> IF \/ Answer(t, before.planned).on = None
                            \/ Answer(t, before.planned).on \in Seen(before.planned).blocked
                         THEN before.planned
                         ELSE [before.planned EXCEPT ![Answer(t, before.planned).on] = @ + 1]]
      BY <2>2, Zenon DEF PassNext, Answer, Seen
    <3>4. PassNext(t, before) =
            [on |-> Append(on, Answer(t, c)),
             planned |-> IF Answer(t, c).on = None \/ Answer(t, c).on \in Seen(c).blocked
                         THEN c ELSE [c EXCEPT ![Answer(t, c).on] = @ + 1]]
      BY <3>3, <1>2, Zenon
    <3> QED  BY <3>1, <3>2, <3>4, Zenon
  <2> QED  BY <2>1, <2>2
<1>5. Append(on, PlaceOf(t, c)) \in Seq(Places)
  BY <1>3
<1> QED  BY <1>2, <1>3, <1>4, <1>5 DEF Passes

LEMMA PlacedPlan ==
  ASSUME Known, NEW q \in Seq(Tasks), Once(q)
  PROVE  \E count : Plan(q, Placed(q), count)
<1> DEFINE n == Len(q)
           X == Passes
           b0 == [on |-> <<>>, planned |-> world.av.running]
           F == [m \in 1..n |-> [x \in X |-> PassNext(q[m], x)]]
           All(f) == [m \in 0..n |-> IF m = 0 THEN b0 ELSE PassNext(q[m], f[m - 1])]
           Steps(f) == f = All(f)
<1>1. n \in Nat /\ \A m \in 1..n : q[m] \in Tasks
  OBVIOUS
<1>2. b0 \in X
  <2>1. world.av.running \in Counts
    BY WorldsAssumption DEF Known, ValidMoment, Counts, Ids
  <2>2. <<>> \in Seq(Places)
    OBVIOUS
  <2> QED  BY <2>1, <2>2 DEF Passes
<1>3. \A m \in 1..n : \A x \in X : PassNext(q[m], x) \in X
  BY <1>1, PassNextFacts
<1>4. F \in Stages(n, X)
  <2> HIDE DEF X, n
  <2> QED  BY <1>3 DEF Stages
<1>5. PICK f \in [0..n -> X] : f[0] = b0 /\ \A m \in 1..n : f[m] = F[m][f[m - 1]]
  <2> HIDE DEF F, X, n, b0
  <2>1. n \in Nat
    BY <1>1
  <2>2. Staged(n, X, b0, F)
    BY <1>2, <1>4, <2>1, Recursion
  <2> QED  BY <2>2 DEF Staged
<1>6. \A m \in 1..n : m - 1 \in 0..n /\ f[m] = PassNext(q[m], f[m - 1])
  <2> SUFFICES ASSUME NEW m \in 1..n PROVE m - 1 \in 0..n /\ f[m] = PassNext(q[m], f[m - 1])
    OBVIOUS
  <2>1. m - 1 \in 0..n
    BY <1>1
  <2> HIDE DEF X, n
  <2> QED  BY <2>1, <1>5
<1>7. Steps(f)
  <2> HIDE DEF X, n, F, b0
  <2> QED  BY <1>1, <1>5, <1>6
<1> DEFINE g == CHOOSE h : Steps(h)
           on == g[n].on
<1>8. Steps(g)
  <2> HIDE DEF Steps
  <2> QED  BY <1>7
<1>9. Placed(q) = [t \in ToSet(q) |-> on[CHOOSE i \in DOMAIN q : q[i] = t]]
  BY Zenon DEF Placed, PassNext
<1> HIDE DEF g
<1>10. g[0] = b0 /\ \A m \in 1..n : g[m] = PassNext(q[m], g[m - 1])
  <2> DEFINE all == All(g)
  <2>1. g = all
    BY <1>8
  <2> HIDE DEF n, b0
  <2>2. \A m \in 0..n : all[m] = IF m = 0 THEN b0 ELSE PassNext(q[m], g[m - 1])
    OBVIOUS
  <2> HIDE DEF all
  <2> QED  BY <1>1, <2>1, <2>2
<1> DEFINE Good(m) == /\ g[m] \in X /\ Len(g[m].on) = m
                      /\ \A i \in 1..m : g[m].on[i] = PlaceOf(q[i], g[i - 1].planned)
           S == {m \in 0..n : Good(m)}
<1>11. 0 \in S
  BY <1>1, <1>2, <1>10
<1>12. ASSUME NEW m \in 1..n, m - 1 \in S PROVE m \in S
  <2>1. m \in Nat /\ 1..m = 1..(m - 1) \cup {m} /\ m - 1 \in Nat
    BY <1>1
  <2>2. PICK before \in Passes : before = g[m - 1]
    <3>1. Good(m - 1)
      <4> HIDE DEF Good
      <4> QED  BY <1>12
    <3> QED  BY <3>1
  <2>3. /\ g[m] \in Passes /\ g[m].on = Append(before.on, PlaceOf(q[m], before.planned))
    <3>1. g[m] = PassNext(q[m], before) /\ q[m] \in Tasks
      <4> HIDE DEF n, b0
      <4> QED  BY <1>1, <1>10, <2>2, Zenon
    <3> QED  BY <3>1, PassNextFacts
  <2>4. PICK old \in Seq(Places) : /\ old = before.on /\ Len(old) = m - 1
                                   /\ \A i \in 1..(m - 1) : old[i] = PlaceOf(q[i], g[i - 1].planned)
    <3>1. Good(m - 1)
      <4> HIDE DEF Good
      <4> QED  BY <1>12
    <3>2. before.on \in Seq(Places)
      BY DEF Passes
    <3> QED  BY <2>2, <3>1, <3>2
  <2>5. PICK new : new = Append(old, PlaceOf(q[m], g[m - 1].planned)) /\ g[m].on = new
    BY <2>2, <2>3, <2>4
  <2>6. Len(new) = m /\ new[m] = PlaceOf(q[m], g[m - 1].planned)
        /\ \A i \in 1..(m - 1) : new[i] = old[i]
    <3>1. PICK e : e = PlaceOf(q[m], g[m - 1].planned)
      OBVIOUS
    <3> QED  BY <2>1, <2>4, <2>5, <3>1
  <2>7. \A i \in 1..m : new[i] = PlaceOf(q[i], g[i - 1].planned)
    <3> HIDE DEF X, n
    <3> SUFFICES ASSUME NEW i \in 1..m PROVE new[i] = PlaceOf(q[i], g[i - 1].planned)
      OBVIOUS
    <3>1. CASE i = m
      BY <2>6, <3>1, Zenon
    <3>2. CASE i # m
      <4>1. i \in 1..(m - 1)
        BY <2>1, <3>2
      <4> QED  BY <2>4, <2>6, <4>1, Zenon
    <3> QED  BY <3>1, <3>2
  <2>8. m \in 0..n
    BY <1>1
  <2> HIDE DEF n
  <2> QED  BY <2>3, <2>5, <2>6, <2>7, <2>8
<1>13. 0..n \subseteq S
  <2>1. n \in Nat
    BY <1>1
  <2> HIDE DEF S, n
  <2> QED  BY <1>11, <1>12, <2>1, UpTo
<1> DEFINE count == [m \in 0..n |-> g[m].planned]
<1>14. /\ \A m \in 0..n : count[m] = g[m].planned /\ g[m] \in Passes
       /\ count \in [0..n -> Counts]
  <2>1. \A m \in 0..n : g[m] \in Passes /\ g[m].planned \in Counts
    <3>1. \A m \in 0..n : g[m] \in Passes
      BY <1>13
    <3> HIDE DEF n
    <3> QED  BY <3>1 DEF Passes
  <2> HIDE DEF n
  <2> QED  BY <2>1
<1>15. n \in 0..n /\ 0 \in 0..n /\ \A i \in 1..n : i \in 0..n /\ i - 1 \in 0..n
  BY <1>1
<1>16. \A i \in 1..n : on[i] = PlaceOf(q[i], g[i - 1].planned)
  <2>1. n \in S
    <3> HIDE DEF S, n
    <3> QED  BY <1>13, <1>15
  <2> QED  BY <2>1
<1> HIDE DEF count, on
<1>17. ASSUME NEW i \in 1..n
       PROVE  /\ count[i] = Counted(q[i], count[i - 1])
              /\ Placed(q)[q[i]] = PlaceOf(q[i], count[i - 1])
  <2>1. count[i] = g[i].planned /\ count[i - 1] = g[i - 1].planned /\ g[i - 1] \in Passes
    BY <1>14, <1>15
  <2>2. g[i].planned = Counted(q[i], g[i - 1].planned)
    BY <1>1, <1>10, <2>1, PassNextFacts
  <2>3. (CHOOSE j \in DOMAIN q : q[j] = q[i]) = i /\ q[i] \in ToSet(q)
    <3>1. DOMAIN q = 1..n
      OBVIOUS
    <3> QED  BY <3>1 DEF Once, ToSet
  <2>4. Placed(q)[q[i]] = on[i]
    BY <1>9, <2>3
  <2> QED  BY <1>16, <2>1, <2>2, <2>4
<1>18. count[0] = world.av.running
  BY <1>10, <1>14, <1>15
<1>19. Plan(q, Placed(q), count)
  BY <1>14, <1>15, <1>17, <1>18 DEF Plan
<1> QED  BY <1>19

-----------------------------------------------------------------------------
(* The runs a pass has planned.                                            *)

\* Of the first i tasks of a pass, the ones that go to an account.
Put(q, p, i, a) == {t \in {q[j] : j \in 1..i} : ~task[t].script /\ p[t].on = a}

LEMMA PutCounts ==
  ASSUME Known, NEW q \in Seq(Tasks), Once(q), NEW p, NEW count, Plan(q, p, count),
         NEW a \in Ids, a \notin world.av.blocked, NEW i \in 0..Len(q)
  PROVE  /\ IsFiniteSet(Put(q, p, i, a))
         /\ count[i][a] = world.av.running[a] + Cardinality(Put(q, p, i, a))
         /\ world.av.running[a] \in Nat /\ Cardinality(Put(q, p, i, a)) \in Nat
<1> DEFINE n == Len(q)
           Good(m) == /\ IsFiniteSet(Put(q, p, m, a))
                      /\ count[m][a] = world.av.running[a] + Cardinality(Put(q, p, m, a))
           S == {m \in 0..n : Good(m)}
<1>1. /\ n \in Nat /\ \A m \in 1..n : q[m] \in Tasks
      /\ world.av.running[a] \in Nat /\ a # None
      /\ count \in [0..n -> Counts] /\ count[0] = world.av.running
  <2>1. world.av.running \in Counts /\ None \notin Ids
    BY WorldsAssumption DEF Known, ValidMoment, Counts, Ids
  <2> QED  BY <2>1, SMTT(60) DEF Plan, Counts
<1>2. 0 \in S
  <2>1. Put(q, p, 0, a) = {}
    BY DEF Put
  <2>2. IsFiniteSet(Put(q, p, 0, a)) /\ Cardinality(Put(q, p, 0, a)) = 0
    BY <2>1, FS_EmptySet
  <2>3. 0 \in 0..n /\ count[0][a] = world.av.running[a] + 0
    BY <1>1
  <2>4. Good(0)
    <3> HIDE DEF n
    <3> QED  BY <2>2, <2>3
  <2> HIDE DEF Good, n
  <2> QED  BY <2>3, <2>4
<1>3. ASSUME NEW m \in 1..n, m - 1 \in S PROVE m \in S
  <2> DEFINE t == q[m]
             c == count[m - 1]
             here == ~task[t].script /\ p[t].on = a
             before == Put(q, p, m - 1, a)
  <2>1. /\ m - 1 \in 0..n /\ m \in 0..n /\ t \in Tasks /\ c \in Counts
        /\ count[m] = Counted(t, c) /\ p[t] = PlaceOf(t, c)
        /\ 1..m = 1..(m - 1) \cup {m} /\ m \in 1..m
    BY <1>1, SMTT(60) DEF Plan
  <2>2. Put(q, p, m, a) = IF here THEN before \cup {t} ELSE before
    <3>1. {q[j] : j \in 1..m} = {q[j] : j \in 1..(m - 1)} \cup {t}
      BY <2>1
    <3> HIDE DEF t
    <3> QED  BY <3>1 DEF Put
  <2>3. t \notin before
    <3>1. \A j \in 1..(m - 1) : q[j] # q[m]
      <4>1. \A j \in 1..(m - 1) : j \in 1..n /\ j # m
        BY <1>1
      <4> QED  BY <4>1 DEF Once
    <3> QED  BY <3>1 DEF Put
  <2>4. IsFiniteSet(before) /\ c[a] = world.av.running[a] + Cardinality(before)
    <3> HIDE DEF before, c
    <3>1. Good(m - 1)
      <4> HIDE DEF Good
      <4> QED  BY <1>3
    <3> QED  BY <3>1 DEF before, c
  <2>5. /\ Cardinality(before) \in Nat
        /\ IsFiniteSet(before \cup {t}) /\ Cardinality(before \cup {t}) = Cardinality(before) + 1
    <3> HIDE DEF before, t
    <3> QED  BY <2>3, <2>4, FS_AddElement, FS_CardinalityType
  <2>6. here <=> Takes(t, c) /\ Answer(t, c).on = a
    <3>1. CASE task[t].script
      BY <3>1 DEF Takes
    <3>2. CASE ~task[t].script
      BY <3>2, <2>1, <1>1 DEF Takes, PlaceOf
    <3> QED  BY <3>1, <3>2
  <2>7. count[m][a] = IF here THEN c[a] + 1 ELSE c[a]
    <3>1. Counted(t, c)[a] = IF Takes(t, c) /\ Answer(t, c).on = a THEN c[a] + 1 ELSE c[a]
      <4> HIDE DEF t, c
      <4>1. PICK x, at : x = c /\ x \in [Ids -> Nat] /\ at = Answer(t, c).on
        BY <2>1 DEF Counts
      <4>2. [x EXCEPT ![at] = @ + 1][a] = IF at = a THEN x[a] + 1 ELSE x[a]
        BY <4>1
      <4> QED  BY <4>1, <4>2 DEF Counted
    <3> QED  BY <2>1, <2>6, <3>1
  <2> HIDE DEF t, c, here, before, n
  <2>8. CASE here
    <3>1. Put(q, p, m, a) = before \cup {t} /\ count[m][a] = c[a] + 1
      BY <2>2, <2>7, <2>8
    <3>2. PICK k \in Nat, r \in Nat : k = Cardinality(before) /\ r = world.av.running[a]
      BY <1>1, <2>5
    <3>3. count[m][a] = r + (k + 1)
      BY <2>4, <3>1, <3>2, SMTT(60)
    <3> QED  BY <2>1, <2>5, <3>1, <3>2, <3>3
  <2>9. CASE ~here
    BY <2>1, <2>2, <2>4, <2>7, <2>9
  <2> QED  BY <2>8, <2>9
<1>4. 0..n \subseteq S
  <2>1. n \in Nat
    BY <1>1
  <2> HIDE DEF S, n
  <2> QED  BY <1>2, <1>3, <2>1, UpTo
<1>5. Good(i)
  <2>1. i \in S
    <3> HIDE DEF S
    <3> QED  BY <1>4
  <2> QED  BY <2>1
<1>6. Cardinality(Put(q, p, i, a)) \in Nat
  BY <1>5, FS_CardinalityType
<1> QED  BY <1>1, <1>5, <1>6

LEMMA SortedSet ==
  ASSUME Known, NEW q \in Seq(Tasks), Once(q)
  PROVE  /\ Sorted(q) \in Seq(Tasks) /\ Once(Sorted(q)) /\ InList(Sorted(q)) = InList(q)
         /\ \A i, j \in 1..Len(Sorted(q)) :
              i < j /\ task[Sorted(q)[i]].backfill => task[Sorted(q)[j]].backfill
<1> DEFINE K == {t \in Tasks : ~task[t].backfill}
           L == {t \in Tasks : task[t].backfill}
           A == Only(q, K)
           B == Only(q, L)
           s == Sorted(q)
<1>1. /\ A \in Seq(Tasks) /\ InList(A) = InList(q) \cap K
      /\ B \in Seq(Tasks) /\ InList(B) = InList(q) \cap L
  <2> HIDE DEF K, L
  <2> QED  BY OnlyFacts
<1>2. s = A \o B
  BY DEF Sorted
<1>3. K \cup L = Tasks /\ InList(q) \subseteq Tasks
  BY DEF InList
<1> HIDE DEF A, B, s
<1>4. /\ Len(A) \in Nat /\ Len(B) \in Nat /\ Len(s) = Len(A) + Len(B)
      /\ \A i \in 1..Len(s) : s[i] = IF i <= Len(A) THEN A[i] ELSE B[i - Len(A)]
  BY <1>1, <1>2
<1>5. /\ \A i \in 1..Len(A) : i \in 1..Len(s) /\ s[i] = A[i]
      /\ \A i \in 1..Len(B) : i + Len(A) \in 1..Len(s) /\ s[i + Len(A)] = B[i]
      /\ \A i \in 1..Len(s) : \/ i \in 1..Len(A) /\ s[i] = A[i]
                              \/ i - Len(A) \in 1..Len(B) /\ s[i] = B[i - Len(A)] /\ Len(A) < i
  <2>1. \A i \in 1..Len(A) : i \in 1..Len(s) /\ s[i] = A[i]
    BY <1>4
  <2>2. ASSUME NEW i \in 1..Len(B) PROVE i + Len(A) \in 1..Len(s) /\ s[i + Len(A)] = B[i]
    <3>1. i + Len(A) \in 1..Len(s) /\ ~(i + Len(A) <= Len(A)) /\ (i + Len(A)) - Len(A) = i
      BY <1>4
    <3> QED  BY <1>4, <3>1
  <2>3. \A i \in 1..Len(s) : \/ i \in 1..Len(A) /\ s[i] = A[i]
                             \/ i - Len(A) \in 1..Len(B) /\ s[i] = B[i - Len(A)] /\ Len(A) < i
    BY <1>4
  <2> QED  BY <2>1, <2>2, <2>3
<1>6. InList(s) = InList(A) \cup InList(B)
  <2>1. InList(s) \subseteq InList(A) \cup InList(B)
    BY <1>5 DEF InList
  <2>2. InList(A) \cup InList(B) \subseteq InList(s)
    BY <1>5, SMTT(60) DEF InList
  <2> QED  BY <2>1, <2>2
<1>7. InList(s) = InList(q)
  <2> HIDE DEF K, L
  <2> QED  BY <1>1, <1>3, <1>6
<1>8. ASSUME NEW i \in 1..Len(s), NEW j \in 1..Len(s), i < j, task[s[i]].backfill
      PROVE  task[s[j]].backfill
  <2>1. s[i] \notin InList(A)
    BY <1>1, <1>8
  <2>2. i \notin 1..Len(A)
    BY <2>1, <1>5 DEF InList
  <2>3. j \notin 1..Len(A)
    BY <2>2, <1>4, <1>8
  <2>4. s[j] \in InList(B)
    BY <2>3, <1>5 DEF InList
  <2> QED  BY <2>4, <1>1
<1>9. s \in Seq(Tasks) /\ Once(s)
  BY SortedOnce DEF s
<1> QED  BY <1>7, <1>8, <1>9 DEF s

-----------------------------------------------------------------------------
(* Pools are used evenly.                                                  *)

DueIn(count) ==
  Known /\ due \in Seq(Tasks) /\ Once(due) /\ Plan(Sorted(due), place, count)

LEMMA Planned ==
  ASSUME NEW count, DueIn(count), NEW t \in ToSet(due)
  PROVE  \E i \in 1..Len(Sorted(due)) :
           /\ Sorted(due)[i] = t /\ t \in Tasks /\ i - 1 \in 0..Len(Sorted(due))
           /\ count[i - 1] \in Counts /\ place[t] = PlaceOf(t, count[i - 1])
<1>1. /\ Sorted(due) \in Seq(Tasks) /\ InList(Sorted(due)) = ToSet(due)
      /\ Plan(Sorted(due), place, count)
  BY SortedSet, ListSet DEF DueIn
<1>2. PICK i \in 1..Len(Sorted(due)) : Sorted(due)[i] = t
  BY <1>1 DEF InList
<1> QED  BY <1>1, <1>2 DEF Plan

LEMMA SeenTakes ==
  ASSUME Known, NEW c \in Counts, NEW p
  PROVE  MayTake(world.set, Seen(c), p) <=> MayTake(world.set, world.av, p)
BY SeenSound DEF MayTake, CanTake

\* A session is continued where it waits.
LEMMA HolderKept ==
  ASSUME Known, NEW t \in Tasks, NEW c \in Counts, task[t].pool \in DOMAIN world.set.pools,
         task[t].pool # None, ~task[t].backfill,
         \E m \in Pool(t) : m.id = world.holder, MayTake(world.set, world.av, world.holder)
  PROVE  Answer(t, c).on = world.holder
<1>1. /\ Selection(t).prefer = world.holder /\ Selection(t).pool = task[t].pool
      /\ ~Selection(t).backfill
  BY SelectionFacts
<1>2. Usable(world.set, Seen(c), Selection(t), world.holder)
  BY <1>1, SeenTakes DEF Usable
<1>3. PICK h \in Pool(t) : h.id = world.holder
  OBVIOUS
<1>4. /\ Usable(world.set, Seen(c), Selection(t), h.id)
      /\ Preferred(world.set, Seen(c), Selection(t), h)
  BY <1>1, <1>2, <1>3 DEF Preferred
<1>5. PoolAnswer(t, c)
  BY Answers
<1>6. PICK m \in Pool(t) : OnMember(world.set, Seen(c), Selection(t), Answer(t, c), m)
  BY <1>4, <1>5 DEF PoolAnswer
<1>7. PoolChoice(world.set, Seen(c), Selection(t), m) /\ Answer(t, c).on = m.id
  BY <1>6 DEF OnMember
<1>8. Preferred(world.set, Seen(c), Selection(t), m)
  BY <1>1, <1>4, <1>7 DEF PoolChoice, Pool
<1> QED  BY <1>1, <1>7, <1>8 DEF Preferred

LEMMA SpareWithFewer ==
  ASSUME Known, NEW c \in Counts, NEW d \in Counts, NEW a \in Ids, NEW b \in Ids,
         world.av.limits[a] = world.av.limits[b], d[b] <= c[a],
         MayTake(world.set, world.av, a) <=> MayTake(world.set, world.av, b),
         HasSpare(world.set, Seen(c), a, Threshold)
  PROVE  HasSpare(world.set, Seen(d), b, Threshold)
<1> DEFINE reading == world.av.limits[a]
           takes == MayTake(world.set, Seen(c), a)
<1>1. /\ ValidReading(reading) /\ Threshold \in Nat /\ takes \in BOOLEAN
      /\ c[a] \in Nat /\ d[b] \in Nat
  <2>1. ValidReading(reading)
    BY WorldsAssumption DEF Known, ValidMoment, Ids
  <2> QED  BY <2>1, ThresholdAssumption DEF MayTake, Counts
<1>2. /\ Seen(c).limits[a] = reading /\ Seen(c).running = c
      /\ Seen(d).limits[b] = reading /\ Seen(d).running = d
  BY SeenSound
<1>3. MayTake(world.set, Seen(d), b) = takes
  BY SeenTakes DEF MayTake
<1>4. Spare(Score(reading, 1, takes, c[a]), Threshold)
  BY <1>2 DEF HasSpare
<1> HIDE DEF reading, takes
<1>5. Spare(Score(reading, 1, takes, d[b]), Threshold)
  BY <1>1, <1>4, LessSpare
<1> QED  BY <1>2, <1>3, <1>5, Zenon DEF HasSpare

\* Two members of a pool of the same weight that stand alike.
Twins(pool, m, n) ==
  LET a == m.id
      b == n.id
  IN /\ pool \in DOMAIN world.set.pools
     /\ m \in InList(world.set.pools[pool]) /\ n \in InList(world.set.pools[pool])
     /\ m.weight = n.weight
     /\ world.av.limits[a] = world.av.limits[b]
     /\ MayTake(world.set, world.av, a) /\ MayTake(world.set, world.av, b)
     /\ world.av.running[a] = world.av.running[b]

LEMMA TwinIds ==
  ASSUME Known, NEW pool, NEW m, NEW n, Twins(pool, m, n)
  PROVE  /\ m.id \in Ids /\ n.id \in Ids /\ m.weight \in Nat
         /\ m.id \notin world.av.blocked /\ n.id \notin world.av.blocked
         /\ \A o \in InList(world.set.pools[pool]) : o.id = m.id => o = m
<1>1. PICK q : /\ q = world.set.pools[pool] /\ q \in Seq([id : Ids, weight : Nat])
               /\ \A i, j \in DOMAIN q : q[i].id = q[j].id => i = j
  BY WorldsAssumption, ZenonT(60) DEF Known, Twins, ValidPool, Ids
<1>2. \A i \in 1..Len(q) : q[i] \in [id : Ids, weight : Nat] /\ i \in DOMAIN q
  <2> DEFINE M == [id : Ids, weight : Nat]
  <2> HIDE DEF M
  <2>1. q \in Seq(M)
    BY <1>1 DEF M
  <2>2. \A i \in 1..Len(q) : q[i] \in M /\ i \in DOMAIN q
    BY <2>1
  <2> QED  BY <2>2 DEF M
<1>3. m \in InList(q) /\ n \in InList(q)
  BY <1>1 DEF Twins
<1>4. m.id \in Ids /\ n.id \in Ids /\ m.weight \in Nat
  BY <1>2, <1>3 DEF InList
<1>5. \A o \in InList(q) : o.id = m.id => o = m
  BY <1>1, <1>2, <1>3, ZenonT(60) DEF InList
<1> QED  BY <1>1, <1>4, <1>5 DEF Twins, MayTake

\* Of two such members the pool never picks the one with more runs.
LEMMA TwinChoice ==
  ASSUME Known, NEW t \in Tasks, NEW c \in Counts, task[t].pool # None, world.holder = None,
         NEW m, NEW n, Twins(task[t].pool, m, n), Answer(t, c).on = m.id
  PROVE  c[m.id] <= c[n.id]
<1> DEFINE set == world.set
           av == Seen(c)
           sel == Selection(t)
           a == m.id
           b == n.id
<1>1. /\ a \in Ids /\ b \in Ids /\ m.weight \in Nat
      /\ \A o \in Pool(t) : o.id = a => o = m
  BY TwinIds DEF Pool
<1>2. /\ task[t].pool \in DOMAIN world.set.pools /\ m \in Pool(t) /\ n \in Pool(t)
      /\ m.weight = n.weight
      /\ world.av.limits[a] = world.av.limits[b]
      /\ MayTake(set, av, a) /\ MayTake(set, av, b)
      /\ MayTake(set, world.av, a) /\ MayTake(set, world.av, b)
  BY SeenTakes DEF Twins, Pool
<1>3. /\ sel.prefer = None /\ sel.pool = task[t].pool /\ sel.threshold = Threshold
      /\ a # None /\ c[a] \in Nat /\ c[b] \in Nat
  <2>1. None \notin Ids
    BY WorldsAssumption DEF Known, Ids
  <2> QED  BY <1>1, <2>1, SelectionFacts DEF Counts
<1>4. PoolChoice(set, av, sel, m)
  <2>1. PoolAnswer(t, c)
    BY Answers
  <2>2. PICK o \in Pool(t) : OnMember(set, av, sel, Answer(t, c), o)
    BY <1>2, <1>3, <2>1 DEF PoolAnswer
  <2>3. o.id = a /\ PoolChoice(set, av, sel, o)
    BY <2>2 DEF OnMember
  <2> QED  BY <1>1, <2>3
<1>5. ~Preferred(set, av, sel, m)
  BY <1>3 DEF Preferred
<1>6. Usable(set, av, sel, a) /\ ~Before(MemberScore(set, av, sel, n), MemberScore(set, av, sel, m))
  <2>1. ~sel.backfill => Usable(set, av, sel, a)
    BY <1>2 DEF Usable
  <2> QED  BY <1>2, <1>3, <1>4, <1>5, <2>1 DEF PoolChoice, Pool
<1> SUFFICES ASSUME c[b] < c[a] PROVE FALSE
  BY <1>3
<1>7. Usable(set, av, sel, b)
  <2>1. CASE sel.backfill
    <3>1. HasSpare(set, av, a, Threshold) /\ c[b] <= c[a]
      BY <1>3, <1>6, <2>1 DEF Usable
    <3>2. HasSpare(set, av, b, Threshold)
      <4> HIDE DEF a, b
      <4> QED  BY <1>1, <1>2, <3>1, SpareWithFewer
    <3> QED  BY <1>3, <2>1, <3>2 DEF Usable
  <2>2. CASE ~sel.backfill
    BY <1>2, <2>2 DEF Usable
  <2> QED  BY <2>1, <2>2
<1>8. /\ ValidReading(world.av.limits[a])
      /\ av.limits = world.av.limits /\ av.running = c
  <2>1. ValidReading(world.av.limits[a])
    BY <1>1, WorldsAssumption DEF Known, ValidMoment, Ids
  <2> QED  BY <2>1, SeenSound
<1>9. Usable(set, av, sel, a) = TRUE /\ Usable(set, av, sel, b) = TRUE
  <2>1. Usable(set, av, sel, a) \in BOOLEAN /\ Usable(set, av, sel, b) \in BOOLEAN
    BY DEF Usable, MayTake, HasSpare, Spare
  <2> QED  BY <1>6, <1>7, <2>1
<1>10. /\ MemberScore(set, av, sel, m) = Score(world.av.limits[a], m.weight, TRUE, c[a])
       /\ MemberScore(set, av, sel, n) = Score(world.av.limits[a], m.weight, TRUE, c[b])
  <2> HIDE DEF set, av, sel
  <2> QED  BY <1>2, <1>8, <1>9, Zenon DEF MemberScore
<1>11. Before(MemberScore(set, av, sel, n), MemberScore(set, av, sel, m))
  <2> HIDE DEF set, av, sel, a, b
  <2> QED  BY <1>1, <1>3, <1>8, <1>10, MoreRuns, ZenonT(60)
<1> QED  BY <1>6, <1>11

LEMMA TwinsSwap ==
  ASSUME NEW pool, NEW m, NEW n, Twins(pool, m, n)
  PROVE  Twins(pool, n, m)
BY DEF Twins

\* So the runs of the two never differ by more than one.
LEMMA EvenCounts ==
  ASSUME NEW count, DueIn(count), NEW pool, pool # None, world.holder = None,
         \A t \in ToSet(due) : task[t].script \/ task[t].pool = pool,
         NEW m, NEW n, Twins(pool, m, n), NEW i \in 0..Len(Sorted(due))
  PROVE  count[i][m.id] <= count[i][n.id] + 1 /\ count[i][n.id] <= count[i][m.id] + 1
<1> DEFINE q == Sorted(due)
           k == Len(q)
           a == m.id
           b == n.id
           Good(j) == count[j][a] <= count[j][b] + 1 /\ count[j][b] <= count[j][a] + 1
           S == {j \in 0..k : Good(j)}
<1>1. /\ Known /\ k \in Nat /\ Plan(q, place, count) /\ ToSet(due) = InList(q)
      /\ \A j \in 1..k : q[j] \in Tasks /\ q[j] \in ToSet(due)
      /\ count \in [0..k -> Counts] /\ count[0] = world.av.running
  <2>1. /\ Known /\ q \in Seq(Tasks) /\ Plan(q, place, count) /\ ToSet(due) = InList(q)
    BY SortedSet, ListSet DEF DueIn
  <2> HIDE DEF q
  <2>2. k \in Nat /\ \A j \in 1..k : q[j] \in Tasks
    BY <2>1
  <2>3. \A j \in 1..k : q[j] \in ToSet(due)
    BY <2>1 DEF InList
  <2> QED  BY <2>1, <2>2, <2>3 DEF Plan
<1>2. /\ a \in Ids /\ b \in Ids /\ world.av.running[a] = world.av.running[b]
      /\ Twins(pool, m, n) /\ Twins(pool, n, m)
  BY <1>1, TwinIds, TwinsSwap DEF Twins
<1>3. \A j \in 0..k : count[j] \in Counts /\ count[j][a] \in Nat /\ count[j][b] \in Nat
  <2> HIDE DEF k, a, b
  <2> QED  BY <1>1, <1>2 DEF Counts
<1>4. 0 \in S
  <2>1. 0 \in 0..k
    BY <1>1
  <2> HIDE DEF k
  <2> QED  BY <1>1, <1>2, <1>3, <2>1
<1>5. ASSUME NEW j \in 1..k, j - 1 \in S PROVE j \in S
  <2> DEFINE t == q[j]
             c == count[j - 1]
             on == Answer(t, c).on
  <2>1. /\ j - 1 \in 0..k /\ j \in 0..k /\ t \in Tasks /\ c \in Counts
        /\ count[j] = Counted(t, c) /\ Good(j - 1)
        /\ task[t].script \/ task[t].pool = pool
    <3>1. j - 1 \in 0..k /\ j \in 0..k /\ t \in Tasks /\ t \in ToSet(due)
      BY <1>1
    <3>2. c \in Counts
      BY <1>1, <3>1
    <3>3. count[j] = Counted(t, c)
      BY <1>1 DEF Plan
    <3>4. Good(j - 1)
      BY <1>5
    <3>5. task[t].script \/ task[t].pool = pool
      <4> HIDE DEF t
      <4> QED  BY <3>1
    <3> QED  BY <3>1, <3>2, <3>3, <3>4, <3>5
  <2>2. /\ c[a] \in Nat /\ c[b] \in Nat /\ c[a] <= c[b] + 1 /\ c[b] <= c[a] + 1
    BY <1>3, <2>1
  <2> HIDE DEF t, c, S, k, q
  <2>3. CASE ~Takes(t, c)
    <3>1. count[j] = c
      BY <2>1, <2>3 DEF Counted
    <3> QED  BY <2>1, <2>2, <3>1 DEF S
  <2>4. CASE Takes(t, c)
    <3>1. task[t].pool = pool /\ on \in Ids
      BY <1>1, <2>1, <2>4, Answers DEF Takes
    <3>2. on = a => c[a] <= c[b]
      BY <1>1, <1>2, <2>1, <3>1, TwinChoice
    <3>3. on = b => c[b] <= c[a]
      BY <1>1, <1>2, <2>1, <3>1, TwinChoice
    <3>4. count[j][a] = IF on = a THEN c[a] + 1 ELSE c[a]
      <4>1. PICK x \in [Ids -> Nat] : x = c
        BY <2>1 DEF Counts
      <4>2. count[j] = [x EXCEPT ![on] = @ + 1]
        BY <2>1, <2>4, <4>1 DEF Counted
      <4> HIDE DEF on, a
      <4> QED  BY <1>2, <4>1, <4>2
    <3>5. count[j][b] = IF on = b THEN c[b] + 1 ELSE c[b]
      <4>1. PICK x \in [Ids -> Nat] : x = c
        BY <2>1 DEF Counts
      <4>2. count[j] = [x EXCEPT ![on] = @ + 1]
        BY <2>1, <2>4, <4>1 DEF Counted
      <4> HIDE DEF on, b
      <4> QED  BY <1>2, <4>1, <4>2
    <3>6. Good(j)
      <4> HIDE DEF on, a, b
      <4>1. CASE a = b
        BY <2>2, <3>4, <4>1
      <4>2. CASE a # b
        BY <2>2, <3>2, <3>3, <3>4, <3>5, <4>2
      <4> QED  BY <4>1, <4>2
    <3> QED  BY <2>1, <3>6 DEF S
  <2> QED  BY <2>3, <2>4
<1>6. 0..k \subseteq S
  <2>1. k \in Nat
    BY <1>1
  <2> HIDE DEF S, k
  <2> QED  BY <1>4, <1>5, <2>1, UpTo
<1>7. Good(i)
  <2>1. i \in S
    <3> HIDE DEF S
    <3> QED  BY <1>6
  <2> QED  BY <2>1
<1> QED  BY <1>7

LEMMA SpreadHolds ==
  ASSUME NEW count, DueIn(count)
  PROVE  PoolSpreads
<1> DEFINE Load(p) == Cardinality({t \in ToSet(due) : ~task[t].script /\ place[t].on = p})
                      + world.av.running[p]
           Members(pool) == ToSet(world.set.pools[pool])
<1>1. /\ Known /\ Sorted(due) \in Seq(Tasks) /\ Once(Sorted(due))
      /\ InList(Sorted(due)) = ToSet(due)
      /\ Plan(Sorted(due), place, count) /\ Len(Sorted(due)) \in 0..Len(Sorted(due))
  BY SortedSet, ListSet DEF DueIn
<1>2. \A pool \in DOMAIN world.set.pools : Members(pool) = InList(world.set.pools[pool])
  <2> SUFFICES ASSUME NEW pool \in DOMAIN world.set.pools
               PROVE  ToSet(world.set.pools[pool]) = InList(world.set.pools[pool])
    OBVIOUS
  <2>1. world.set.pools[pool] \in Seq([id : Ids, weight : Nat])
    BY <1>1, WorldsAssumption DEF Known, ValidPool, Ids
  <2> QED  BY <2>1, ListSet
<1>3. ASSUME NEW pool \in DOMAIN world.set.pools, NEW t \in ToSet(due), ~task[t].script,
             task[t].pool = pool, pool # None, \E m \in Members(pool) : m.id = world.holder,
             MayTake(world.set, world.av, world.holder), ~task[t].backfill
      PROVE  place[t].on = world.holder
  <2>1. PICK i \in 1..Len(Sorted(due)) :
          t \in Tasks /\ count[i - 1] \in Counts /\ place[t] = PlaceOf(t, count[i - 1])
    BY Planned
  <2>2. Answer(t, count[i - 1]).on = world.holder
    <3>1. \E m \in Pool(t) : m.id = world.holder
      BY <1>2, <1>3 DEF Pool
    <3> QED  BY <1>1, <1>3, <2>1, <3>1, HolderKept
  <2> QED  BY <1>3, <2>1, <2>2 DEF PlaceOf
<1>4. ASSUME NEW p \in Ids, p \notin world.av.blocked
      PROVE  /\ Load(p) = count[Len(Sorted(due))][p]
             /\ count[Len(Sorted(due))][p] \in Nat
  <2> DEFINE put == Put(Sorted(due), place, Len(Sorted(due)), p)
  <2>1. /\ count[Len(Sorted(due))][p] = world.av.running[p] + Cardinality(put)
        /\ world.av.running[p] \in Nat /\ Cardinality(put) \in Nat
    BY <1>1, <1>4, PutCounts
  <2>2. put = {t \in ToSet(due) : ~task[t].script /\ place[t].on = p}
    BY <1>1 DEF Put, InList
  <2> HIDE DEF put
  <2>3. Load(p) = Cardinality(put) + world.av.running[p]
    BY <2>2
  <2> HIDE DEF Load
  <2>4. PICK x \in Nat, y \in Nat : x = world.av.running[p] /\ y = Cardinality(put)
    BY <2>1
  <2> QED  BY <2>1, <2>3, <2>4
<1> HIDE DEF Load
<1>5. ASSUME NEW pool \in DOMAIN world.set.pools, world.holder = None, pool # None,
             \A t \in ToSet(due) : task[t].script \/ (task[t].pool = pool /\ place[t].on # None),
             NEW m \in Members(pool), NEW n \in Members(pool), m.weight = n.weight,
             world.av.limits[m.id] = world.av.limits[n.id],
             MayTake(world.set, world.av, m.id), MayTake(world.set, world.av, n.id),
             world.av.running[m.id] = world.av.running[n.id]
      PROVE  Load(m.id) - Load(n.id) <= 1
  <2>1. Twins(pool, m, n)
    BY <1>2, <1>5 DEF Twins
  <2>2. /\ m.id \in Ids /\ n.id \in Ids
        /\ m.id \notin world.av.blocked /\ n.id \notin world.av.blocked
    BY <1>1, <2>1, TwinIds
  <2>3. count[Len(Sorted(due))][m.id] <= count[Len(Sorted(due))][n.id] + 1
    BY <1>1, <1>5, <2>1, EvenCounts
  <2>4. PICK x \in Nat, y \in Nat : x = count[Len(Sorted(due))][m.id] /\ y = count[Len(Sorted(due))][n.id]
    BY <1>4, <2>2
  <2>5. Load(m.id) = x /\ Load(n.id) = y
    BY <1>4, <2>2, <2>4
  <2> QED  BY <2>3, <2>4, <2>5
<1> DEFINE Alike(p, q) ==
             /\ world.av.limits[p] = world.av.limits[q]
             /\ MayTake(world.set, world.av, p) /\ MayTake(world.set, world.av, q)
             /\ world.av.running[p] = world.av.running[q]
<1>6. \A pool \in DOMAIN world.set.pools :
        \A t \in ToSet(due) : /\ ~task[t].script /\ task[t].pool = pool /\ pool # None
                              /\ \E m \in Members(pool) : m.id = world.holder
                              /\ MayTake(world.set, world.av, world.holder)
                              /\ ~task[t].backfill
                              => place[t].on = world.holder
  BY <1>3
<1>7. \A pool \in DOMAIN world.set.pools :
        /\ world.holder = None /\ pool # None
        /\ \A t \in ToSet(due) : task[t].script \/ (task[t].pool = pool /\ place[t].on # None)
        => \A m, n \in Members(pool) :
             Alike(m.id, n.id) /\ m.weight = n.weight => Load(m.id) - Load(n.id) <= 1
  BY <1>5
<1> QED  BY <1>6, <1>7, Zenon DEF PoolSpreads, Load

-----------------------------------------------------------------------------
(* Backfill work yields.                                                   *)

LEMMA Started ==
  ASSUME PassInv
  PROVE  /\ Runnable \in Seq(Tasks) /\ Once(Runnable)
         /\ ToSet(Runnable) = InList(Runnable)
         /\ \A i \in 1..Len(Runnable) :
              Runnable[i] \in starts <=> Starts(Runnable, Parallel, running, i)
         /\ starts \subseteq InList(Runnable)
<1> DEFINE q == Runnable
           St(i) == Starts(q, Parallel, running, i)
<1>1. q \in Seq(Tasks) /\ Once(q) /\ ToSet(q) = InList(q)
  BY RunnableOnce, ListSet
<1>2. starts = {q[i] : i \in {j \in 1..Len(q) : St(j)}}
  BY <1>1, ScanFacts DEF PassInv
<1> HIDE DEF q, St
<1>3. \A i \in 1..Len(q) : q[i] \in starts <=> St(i)
  BY <1>1, <1>2 DEF Once
<1>4. starts \subseteq InList(q)
  BY <1>2 DEF InList
<1> QED  BY <1>1, <1>3, <1>4 DEF q, St

\* What may start is due, and may go where it was placed.
LEMMA RunnableDue ==
  ASSUME PassInv, Known, NEW t \in InList(Runnable)
  PROVE  t \in ToSet(due) /\ t \in Tasks
         /\ (task[t].script \/ (Probed(place, t) /\ ~GateHolds(place, t)))
<1> DEFINE q == Sorted(due)
           kept == {u \in ToSet(q) : task[u].script \/ (Probed(place, u) /\ ~GateHolds(place, u))}
<1>1. q \in Seq(Tasks) /\ InList(q) = ToSet(due) /\ ToSet(q) = InList(q)
  BY SortedSet, ListSet DEF PassInv
<1>2. Runnable = Only(q, kept)
  BY DEF Runnable, RunnableNow
<1> HIDE DEF q
<1>3. InList(Runnable) = InList(q) \cap kept
  <2> HIDE DEF kept
  <2> QED  BY <1>1, <1>2, OnlyFacts
<1>4. t \in Tasks
  <2>1. t \in InList(q)
    <3> HIDE DEF kept
    <3> QED  BY <1>3
  <2>2. PICK i \in 1..Len(q) : t = q[i]
    BY <2>1 DEF InList
  <2> QED  BY <1>1, <2>2
<1> QED  BY <1>1, <1>3, <1>4

LEMMA BackfillLast ==
  ASSUME PassInv, Known, NEW i \in 1..Len(Runnable), NEW j \in 1..Len(Runnable), i < j,
         task[Runnable[i]].backfill
  PROVE  task[Runnable[j]].backfill
<1> DEFINE q == Sorted(due)
           kept == {u \in ToSet(q) : task[u].script \/ (Probed(place, u) /\ ~GateHolds(place, u))}
<1>1. /\ q \in Seq(Tasks)
      /\ \A k, l \in 1..Len(q) : k < l /\ task[q[k]].backfill => task[q[l]].backfill
  BY SortedSet DEF PassInv
<1>2. Runnable = Only(q, kept)
  BY DEF Runnable, RunnableNow
<1> HIDE DEF q, kept
<1>3. PICK k, l \in 1..Len(q) : k < l /\ Runnable[i] = q[k] /\ Runnable[j] = q[l]
  BY <1>1, <1>2, OnlyOrder
<1> QED  BY <1>1, <1>3

\* Where backfill work was placed there is spare allowance, the runs planned
\* before it counted.
LEMMA BackfillSpare ==
  ASSUME Known, NEW t \in Tasks, NEW c \in Counts, task[t].backfill, Answer(t, c).on # None
  PROVE  HasSpare(world.set, Seen(c), Answer(t, c).on, Threshold) /\ Answer(t, c).on \in Ids
<1>1. Selection(t).backfill /\ Selection(t).threshold = Threshold
  BY SelectionFacts
<1>2. Answer(t, c).on \in Ids
  BY Answers
<1>3. CASE task[t].pool # None
  <2>1. PoolAnswer(t, c)
    BY <1>3, Answers
  <2>2. PICK m \in Pool(t) : OnMember(world.set, Seen(c), Selection(t), Answer(t, c), m)
    BY <2>1 DEF PoolAnswer
  <2>3. m.id = Answer(t, c).on /\ Usable(world.set, Seen(c), Selection(t), m.id)
    BY <1>1, <2>2 DEF OnMember, PoolChoice, Preferred
  <2> QED  BY <1>1, <1>2, <2>3 DEF Usable
<1>4. CASE task[t].pool = None
  <2>1. NamedAnswer(t, c)
    BY <1>4, Answers
  <2> QED  BY <1>1, <1>2, <2>1 DEF NamedAnswer, Stays, Moves
<1> QED  BY <1>3, <1>4

LEMMA YieldsHolds ==
  ASSUME PassInv, NEW count, DueIn(count)
  PROVE  BackfillYields
<1> DEFINE q == Sorted(due)
           r == Runnable
<1>1. /\ Known /\ q \in Seq(Tasks) /\ Once(q) /\ InList(q) = ToSet(due)
      /\ Plan(q, place, count)
      /\ \A i, j \in 1..Len(q) : i < j /\ task[q[i]].backfill => task[q[j]].backfill
  BY SortedSet, ListSet DEF DueIn
<1>2. /\ r \in Seq(Tasks) /\ ToSet(r) = InList(r) /\ starts \subseteq InList(r)
      /\ \A i \in 1..Len(r) : r[i] \in starts <=> Starts(r, Parallel, running, i)
  BY Started
<1> SUFFICES ASSUME NEW t \in starts, task[t].backfill, ~task[t].script
             PROVE  /\ \A u \in InList(r) : ~task[u].backfill => u \in starts
                    /\ LET on == place[t].on
                           beside == {u \in ToSet(due) : ~task[u].backfill /\ ~task[u].script
                                                         /\ place[u].on = on}
                           av == [world.av EXCEPT !.running[on] = @ + Cardinality(beside)]
                       IN HasSpare(world.set, av, on, Threshold)
  BY <1>2, Zenon DEF BackfillYields
<1>3. PICK i \in 1..Len(r) : r[i] = t
  BY <1>2 DEF InList
<1>4. ASSUME NEW u \in InList(r), ~task[u].backfill PROVE u \in starts
  <2>1. PICK j \in 1..Len(r) : r[j] = u
    BY <1>4 DEF InList
  <2>2. j < i
    <3>1. j # i
      BY <1>3, <1>4, <2>1
    <3>2. ~(i < j)
      BY <1>1, <1>3, <1>4, <2>1, BackfillLast
    <3> QED  BY <3>1, <3>2
  <2> HIDE DEF r
  <2>3. j \in 1..(i - 1) /\ i # 1 /\ 1..(j - 1) \subseteq 1..(i - 1)
    BY <2>2
  <2>4. Starts(r, Parallel, running, i)
    BY <1>2, <1>3
  <2>5. Starts(r, Parallel, running, j)
    BY <2>3, <2>4 DEF Starts
  <2> QED  BY <1>2, <2>1, <2>5
<1> DEFINE on == place[t].on
           beside == {u \in ToSet(due) : ~task[u].backfill /\ ~task[u].script /\ place[u].on = on}
           av == [world.av EXCEPT !.running[on] = @ + Cardinality(beside)]
<1>5. t \in ToSet(due) /\ t \in Tasks /\ Probed(place, t) /\ ~GateHolds(place, t)
  BY <1>1, <1>2, RunnableDue
<1>6. PICK k \in 1..Len(q) :
        /\ q[k] = t /\ k - 1 \in 0..Len(q) /\ count[k - 1] \in Counts
        /\ place[t] = PlaceOf(t, count[k - 1])
  BY <1>5, Planned
<1> DEFINE c == count[k - 1]
           before == Put(q, place, k - 1, on)
           load == world.av.running[on] + Cardinality(beside)
<1>7. on = Answer(t, c).on /\ on # None /\ on \notin world.av.blocked
  BY <1>5, <1>6 DEF PlaceOf, Probed, GateHolds
<1>8. HasSpare(world.set, Seen(c), on, Threshold) /\ on \in Ids
  BY <1>1, <1>5, <1>6, <1>7, BackfillSpare
<1>9. /\ IsFiniteSet(before)
      /\ c[on] = world.av.running[on] + Cardinality(before)
      /\ world.av.running[on] \in Nat /\ Cardinality(before) \in Nat
  <2> HIDE DEF on
  <2> QED  BY <1>1, <1>6, <1>7, <1>8, PutCounts, SMTT(60)
<1>10. beside \subseteq before
  <2> SUFFICES ASSUME NEW u \in beside PROVE u \in before
    OBVIOUS
  <2>1. PICK j \in 1..Len(q) : q[j] = u
    BY <1>1 DEF InList
  <2>2. ~task[u].backfill /\ j # k
    BY <1>6, <2>1
  <2>3. ~(k < j)
    BY <1>1, <1>6, <2>1, <2>2
  <2> HIDE DEF q
  <2>4. j \in 1..(k - 1)
    BY <2>2, <2>3
  <2> QED  BY <2>1, <2>4 DEF Put
<1>11. Cardinality(beside) \in Nat /\ Cardinality(beside) <= Cardinality(before)
  <2> HIDE DEF beside, before
  <2> QED  BY <1>9, <1>10, FS_Subset, FS_CardinalityType
<1>12. load \in Nat /\ load <= c[on]
  <2>1. PICK x \in Nat, y \in Nat, z \in Nat :
          x = world.av.running[on] /\ y = Cardinality(beside) /\ z = Cardinality(before)
    BY <1>9, <1>11
  <2> DEFINE runs == c[on]
             extra == Cardinality(beside)
             more == Cardinality(before)
             base == world.av.running[on]
  <2>2. x = base /\ y = extra /\ z = more /\ runs = base + more /\ extra <= more /\ load = base + extra
    BY <1>9, <1>11, <2>1
  <2> HIDE DEF runs, extra, more, base, load
  <2>3. load \in Nat /\ load <= runs
    BY <2>2
  <2> QED  BY <2>3 DEF runs
<1> DEFINE d == [world.av.running EXCEPT ![on] = load]
<1>13. d \in Counts /\ d[on] = load
  <2>1. PICK x \in [Ids -> Nat] : x = world.av.running
    BY <1>1, WorldsAssumption DEF Known, ValidMoment, Ids
  <2> HIDE DEF load, on
  <2> QED  BY <1>8, <1>12, <2>1 DEF Counts
<1>14. av = Seen(d)
  BY Zenon DEF Seen
<1>15. HasSpare(world.set, av, on, Threshold)
  <2> HIDE DEF av, d, load, c, on
  <2>1. d[on] <= c[on]
    BY <1>12, <1>13
  <2>2. c \in Counts
    BY <1>6 DEF c
  <2> QED  BY <1>1, <1>8, <1>13, <1>14, <2>1, <2>2, SpareWithFewer
<1> QED  BY <1>4, <1>15

-----------------------------------------------------------------------------
(* Work goes where it can.                                                 *)

Candidates(t) ==
  IF task[t].pool # None THEN {m.id : m \in ToSet(world.set.pools[task[t].pool])}
  ELSE Reachable(world.set, Named(t))
FitsAt(model, id) == model # None => ModelKind[model] = world.set.instances[id].kind

LEMMA ModelFits ==
  ASSUME Known, NEW id \in Ids, NEW want, FitsAt(want, id)
  PROVE  FitsAt(ModelOn(world.set, id, want), id)
BY ModelsAssumption DEF Known, Ids, Fits, FitsAt, ModelOn

LEMMA FallbackFits ==
  ASSUME Known, NEW origin \in Ids, NEW from \in Ids, NEW next \in Ids, NEW want,
         FitsAt(want, origin), next = world.set.instances[from].fallback
  PROVE  FitsAt(FallbackModel(world.set, origin, from, next, want), next)
<1> DEFINE set == world.set
           model == FallbackModel(set, origin, from, next, want)
<1>1. /\ \A p \in Ids : /\ Fits(world, set.instances[p].model, p)
                        /\ Fits(world, set.instances[p].fallbackModel, set.instances[p].fallback)
  BY ModelsAssumption DEF Known, Ids
<1>2. CASE set.instances[from].fallbackModel # None
  <2>1. model = set.instances[from].fallbackModel
    BY <1>2 DEF FallbackModel
  <2> QED  BY <1>1, <2>1 DEF Fits, FitsAt, Ids
<1>3. CASE ~(set.instances[from].fallbackModel # None) /\ want # None
           /\ set.instances[next].kind = set.instances[origin].kind
  <2>1. model = want
    BY <1>3 DEF FallbackModel
  <2> QED  BY <1>3, <2>1 DEF FitsAt
<1>4. CASE ~(set.instances[from].fallbackModel # None)
           /\ ~(want # None /\ set.instances[next].kind = set.instances[origin].kind)
  <2>1. model = set.instances[next].model
    BY <1>4 DEF FallbackModel
  <2> QED  BY <1>1, <2>1 DEF Fits, FitsAt, Ids
<1> QED  BY <1>2, <1>3, <1>4

\* What the answer for a task promises.
Promise(t, at) ==
  /\ at.on \in Candidates(t)
  /\ world.set.instances[at.on].enabled
  /\ task[t].pool = None /\ at.on # Named(t) => Named(t) \in world.av.blocked
  /\ FitsAt(at.model, at.on)
  /\ at.on \in world.av.blocked =>
       \A p \in Candidates(t) : ~MayTake(world.set, world.av, p)

LEMMA PoolPromise ==
  ASSUME Known, NEW t \in Tasks, NEW c \in Counts, task[t].pool # None, Answer(t, c).on # None
  PROVE  Promise(t, Answer(t, c))
<1> DEFINE at == Answer(t, c)
           av == Seen(c)
           sel == Selection(t)
<1>1. /\ sel.pool = task[t].pool /\ sel.model = task[t].model
      /\ sel.threshold = Threshold /\ Threshold \in Nat
  BY SelectionFacts
<1>2. PICK m \in Pool(t) :
        m.id \in Ids /\ OnMember(world.set, av, sel, at, m) /\ task[t].pool \in DOMAIN world.set.pools
  <2>1. PoolAnswer(t, c)
    BY Answers
  <2> QED  BY <2>1 DEF PoolAnswer
<1>3. /\ world.set.instances[m.id].enabled /\ at.on = m.id
      /\ at.model = ModelOn(world.set, m.id, task[t].model)
      /\ PoolChoice(world.set, av, sel, m)
  BY <1>1, <1>2 DEF OnMember
<1>4. Pool(t) = ToSet(world.set.pools[task[t].pool])
  <2>1. world.set.pools[task[t].pool] \in Seq([id : Ids, weight : Nat])
    BY <1>2, WorldsAssumption DEF Known, ValidPool, Ids
  <2> QED  BY <2>1, ListSet DEF Pool
<1>5. Candidates(t) = {o.id : o \in Pool(t)}
  BY <1>4 DEF Candidates
<1>6. FitsAt(at.model, at.on)
  <2>1. Fits(world, task[t].model, m.id)
    BY <1>2, <1>4, ModelsAssumption DEF Known
  <2>2. FitsAt(task[t].model, m.id)
    BY <1>2, <2>1 DEF Fits, FitsAt, Ids
  <2> QED  BY <1>2, <1>3, <2>2, ModelFits
<1>7. ASSUME at.on \in world.av.blocked, NEW o \in Pool(t)
      PROVE  ~MayTake(world.set, world.av, o.id)
  <2>1. ~Usable(world.set, av, sel, m.id)
    <3>1. Sound(world.set, av)
      BY SeenSound
    <3>2. Usable(world.set, av, sel, m.id) => MayTake(world.set, av, m.id)
      BY <1>1, <1>2, <3>1, UsableTakes DEF Ids
    <3>3. ~MayTake(world.set, world.av, m.id)
      BY <1>3, <1>7 DEF MayTake
    <3> QED  BY <3>2, <3>3, SeenTakes
  <2>2. ~sel.backfill /\ ~Usable(world.set, av, sel, o.id)
    BY <1>1, <1>3, <1>7, <2>1 DEF PoolChoice, Preferred, Pool
  <2>3. ~MayTake(world.set, av, o.id)
    BY <2>2 DEF Usable
  <2> QED  BY <2>3, SeenTakes
<1>8. at.on \in Candidates(t)
  BY <1>2, <1>3, <1>5
<1> QED  BY <1>3, <1>5, <1>6, <1>7, <1>8 DEF Promise

LEMMA NamedPromise ==
  ASSUME Known, NEW t \in Tasks, NEW c \in Counts, task[t].pool = None, Answer(t, c).on # None
  PROVE  Promise(t, Answer(t, c))
<1> DEFINE set == world.set
           at == Answer(t, c)
           av == Seen(c)
           sel == Selection(t)
           id == Named(t)
<1>1. /\ Origin(set, sel) = id /\ sel.model = task[t].model
      /\ av.blocked = world.av.blocked /\ IsFiniteSet(Ids)
  BY SelectionFacts, SeenSound, WorldsAssumption DEF Known, Ids
<1>2. /\ id \in Ids /\ set.instances[id].enabled
      /\ Stays(set, av, sel, at) \/ Moves(set, av, sel, at)
  <2>1. NamedAnswer(t, c)
    BY Answers
  <2> QED  BY <2>1 DEF NamedAnswer
<1>3. PICK chain : chain = Chain(set, id) /\ Linked(set, id, chain) /\ InList(chain) = Reachable(set, id)
  <2> HIDE DEF id
  <2> QED  BY <1>1, <1>2, ChainFacts, ChainIsReachable DEF Ids
<1>4. /\ chain \in Seq(Ids) /\ Len(chain) \in Nat /\ Len(chain) >= 1 /\ chain[1] = id
      /\ \A i \in 2..Len(chain) : chain[i] = set.instances[chain[i - 1]].fallback
  BY <1>3 DEF Linked, Ids, Positive
<1>5. Candidates(t) = InList(chain)
  BY <1>3 DEF Candidates
<1>6. FitsAt(task[t].model, id)
  <2>1. Fits(world, task[t].model, id)
    BY ModelsAssumption DEF Known, Named
  <2> QED  BY <1>2, <2>1 DEF Fits, FitsAt, Ids
<1>7. CASE Stays(set, av, sel, at)
  <2>1. /\ at.on = id /\ at.model = ModelOn(set, id, task[t].model)
        /\ id \in world.av.blocked => \A p \in Reachable(set, id) : ~MayTake(set, av, p)
    BY <1>1, <1>7 DEF Stays
  <2>2. at.on \in Candidates(t)
    BY <1>4, <1>5, <2>1 DEF InList
  <2>3. FitsAt(at.model, at.on)
    <3> HIDE DEF id
    <3> QED  BY <1>2, <1>6, <2>1, ModelFits
  <2>4. at.on \in world.av.blocked => \A p \in Candidates(t) : ~MayTake(set, world.av, p)
    BY <1>3, <1>5, <2>1, SeenTakes
  <2> QED  BY <1>2, <2>1, <2>2, <2>3, <2>4 DEF Promise
<1>8. CASE Moves(set, av, sel, at)
  <2>1. PICK i \in 2..Len(chain) :
          /\ MayTake(set, av, chain[i]) /\ at.on = chain[i]
          /\ at.model = FallbackModel(set, id, chain[i - 1], chain[i], task[t].model)
    BY <1>1, <1>3, <1>8 DEF Moves
  <2>2. id \in world.av.blocked
    BY <1>1, <1>8 DEF Moves
  <2>3. /\ i - 1 \in 1..Len(chain) /\ i \in 1..Len(chain)
        /\ chain[i - 1] \in Ids /\ chain[i] \in Ids
        /\ chain[i] = set.instances[chain[i - 1]].fallback
    BY <1>4, SMTT(60)
  <2>4. FitsAt(at.model, at.on)
    <3>1. PICK from \in Ids, next \in Ids : from = chain[i - 1] /\ next = chain[i]
      BY <2>3
    <3> HIDE DEF id
    <3> QED  BY <1>2, <1>6, <2>1, <2>3, <3>1, FallbackFits
  <2>5. MayTake(set, world.av, at.on)
    BY <2>1, SeenTakes
  <2>6. at.on \in Candidates(t)
    BY <1>5, <2>1, <2>3 DEF InList
  <2>7. set.instances[at.on].enabled /\ at.on \notin world.av.blocked
    BY <2>5 DEF MayTake, CanTake
  <2> QED  BY <2>2, <2>4, <2>6, <2>7 DEF Promise
<1> QED  BY <1>2, <1>7, <1>8

LEMMA GoesHolds ==
  ASSUME PassInv, NEW count, DueIn(count)
  PROVE  WorkGoesWhereItCan
<1> DEFINE set == world.set
<1>1. Known
  BY DEF DueIn
<1>2. ASSUME NEW t \in ToSet(due), ~task[t].script, place[t].on # None
      PROVE  Promise(t, place[t])
  <2>1. PICK i \in 1..Len(Sorted(due)) :
          t \in Tasks /\ count[i - 1] \in Counts /\ place[t] = PlaceOf(t, count[i - 1])
    BY Planned
  <2>2. place[t] = Answer(t, count[i - 1])
    BY <1>2, <2>1 DEF PlaceOf
  <2> QED  BY <1>1, <1>2, <2>1, <2>2, PoolPromise, NamedPromise
<1>3. ASSUME NEW t \in ToSet(due), ~task[t].script, t \in starts
      PROVE  /\ place[t].on \in Candidates(t) /\ set.instances[place[t].on].enabled
             /\ place[t].on \notin world.av.blocked \union world.down
             /\ task[t].pool = None /\ place[t].on # Named(t) => Named(t) \in world.av.blocked
             /\ place[t].model # None =>
                  ModelKind[place[t].model] = set.instances[place[t].on].kind
  <2>1. Probed(place, t) /\ ~GateHolds(place, t)
    BY <1>1, <1>3, Started, RunnableDue
  <2>2. place[t].on # None /\ place[t].on \notin world.av.blocked \union world.down
    BY <2>1 DEF Probed, GateHolds
  <2>3. Promise(t, place[t])
    BY <1>2, <1>3, <2>2
  <2> QED  BY <2>2, <2>3 DEF Promise, FitsAt
<1>4. ASSUME NEW t \in ToSet(due), ~task[t].script, place[t].on # None, GateHolds(place, t)
      PROVE  \A p \in Candidates(t) : ~MayTake(set, world.av, p)
  BY <1>2, <1>4 DEF Promise, GateHolds
<1> QED  BY <1>3, <1>4, Zenon DEF WorkGoesWhereItCan, Candidates

-----------------------------------------------------------------------------
(* Placement.                                                              *)

\* A pass has placed what is due.
PlacementInv == PassInv /\ \E count : DueIn(count)

LEMMA NothingPlanned ==
  ASSUME Known
  PROVE  <<>> \in Seq(Tasks) /\ Once(<<>>) /\ \E count : \A p : Plan(<<>>, p, count)
<1>1. PICK q \in Seq(Tasks) : q = <<>>
  <2>1. <<>> \in Seq(Tasks)
    OBVIOUS
  <2> QED  BY <2>1
<1>2. Once(q) /\ Len(q) = 0
  BY <1>1 DEF Once
<1>3. PICK count : Plan(q, Placed(q), count)
  BY <1>2, PlacedPlan
<1>4. \A p : Plan(q, p, count)
  BY <1>2, <1>3 DEF Plan
<1> QED  BY <1>1, <1>2, <1>4

LEMMA PlacementInit == Init => PlacementInv
<1> SUFFICES ASSUME Init PROVE PlacementInv
  OBVIOUS
<1>1. Known /\ due = <<>> /\ Sorted(due) = <<>>
  BY NothingSorted DEF Init, Known
<1>2. PICK count : \A p : Plan(<<>>, p, count)
  BY <1>1, NothingPlanned
<1>3. DueIn(count)
  BY <1>1, <1>2, NothingPlanned DEF DueIn
<1> QED  BY <1>3, PassInit DEF PlacementInv

\* What a pass makes of a list depends on the tasks and the world alone.
LEMMA SamePlans ==
  ASSUME UNCHANGED <<task, world>>
  PROVE  /\ Counts' = Counts /\ (Known <=> Known')
         /\ world'.av.running = world.av.running
         /\ \A t, c : /\ (Counted(t, c))' = Counted(t, c)
                      /\ (PlaceOf(t, c))' = PlaceOf(t, c)
<1>1. Ids' = Ids /\ Counts' = Counts /\ (Known <=> Known') /\ world'.av.running = world.av.running
  BY DEF Counts, Ids, Known
<1>2. ASSUME NEW t, NEW c
      PROVE  (Counted(t, c))' = Counted(t, c) /\ (PlaceOf(t, c))' = PlaceOf(t, c)
  <2>1. (Selection(t))' = Selection(t) /\ (Seen(c))' = Seen(c)
    BY DEF Selection, Seen
  <2>2. (Answer(t, c))' = Answer(t, c)
    BY <2>1 DEF Answer
  <2>3. (Takes(t, c))' = Takes(t, c)
    BY <2>2 DEF Takes
  <2> QED  BY <2>2, <2>3 DEF Counted, PlaceOf
<1> QED  BY <1>1, <1>2

LEMMA SamePlan ==
  ASSUME UNCHANGED <<task, world>>, Known, NEW q, NEW count,
         due' \in Seq(Tasks), Once(due'), Sorted(due)' = q, Plan(q, place', count)
  PROVE  DueIn(count)'
<1>1. /\ (Plan(Sorted(due), place, count))' <=>
           /\ count \in [0..Len(q) -> Counts'] /\ count[0] = world'.av.running
           /\ \A i \in 1..Len(q) : /\ i - 1 \in 0..Len(q)
                                   /\ count[i] = (Counted(q[i], count[i - 1]))'
                                   /\ place'[q[i]] = (PlaceOf(q[i], count[i - 1]))'
  BY Zenon DEF Plan
<1>2. (Plan(Sorted(due), place, count))'
  BY <1>1, SamePlans DEF Plan
<1>3. Known'
  BY SamePlans
<1>4. Once(due)'
  BY DEF Once
<1> QED  BY <1>2, <1>3, <1>4 DEF DueIn

LEMMA PlacementStep ==
  ASSUME PlacementInv, [Next]_vars
  PROVE  PlacementInv'
<1>1. PassInv'
  BY PassStep DEF PlacementInv
<1>2. Known
  BY DEF PlacementInv, DueIn
<1>3. ASSUME NEW t \in Tasks, AnotherIsDue(t) PROVE \E count : DueIn(count)'
  <2>1. /\ UNCHANGED <<task, world>> /\ place' = Placed(Sorted(due'))
        /\ due' \in Seq(Tasks) /\ Once(due)'
    BY <1>1, <1>3 DEF AnotherIsDue, Tick, PassInv
  <2>2. PICK next \in Seq(Tasks) : next = due' /\ Once(next)
    BY <2>1 DEF Once
  <2>3. Sorted(due)' = Sorted(next)
    BY <2>1, <2>2 DEF Sorted
  <2>4. PICK q \in Seq(Tasks) : q = Sorted(next) /\ Once(q)
    BY <1>2, <2>2, SortedSet
  <2>5. PICK count : Plan(q, Placed(q), count)
    BY <1>2, <2>4, PlacedPlan
  <2>6. DueIn(count)'
    BY <1>2, <2>1, <2>2, <2>3, <2>4, <2>5, SamePlan
  <2> QED  BY <2>6
<1>4. ASSUME NothingIsDue PROVE \E count : DueIn(count)'
  <2>1. UNCHANGED <<task, world>> /\ due' = <<>>
    BY <1>4 DEF NothingIsDue, Tick
  <2>2. PICK count : \A p : Plan(<<>>, p, count)
    BY <1>2, NothingPlanned
  <2>3. Sorted(due)' = <<>>
    <3>1. Sorted(due)' = Sorted(<<>>)
      BY <2>1 DEF Sorted
    <3> QED  BY <3>1, NothingSorted
  <2>4. due' \in Seq(Tasks) /\ Once(due')
    BY <1>2, <2>1, NothingPlanned
  <2>5. Plan(<<>>, place', count)
    BY <2>2
  <2>6. DueIn(count)'
    BY <1>2, <2>1, <2>3, <2>4, <2>5, SamePlan
  <2> QED  BY <2>6
<1>5. ASSUME UNCHANGED vars PROVE \E count : DueIn(count)'
  <2>1. UNCHANGED <<task, world>> /\ due' = due /\ place' = place /\ Sorted(due)' = Sorted(due)
    BY <1>5 DEF vars, Sorted
  <2>2. PICK count : DueIn(count)
    BY DEF PlacementInv
  <2>3. due' \in Seq(Tasks) /\ Once(due') /\ Plan(Sorted(due), place', count)
    BY <2>1, <2>2 DEF DueIn
  <2>4. DueIn(count)'
    BY <1>2, <2>1, <2>3, SamePlan
  <2> QED  BY <2>4
<1> QED  BY <1>1, <1>3, <1>4, <1>5 DEF PlacementInv, Next

\* Work is placed well, whatever is due and whatever the providers allow.
THEOREM WorkIsPlacedWell == Spec => []PlacementHolds
<1>1. PlacementInv => PlacementHolds
  <2> SUFFICES ASSUME PlacementInv PROVE PlacementHolds
    OBVIOUS
  <2>1. PICK count : PassInv /\ DueIn(count)
    BY DEF PlacementInv
  <2> QED  BY <2>1, GoesHolds, SpreadHolds, YieldsHolds DEF PlacementHolds
<1> QED  BY <1>1, PlacementInit, PlacementStep, PTL DEF Spec
=============================================================================
