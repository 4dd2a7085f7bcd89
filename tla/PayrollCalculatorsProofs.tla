----------------------- MODULE PayrollCalculatorsProofs -----------------------
(***************************************************************************)
(* Proofs about PayrollCalculators, for any rules that the codec accepts   *)
(* and any salaries, novelties and dates: every item's totals are those of *)
(* its concepts, each day of a month is paid once, a sick leave pays what  *)
(* it would as two, and what is accrued is a count of the days worked.     *)
(* The first two are said of calculations that price no hours by a month   *)
(* of zero hours, which the rules may have.                                *)
(*                                                                         *)
(* The sums and selections of the model are folds over sequences.  They    *)
(* are reasoned about by induction on sequences, from two equations each:  *)
(* what they are of the empty sequence and of a sequence longer by one.    *)
(***************************************************************************)
EXTENDS PayrollCalculators, AccruedDaysProofs

-----------------------------------------------------------------------------
(* The folds.                                                                *)

\* The greatest number of a set of indices.
LEMMA Top ==
    ASSUME NEW N \in Nat, NEW ss \in SUBSET (1..N), ss # {}
    PROVE  Max(ss) \in ss /\ \A y \in ss : Max(ss) >= y
<1> DEFINE U == {n \in Nat : \A y \in ss : y =< n}
<1>1. N \in U
  OBVIOUS
<1>2. U \in SUBSET Nat /\ U # {}
  BY <1>1
<1>3. PICK m \in U : \A n \in U : m =< n
  BY <1>2, NatLeast
<1>4. m \in ss
  <2>1. SUFFICES ASSUME m \notin ss PROVE FALSE
    OBVIOUS
  <2>2. \A y \in ss : y =< m - 1
    BY <2>1
  <2>3. m - 1 \in Nat
    <3>1. PICK y \in ss : TRUE
      OBVIOUS
    <3>2. y \in Int /\ y >= 1 /\ y =< m - 1 /\ m \in Int
      BY <2>2
    <3> QED BY <3>2
  <2>4. m - 1 \in U
    BY <2>2, <2>3
  <2> QED BY <2>4, <1>3
<1>5. \E x \in ss : \A y \in ss : x >= y
  BY <1>4
<1> QED BY <1>5 DEF Max

\* The two folds of the model, with what they do as data: the set that is kept or, for
\* the total, no set at all.
Start(fold) == IF fold.adds = "YES" THEN 0 ELSE <<>>
Step(fold, v, x) ==
    IF fold.adds = "YES" THEN v + x ELSE IF x \in fold.kept THEN Append(v, x) ELSE v

Adding == [adds |-> "YES", kept |-> {}]
Keeping(S) == [adds |-> "NO", kept |-> S]

\* iter folds s over every set of its first N indices, the greatest index last.
Folds(iter, fold, s, N) ==
    iter = [ss \in SUBSET (1..N) |->
               IF ss = {} THEN Start(fold) ELSE Step(fold, iter[ss \ {Max(ss)}], s[Max(ss)])]

FoldsTo(fold, s, v) == \E iter : Folds(iter, fold, s, Len(s)) /\ v = iter[1..Len(s)]

LEMMA FoldExists ==
    ASSUME NEW fold, NEW s, NEW N \in Nat
    PROVE  \E iter : Folds(iter, fold, s, N)
<1> DEFINE Good == {n \in Nat : \E iter : Folds(iter, fold, s, n)}
<1>1. 0 \in Good
  <2> DEFINE f == [ss \in SUBSET (1..0) |-> Start(fold)]
  <2>1. \A ss \in SUBSET (1..0) : ss = {}
    OBVIOUS
  <2>2. Folds(f, fold, s, 0)
    BY <2>1 DEF Folds
  <2> QED BY <2>2
<1>2. ASSUME NEW n \in Nat, n \in Good
      PROVE  n + 1 \in Good
  <2>1. PICK f : Folds(f, fold, s, n)
    BY <1>2
  <2> DEFINE g == [ss \in SUBSET (1..n+1) |->
                     IF n + 1 \in ss THEN Step(fold, f[ss \ {n + 1}], s[n + 1]) ELSE f[ss]]
  <2>2. ASSUME NEW ss \in SUBSET (1..n+1)
        PROVE  g[ss] = IF ss = {} THEN Start(fold)
                       ELSE Step(fold, g[ss \ {Max(ss)}], s[Max(ss)])
    <3>0. n + 1 \in Nat
      OBVIOUS
    <3>1. CASE n + 1 \in ss
      <4>1. Max(ss) = n + 1
        <5>1. Max(ss) \in ss /\ Max(ss) >= n + 1
          BY <3>0, <3>1, Top
        <5>2. Max(ss) \in 1..n+1
          BY <5>1
        <5> QED BY <5>1, <5>2
      <4>2. ss \ {n + 1} \in SUBSET (1..n+1) /\ n + 1 \notin ss \ {n + 1}
        OBVIOUS
      <4>3. g[ss \ {n + 1}] = f[ss \ {n + 1}]
        BY <4>2
      <4> QED BY <3>1, <4>1, <4>3
    <3>2. CASE n + 1 \notin ss
      <4>1. ss \in SUBSET (1..n)
        BY <3>2
      <4>2. CASE ss = {}
        BY <4>1, <4>2, <2>1 DEF Folds
      <4>3. CASE ss # {}
        <5> DEFINE m == Max(ss)
        <5>1. m \in ss
          BY <4>1, <4>3, Top
        <5> HIDE DEF m
        <5>2. ss \ {m} \in SUBSET (1..n) /\ n + 1 \notin ss \ {m} /\ ss \ {m} \in SUBSET (1..n+1)
          <6>1. ss \ {m} \in SUBSET (1..n)
            BY <4>1
          <6>2. n + 1 \notin 1..n /\ 1..n \subseteq 1..n+1
            OBVIOUS
          <6> QED BY <6>1, <6>2
        <5>3. g[ss \ {m}] = f[ss \ {m}]
          BY <5>2
        <5>4. f[ss] = Step(fold, f[ss \ {m}], s[m])
          BY <4>1, <4>3, <2>1 DEF Folds, m
        <5>5. g[ss] = f[ss]
          BY <3>2
        <5> QED BY <4>3, <5>3, <5>4, <5>5 DEF m
      <4> QED BY <4>2, <4>3
    <3> QED BY <3>1, <3>2
  <2>3. Folds(g, fold, s, n + 1)
    BY <2>2 DEF Folds
  <2> QED BY <2>3
<1> HIDE DEF Good
<1>3. Nat \subseteq Good
  BY <1>1, <1>2, NatSetInduction
<1> QED BY <1>3 DEF Good

Agree(s, r, n) == \A i \in 1..n : s[i] = r[i]

\* Folds of sequences that begin alike agree on the beginning.
LEMMA FoldUnique ==
    ASSUME NEW fold, NEW s, NEW r, NEW K \in Nat, NEW N \in Nat, K =< N,
           Agree(s, r, K),
           NEW f, Folds(f, fold, s, K), NEW g, Folds(g, fold, r, N)
    PROVE  \A ss \in SUBSET (1..K) : f[ss] = g[ss]
<1> DEFINE Good == {n \in Nat : n =< K => \A ss \in SUBSET (1..n) : f[ss] = g[ss]}
<1>1. 0 \in Good
  <2>1. \A ss \in SUBSET (1..0) : ss = {}
    OBVIOUS
  <2>2. {} \in SUBSET (1..K) /\ {} \in SUBSET (1..N)
    OBVIOUS
  <2>3. f[{}] = Start(fold) /\ g[{}] = Start(fold)
    BY <2>2 DEF Folds
  <2> QED BY <2>1, <2>3
<1>2. ASSUME NEW n \in Nat, n \in Good
      PROVE  n + 1 \in Good
  <2>1. SUFFICES ASSUME n + 1 =< K, NEW ss \in SUBSET (1..n+1)
                 PROVE  f[ss] = g[ss]
    OBVIOUS
  <2>2. \A t \in SUBSET (1..n) : f[t] = g[t]
    BY <1>2, <2>1
  <2>3. ss \in SUBSET (1..K) /\ ss \in SUBSET (1..N)
    BY <2>1
  <2>4. CASE ss = {}
    BY <2>2, <2>4
  <2>5. CASE ss # {}
    <3> DEFINE m == Max(ss)
    <3>1. m \in ss /\ \A y \in ss : m >= y
      BY <2>5, Top, n + 1 \in Nat
    <3>2. /\ f[ss] = Step(fold, f[ss \ {m}], s[m])
          /\ g[ss] = Step(fold, g[ss \ {m}], r[m])
      BY <2>3, <2>5 DEF Folds
    <3> HIDE DEF m
    <3>3. ss \ {m} \in SUBSET (1..n) /\ s[m] = r[m]
      BY <3>1, <2>1 DEF Agree
    <3> QED BY <3>2, <3>3, <2>2
  <2> QED BY <2>4, <2>5
<1> HIDE DEF Good
<1>3. K \in Good
  BY <1>1, <1>2, NatSetInduction
<1> QED BY <1>3 DEF Good

LEMMA FoldOfEmpty ==
    ASSUME NEW fold, NEW v, FoldsTo(fold, <<>>, v)
    PROVE  v = Start(fold)
<1>1. Len(<<>>) = 0
  OBVIOUS
<1>3. PICK iter : Folds(iter, fold, <<>>, 0) /\ v = iter[1..0]
  BY <1>1 DEF FoldsTo
<1>2. 1..0 = {}
  OBVIOUS
<1> QED BY <1>2, <1>3 DEF Folds

\* A fold takes the last element last.
LEMMA FoldOfAppend ==
    ASSUME NEW fold, NEW T, NEW s \in Seq(T), NEW x \in T,
           NEW v, FoldsTo(fold, s, v), NEW w, FoldsTo(fold, Append(s, x), w)
    PROVE  w = Step(fold, v, x)
<1> DEFINE r == Append(s, x)
           n == Len(s)
<1>1. n \in Nat /\ r \in Seq(T) /\ Len(r) = n + 1 /\ r[n+1] = x /\ \A i \in 1..n : s[i] = r[i]
  OBVIOUS
<1>2. PICK f : Folds(f, fold, s, n) /\ v = f[1..n]
  BY DEF FoldsTo
<1> HIDE DEF r
<1>3. PICK g : Folds(g, fold, r, n + 1) /\ w = g[1..n+1]
  BY <1>1 DEF FoldsTo, r
<1> HIDE DEF n
<1>4. \A ss \in SUBSET (1..n) : f[ss] = g[ss]
  <2> DEFINE k == n + 1
  <2>1. k \in Nat /\ n =< n /\ n =< k /\ n \in Nat
    BY <1>1
  <2>2. Agree(s, r, n)
    BY <1>1 DEF Agree
  <2>3. Folds(g, fold, r, k)
    BY <1>3
  <2> HIDE DEF k
  <2> QED BY <1>2, <2>1, <2>2, <2>3, FoldUnique
<1>5. Max(1..n+1) = n + 1
  <2> DEFINE k == n + 1
  <2>1. k \in Nat /\ k \in 1..k
    BY <1>1
  <2> HIDE DEF k
  <2>2. 1..k # {} /\ 1..k \in SUBSET (1..k)
    BY <2>1
  <2>3. Max(1..k) \in 1..k /\ Max(1..k) >= k
    BY <2>1, <2>2, Top
  <2>4. Max(1..k) = k
    BY <2>1, <2>3
  <2> QED BY <2>4 DEF k
<1>6. (1..n+1) \ {n+1} = 1..n /\ n + 1 \in 1..n+1
  BY <1>1
<1>7. g[1..n+1] = Step(fold, g[1..n], r[n+1])
  BY <1>3, <1>5, <1>6 DEF Folds
<1> QED BY <1>1, <1>2, <1>3, <1>4, <1>7

\* What the folds of the model are defined by.
SumDef(iter, s, N) ==
    iter = [ss \in SUBSET (1..N) |->
               IF ss = {} THEN 0 ELSE iter[ss \ {Max(ss)}] + s[Max(ss)]]

FilterDef(iter, s, S, N) ==
    iter = [ss \in SUBSET (1..N) |->
               IF ss = {} THEN <<>>
               ELSE IF s[Max(ss)] \in S THEN Append(iter[ss \ {Max(ss)}], s[Max(ss)])
                    ELSE iter[ss \ {Max(ss)}]]

LEMMA SumDefFolds ==
    ASSUME NEW iter, NEW s, NEW N
    PROVE  SumDef(iter, s, N) <=> Folds(iter, Adding, s, N)
<1>1. \A v, x : Step(Adding, v, x) = v + x
  BY DEF Step, Adding
<1>2. Start(Adding) = 0
  BY DEF Start, Adding
<1>3. [ss \in SUBSET (1..N) |-> IF ss = {} THEN 0 ELSE iter[ss \ {Max(ss)}] + s[Max(ss)]]
        = [ss \in SUBSET (1..N) |->
             IF ss = {} THEN Start(Adding) ELSE Step(Adding, iter[ss \ {Max(ss)}], s[Max(ss)])]
  BY <1>1, <1>2
<1> QED BY <1>3 DEF SumDef, Folds

LEMMA FilterDefFolds ==
    ASSUME NEW iter, NEW s, NEW S, NEW N
    PROVE  FilterDef(iter, s, S, N) <=> Folds(iter, Keeping(S), s, N)
<1> DEFINE fold == Keeping(S)
<1>1. \A v, x : Step(fold, v, x) = IF x \in S THEN Append(v, x) ELSE v
  BY DEF Step, Keeping
<1>2. Start(fold) = <<>>
  BY DEF Start, Keeping
<1> HIDE DEF fold
<1>3. [ss \in SUBSET (1..N) |->
         IF ss = {} THEN <<>>
         ELSE IF s[Max(ss)] \in S THEN Append(iter[ss \ {Max(ss)}], s[Max(ss)])
              ELSE iter[ss \ {Max(ss)}]]
        = [ss \in SUBSET (1..N) |->
             IF ss = {} THEN Start(fold) ELSE Step(fold, iter[ss \ {Max(ss)}], s[Max(ss)])]
  BY <1>1, <1>2
<1> QED BY <1>3 DEF FilterDef, Folds, fold

LEMMA TotalFolds ==
    ASSUME NEW T, NEW s \in Seq(T)
    PROVE  FoldsTo(Adding, s, Total(s))
<1>1. PICK f : SumDef(f, s, Len(s))
  BY FoldExists, SumDefFolds, Len(s) \in Nat
<1>2. DOMAIN s = 1..Len(s)
  OBVIOUS
<1>3. PICK iter : SumDef(iter, s, Len(s)) /\ Total(s) = iter[1..Len(s)]
  BY <1>1, <1>2 DEF SumDef, Total, FoldLeft, MapThenFoldSet
<1> QED BY <1>3, SumDefFolds DEF FoldsTo

LEMMA ThoseFolds ==
    ASSUME NEW T, NEW s \in Seq(T), NEW S
    PROVE  FoldsTo(Keeping(S), s, Those(s, S))
<1>1. PICK f : FilterDef(f, s, S, Len(s))
  BY FoldExists, FilterDefFolds, Len(s) \in Nat
<1>2. DOMAIN s = 1..Len(s)
  OBVIOUS
<1>3. PICK iter : FilterDef(iter, s, S, Len(s)) /\ Those(s, S) = iter[1..Len(s)]
  BY <1>1, <1>2 DEF FilterDef, Those, FoldLeft, MapThenFoldSet
<1> QED BY <1>3, FilterDefFolds DEF FoldsTo

LEMMA TotalEmpty == Total(<<>>) = 0
<1>1. FoldsTo(Adding, <<>>, Total(<<>>))
  BY TotalFolds, <<>> \in Seq({})
<1>2. Total(<<>>) = Start(Adding)
  BY <1>1, FoldOfEmpty
<1> QED BY <1>2 DEF Start, Adding

LEMMA TotalAppend ==
    ASSUME NEW T, NEW s \in Seq(T), NEW x \in T
    PROVE  Total(Append(s, x)) = Total(s) + x
<1>1. FoldsTo(Adding, s, Total(s)) /\ FoldsTo(Adding, Append(s, x), Total(Append(s, x)))
  BY TotalFolds, Append(s, x) \in Seq(T)
<1>2. Total(Append(s, x)) = Step(Adding, Total(s), x)
  BY <1>1, FoldOfAppend
<1> QED BY <1>2 DEF Step, Adding

LEMMA ThoseEmpty ==
    ASSUME NEW S
    PROVE  Those(<<>>, S) = <<>>
<1>1. FoldsTo(Keeping(S), <<>>, Those(<<>>, S))
  BY ThoseFolds, <<>> \in Seq({})
<1>2. Those(<<>>, S) = Start(Keeping(S))
  BY <1>1, FoldOfEmpty
<1> QED BY <1>2 DEF Start, Keeping

LEMMA ThoseAppend ==
    ASSUME NEW T, NEW s \in Seq(T), NEW x \in T, NEW S
    PROVE  Those(Append(s, x), S) = IF x \in S THEN Append(Those(s, S), x) ELSE Those(s, S)
<1>1. /\ FoldsTo(Keeping(S), s, Those(s, S))
      /\ FoldsTo(Keeping(S), Append(s, x), Those(Append(s, x), S))
  BY ThoseFolds, Append(s, x) \in Seq(T)
<1>2. Those(Append(s, x), S) = Step(Keeping(S), Those(s, S), x)
  BY <1>1, FoldOfAppend
<1> QED BY <1>2 DEF Step, Keeping

\* Induction over sequences: a set with the empty sequence and, with each of its
\* sequences, every longer by one has them all.
LEMMA SeqSetInduction ==
    ASSUME NEW T, NEW P, <<>> \in P,
           \A s \in Seq(T), x \in T : s \in P => Append(s, x) \in P
    PROVE  Seq(T) \subseteq P
<1> DEFINE Good == {n \in Nat : \A s \in Seq(T) : Len(s) = n => s \in P}
<1>1. 0 \in Good
  <2>1. \A s \in Seq(T) : Len(s) = 0 => s = <<>>
    OBVIOUS
  <2> QED BY <2>1
<1>2. ASSUME NEW n \in Nat, n \in Good
      PROVE  n + 1 \in Good
  <2>1. SUFFICES ASSUME NEW s \in Seq(T), Len(s) = n + 1
                 PROVE  s \in P
    OBVIOUS
  <2> DEFINE r == [i \in 1..n |-> s[i]]
  <2>2. r \in [1..n -> T] /\ s[n + 1] \in T
    BY <2>1
  <2>4. \A i \in 1..n : r[i] = s[i]
    OBVIOUS
  <2> HIDE DEF r
  <2>3. r \in Seq(T) /\ Len(r) = n
    BY <2>2
  <2>5. Append(r, s[n + 1]) = s
    <3>1. /\ Append(r, s[n + 1]) \in Seq(T) /\ Len(Append(r, s[n + 1])) = n + 1
          /\ \A i \in 1..n+1 : Append(r, s[n + 1])[i] = IF i =< n THEN r[i] ELSE s[n + 1]
      BY <2>2, <2>3
    <3>2. \A i \in 1..n+1 : i =< n \/ i = n + 1
      OBVIOUS
    <3>3. \A i \in 1..n+1 : Append(r, s[n + 1])[i] = s[i]
      BY <2>4, <3>1, <3>2
    <3> QED BY <2>1, <3>1, <3>3
  <2> QED BY <1>2, <2>2, <2>3, <2>5
<1> HIDE DEF Good
<1>3. Nat \subseteq Good
  BY <1>1, <1>2, NatSetInduction
<1> QED BY <1>3 DEF Good

LEMMA ConcatAppend ==
    ASSUME NEW T, NEW p \in Seq(T), NEW q \in Seq(T), NEW x \in T
    PROVE  p \o Append(q, x) = Append(p \o q, x) /\ p \o <<>> = p /\ p \o q \in Seq(T)
<1>1. /\ p \o Append(q, x) \in Seq(T) /\ Append(p \o q, x) \in Seq(T)
      /\ Len(p \o Append(q, x)) = Len(p) + Len(q) + 1
      /\ Len(Append(p \o q, x)) = Len(p) + Len(q) + 1
  OBVIOUS
<1>2. \A i \in 1..(Len(p) + Len(q) + 1) : (p \o Append(q, x))[i] = Append(p \o q, x)[i]
  OBVIOUS
<1>3. p \o Append(q, x) = Append(p \o q, x)
  BY <1>1, <1>2
<1> QED BY <1>3

-----------------------------------------------------------------------------
(* Totals.                                                                   *)

LEMMA TotalTyped ==
    ASSUME NEW s \in Seq(Int)
    PROVE  Total(s) \in Int
<1> DEFINE P == {r \in Seq(Int) : Total(r) \in Int}
<1>1. <<>> \in P
  BY TotalEmpty
<1>2. ASSUME NEW r \in Seq(Int), NEW x \in Int, r \in P
      PROVE  Append(r, x) \in P
  <2>1. Total(Append(r, x)) = Total(r) + x
    BY TotalAppend
  <2>2. Append(r, x) \in Seq(Int)
    OBVIOUS
  <2> QED BY <1>2, <2>1, <2>2
<1> HIDE DEF P
<1>3. Seq(Int) \subseteq P
  BY <1>1, <1>2, SeqSetInduction
<1> QED BY <1>3 DEF P

LEMMA SumEmpty == Sum(<<>>) = 0
<1>1. [i \in 1..0 |-> <<>>[i].amount] = <<>>
  OBVIOUS
<1>2. Sum(<<>>) = Total([i \in 1..0 |-> <<>>[i].amount])
  BY Len(<<>>) = 0 DEF Sum, Each
<1> QED BY <1>1, <1>2, TotalEmpty

LEMMA SumAppend ==
    ASSUME NEW s \in Seq(Concepts), NEW c \in Concepts
    PROVE  Sum(Append(s, c)) = Sum(s) + c.amount
<1> DEFINE n == Len(s)
           p == [i \in 1..n |-> s[i].amount]
           r == Append(s, c)
           q == [i \in 1..n+1 |-> r[i].amount]
<1>1. /\ n \in Nat /\ Len(r) = n + 1 /\ r[n + 1] = c /\ \A i \in 1..n : r[i] = s[i]
      /\ \A i \in 1..n : s[i].amount \in Int
      /\ c.amount \in Int
  <2>1. \A d \in Concepts : d.amount \in Int
    BY DEF Concepts
  <2> QED BY <2>1
<1>2. Sum(s) = Total(p) /\ Sum(r) = Total(q)
  BY <1>1 DEF Sum, Each
<1> HIDE DEF r, n
<1>3. p \in [1..n -> Int] /\ \A i \in 1..n : p[i] = s[i].amount
  BY <1>1
<1>7. q \in [1..n+1 -> Int] /\ \A i \in 1..n+1 : q[i] = r[i].amount
  BY <1>1
<1> HIDE DEF p, q
<1>4. p \in Seq(Int) /\ Len(p) = n
  BY <1>1, <1>3
<1>5. q = Append(p, c.amount)
  <2> DEFINE m == n + 1
  <2>1. \A i \in 1..n : q[i] = p[i]
    <3>1. \A i \in 1..n : i \in 1..n+1
      BY <1>1
    <3>2. \A i \in 1..n : r[i].amount = s[i].amount
      BY <1>1
    <3> QED BY <1>3, <1>7, <3>1, <3>2
  <2>2. q[n + 1] = c.amount
    BY <1>1, <1>7
  <2>3. q \in Seq(Int) /\ Len(q) = m
    <3>1. q \in [1..m -> Int]
      BY <1>7
    <3>2. m \in Nat
      BY <1>1
    <3> HIDE DEF m
    <3> QED BY <3>1, <3>2
  <2>4. /\ Append(p, c.amount) \in Seq(Int) /\ Len(Append(p, c.amount)) = n + 1
        /\ \A i \in 1..n : Append(p, c.amount)[i] = p[i]
        /\ Append(p, c.amount)[n + 1] = c.amount
    BY <1>1, <1>4
  <2>5. \A i \in 1..n+1 : i \in 1..n \/ i = n + 1
    BY <1>1
  <2>6. \A i \in 1..n+1 : q[i] = Append(p, c.amount)[i]
    BY <2>1, <2>2, <2>4, <2>5
  <2> QED BY <2>3, <2>4, <2>6
<1> HIDE DEF p, q
<1>6. Total(q) = Total(p) + c.amount
  BY <1>1, <1>4, <1>5, TotalAppend
<1> QED BY <1>2, <1>6 DEF r

LEMMA SumTyped ==
    ASSUME NEW s \in Seq(Concepts)
    PROVE  Sum(s) \in Int
<1> DEFINE P == {r \in Seq(Concepts) : Sum(r) \in Int}
<1>1. <<>> \in P
  BY SumEmpty
<1>2. ASSUME NEW r \in Seq(Concepts), NEW c \in Concepts, r \in P
      PROVE  Append(r, c) \in P
  <2>1. Sum(Append(r, c)) = Sum(r) + c.amount
    BY SumAppend
  <2>2. Append(r, c) \in Seq(Concepts) /\ c.amount \in Int
    BY DEF Concepts
  <2> QED BY <1>2, <2>1, <2>2
<1> HIDE DEF P
<1>3. Seq(Concepts) \subseteq P
  BY <1>1, <1>2, SeqSetInduction
<1> QED BY <1>3 DEF P

\* What is kept is in both sets.
LEMMA ThoseTyped ==
    ASSUME NEW T, NEW s \in Seq(T), NEW S
    PROVE  Those(s, S) \in Seq(T \cap S)
<1> DEFINE P == {r \in Seq(T) : Those(r, S) \in Seq(T \cap S)}
<1>1. <<>> \in P
  <2>1. <<>> \in Seq(T) /\ <<>> \in Seq(T \cap S)
    OBVIOUS
  <2> QED BY <2>1, ThoseEmpty
<1>2. ASSUME NEW r \in Seq(T), NEW x \in T, r \in P
      PROVE  Append(r, x) \in P
  <2>1. Those(Append(r, x), S) = IF x \in S THEN Append(Those(r, S), x) ELSE Those(r, S)
    BY ThoseAppend
  <2>2. Append(r, x) \in Seq(T)
    OBVIOUS
  <2>3. CASE x \in S
    <3>1. Append(Those(r, S), x) \in Seq(T \cap S)
      BY <1>2, <2>3
    <3> QED BY <2>1, <2>2, <2>3, <3>1
  <2>4. CASE x \notin S
    BY <1>2, <2>1, <2>2, <2>4
  <2> QED BY <2>3, <2>4
<1> HIDE DEF P
<1>3. Seq(T) \subseteq P
  BY <1>1, <1>2, SeqSetInduction
<1> QED BY <1>3 DEF P

\* The amount of the concepts that are in a set.
Matching(concepts, S) == Sum(Those(concepts, S))

LEMMA MatchingEmpty ==
    ASSUME NEW S
    PROVE  Matching(<<>>, S) = 0
BY ThoseEmpty, SumEmpty DEF Matching

LEMMA MatchingAppend ==
    ASSUME NEW s \in Seq(Concepts), NEW c \in Concepts, NEW S
    PROVE  /\ Matching(Append(s, c), S) = Matching(s, S) + (IF c \in S THEN c.amount ELSE 0)
           /\ Matching(s, S) \in Int
<1> DEFINE kept == Those(s, S)
<1>1. Those(Append(s, c), S) = IF c \in S THEN Append(kept, c) ELSE kept
  BY ThoseAppend
<1>2. kept \in Seq(Concepts)
  <2>1. kept \in Seq(Concepts \cap S)
    BY ThoseTyped
  <2> HIDE DEF kept
  <2> QED BY <2>1
<1> HIDE DEF kept
<1>3. Sum(kept) \in Int /\ Sum(Append(kept, c)) = Sum(kept) + c.amount
  BY <1>2, SumAppend, SumTyped
<1>4. Matching(s, S) = Sum(kept)
  BY DEF Matching, kept
<1> QED BY <1>1, <1>3, <1>4 DEF Matching

LEMMA MatchingConcat ==
    ASSUME NEW p \in Seq(Concepts), NEW q \in Seq(Concepts), NEW S
    PROVE  /\ Matching(p \o q, S) = Matching(p, S) + Matching(q, S)
           /\ Matching(p, S) \in Int /\ Matching(q, S) \in Int
           /\ p \o q \in Seq(Concepts)
<1>1. \A r \in Seq(Concepts) : Matching(r, S) \in Int
  <2> TAKE r \in Seq(Concepts)
  <2>1. Those(r, S) \in Seq(Concepts \cap S)
    BY ThoseTyped
  <2>2. Those(r, S) \in Seq(Concepts)
    BY <2>1
  <2> QED BY <2>2, SumTyped DEF Matching
<1> DEFINE P == {r \in Seq(Concepts) : Matching(p \o r, S) = Matching(p, S) + Matching(r, S)}
<1>2. <<>> \in P
  BY <1>1, MatchingEmpty, p \o <<>> = p
<1>3. ASSUME NEW r \in Seq(Concepts), NEW c \in Concepts, r \in P
      PROVE  Append(r, c) \in P
  <2> DEFINE more == IF c \in S THEN c.amount ELSE 0
  <2>1. p \o Append(r, c) = Append(p \o r, c) /\ p \o r \in Seq(Concepts)
    BY ConcatAppend
  <2>2. Matching(Append(r, c), S) = Matching(r, S) + more
    BY MatchingAppend
  <2>3. Matching(Append(p \o r, c), S) = Matching(p \o r, S) + more
    BY <2>1, MatchingAppend
  <2>4. Append(r, c) \in Seq(Concepts) /\ more \in Int
    BY DEF Concepts
  <2> HIDE DEF more
  <2>5. Matching(p, S) \in Int /\ Matching(r, S) \in Int
    BY <1>1
  <2>6. Matching(p \o r, S) = Matching(p, S) + Matching(r, S)
    BY <1>3
  <2>7. Matching(p \o Append(r, c), S) = Matching(p, S) + Matching(Append(r, c), S)
    BY <2>1, <2>2, <2>3, <2>4, <2>5, <2>6
  <2> QED BY <2>4, <2>7
<1> HIDE DEF P
<1>4. Seq(Concepts) \subseteq P
  BY <1>2, <1>3, SeqSetInduction
<1> QED BY <1>1, <1>4 DEF P

\* A set with every concept of a part has its whole sum ...
LEMMA MatchingAll ==
    ASSUME NEW T \in SUBSET Concepts, NEW p \in Seq(T), NEW S, T \subseteq S
    PROVE  Matching(p, S) = Sum(p)
<1> DEFINE P == {r \in Seq(T) : Matching(r, S) = Sum(r)}
<1>1. <<>> \in P
  BY MatchingEmpty, SumEmpty
<1>2. ASSUME NEW r \in Seq(T), NEW c \in T, r \in P
      PROVE  Append(r, c) \in P
  <2>1. r \in Seq(Concepts) /\ c \in Concepts /\ c \in S /\ Append(r, c) \in Seq(T)
    OBVIOUS
  <2>2. Matching(Append(r, c), S) = Matching(r, S) + c.amount
    BY <2>1, MatchingAppend
  <2>3. Sum(Append(r, c)) = Sum(r) + c.amount
    BY <2>1, SumAppend
  <2> QED BY <1>2, <2>1, <2>2, <2>3
<1> HIDE DEF P
<1>3. Seq(T) \subseteq P
  BY <1>1, <1>2, SeqSetInduction
<1> QED BY <1>3 DEF P

\* ... and one with none of them nothing.
LEMMA MatchingNone ==
    ASSUME NEW T \in SUBSET Concepts, NEW p \in Seq(T), NEW S, T \cap S = {}
    PROVE  Matching(p, S) = 0
<1> DEFINE P == {r \in Seq(T) : Matching(r, S) = 0}
<1>1. <<>> \in P
  BY MatchingEmpty
<1>2. ASSUME NEW r \in Seq(T), NEW c \in T, r \in P
      PROVE  Append(r, c) \in P
  <2>1. r \in Seq(Concepts) /\ c \in Concepts /\ c \notin S /\ Append(r, c) \in Seq(T)
    OBVIOUS
  <2>2. Matching(Append(r, c), S) = Matching(r, S) + 0
    BY <2>1, MatchingAppend
  <2> QED BY <1>2, <2>1, <2>2
<1> HIDE DEF P
<1>3. Seq(T) \subseteq P
  BY <1>1, <1>2, SeqSetInduction
<1> QED BY <1>3 DEF P

-----------------------------------------------------------------------------
(* The types of amounts and of the parts of an item.                         *)

LEMMA DivTyped ==
    ASSUME NEW a \in Int, NEW b \in Nat \ {0}
    PROVE  a \div b \in Int
OBVIOUS

LEMMA ProductTyped ==
    ASSUME NEW a \in Int, NEW b \in Int
    PROVE  a * b \in Int
OBVIOUS

LEMMA RulesTyped ==
    /\ Rules.minimumWage \in Nat /\ Rules.monthlyDayBasis \in Nat \ {0}
    /\ Rules.standardMonthlyHours \in Nat /\ Rules.daytimeMultiplier \in Nat
    /\ Rules.nighttimeMultiplier \in Nat /\ Rules.nighttimeRate \in Nat
    /\ Rules.sundayHolidayRate \in Nat /\ Rules.employeeHealthRate \in Nat
    /\ Rules.employeePensionRate \in Nat /\ Rules.monthlyTransport \in Nat
    /\ Rules.salaryLimitInMinimumWages \in Nat /\ Rules.monthlyProrationDayBasis \in Nat \ {0}
    /\ Rules.severanceDaysPerYear \in Nat \ {0}
    /\ Rules.interestAnnualRate \in Nat /\ Rules.bonusDaysPerYear \in Nat \ {0}
    /\ Rules.monthlyIbcDayBasis \in Nat \ {0} /\ Rules.firstRate \in Nat
    /\ Rules.secondRate \in Nat /\ Rules.workRiskRate \in Nat
<1>1. 0..RateUnit \subseteq Nat
  BY CalculatorAssumption
<1> QED BY <1>1, RulesAssumption DEF AcceptedRules

LEMMA AtRateTyped ==
    ASSUME NEW amount \in Int, NEW rate \in Int
    PROVE  AtRate(amount, rate) \in Int
BY CalculatorAssumption, ProductTyped, DivTyped DEF AtRate

LEMMA ForTyped ==
    ASSUME NEW price \in Int, NEW quantity \in Int
    PROVE  For(price, quantity) \in Int
BY CalculatorAssumption, ProductTyped, DivTyped DEF For

LEMMA PricesTyped ==
    ASSUME NEW salary \in Int
    PROVE  PerDay(salary) \in Int
BY RulesTyped, DivTyped DEF PerDay

LEMMA NoveltyTyped ==
    ASSUME NEW n \in Novelties
    PROVE  /\ Quantity(n) \in Int /\ Number(n.amount) \in Int
           /\ Quantity(n) > 0 => n.quantity \in Int /\ Quantity(n) = n.quantity
<1>1. /\ n.quantity \in Int \cup {None} /\ n.amount \in Int \cup {None}
  BY NoveltiesAssumption
<1> QED BY <1>1 DEF Quantity, Number

LEMMA TurnsTyped ==
    ASSUME NEW quantity \in Int
    PROVE  Turns(quantity) \in Int
BY CalculatorAssumption, DivTyped DEF Turns

LEMMA DiseaseRateTyped ==
    ASSUME NEW sickDay
    PROVE  CommonDiseaseRate(sickDay) \in Nat
BY RulesTyped DEF CommonDiseaseRate

\* The concepts of some codes and a type.
Kind(codes, type) == {c \in Concepts : c.code \in codes /\ c.type = type}

LEMMA KindTyped ==
    ASSUME NEW codes, NEW code \in Codes \cap codes, NEW amount \in Int
    PROVE  /\ Earning(code, amount) \in Kind(codes, "EARNING")
           /\ Deduction(code, amount) \in Kind(codes, "DEDUCTION")
BY DEF Kind, Concepts, Earning, Deduction, Concept

LEMMA CommonDiseaseTyped ==
    ASSUME NEW dailyIbc \in Int, NEW startDay \in Int, NEW quantity \in Int
    PROVE  CommonDisease(dailyIbc, startDay, quantity) \in Int
<1> DEFINE turns == Turns(quantity)
           N == IF turns < 0 THEN 0 ELSE turns
           pay == [day \in 1..turns |-> AtRate(dailyIbc, CommonDiseaseRate(startDay + day - 1))]
<1>1. turns \in Int
  BY TurnsTyped
<1>2. \A day \in 1..turns : AtRate(dailyIbc, CommonDiseaseRate(startDay + day - 1)) \in Int
  <2> TAKE day \in 1..turns
  <2> DEFINE rate == CommonDiseaseRate(startDay + day - 1)
  <2>1. rate \in Int
    BY DiseaseRateTyped
  <2> HIDE DEF rate
  <2>2. AtRate(dailyIbc, rate) \in Int
    BY <2>1, AtRateTyped
  <2> QED BY <2>2 DEF rate
<1>3. pay \in [1..turns -> Int]
  BY <1>2
<1>4. CommonDisease(dailyIbc, startDay, quantity) = Total(pay)
  BY DEF CommonDisease
<1> HIDE DEF turns, pay
<1>5. N \in Nat /\ 1..turns = 1..N
  BY <1>1
<1> HIDE DEF N
<1>6. pay \in Seq(Int)
  <2>1. pay \in [1..N -> Int]
    BY <1>3, <1>5
  <2> QED BY <1>5, <2>1
<1> QED BY <1>4, <1>6, TotalTyped

LEMMA SickLeaveAmountTyped ==
    ASSUME NEW n \in Novelties, n.type = "SICK_LEAVE", Counted(n)
    PROVE  SickLeaveAmount(n) \in Int
<1> DEFINE ibc == n.sickLeaveIbc \div Rules.monthlyIbcDayBasis
<1>1. n.sickLeaveIbc \in Int /\ n.sickLeaveStartDay \in Int /\ n.quantity \in Int
  BY NoveltiesAssumption, NoveltyTyped DEF Counted
<1>2. ibc \in Int
  BY <1>1, RulesTyped, DivTyped
<1> HIDE DEF ibc
<1>3. CommonDisease(ibc, n.sickLeaveStartDay, n.quantity) \in Int
  BY <1>1, <1>2, CommonDiseaseTyped
<1>4. AtRate(For(ibc, n.quantity), Rules.workRiskRate) \in Int
  <2> DEFINE whole == For(ibc, n.quantity)
  <2>1. whole \in Int
    BY <1>1, <1>2, ForTyped
  <2>3. Rules.workRiskRate \in Int
    BY RulesTyped
  <2> HIDE DEF whole
  <2>2. AtRate(whole, Rules.workRiskRate) \in Int
    BY <2>1, <2>3, AtRateTyped
  <2> QED BY <2>2 DEF whole
<1> QED BY <1>3, <1>4 DEF SickLeaveAmount, ibc

LEMMA OfTypeTyped ==
    ASSUME NEW novelties \in Seq(Novelties), NEW types
    PROVE  /\ OfType(novelties, types) \in Seq({n \in Novelties : n.type \in types})
           /\ OfType(novelties, types) \in Seq(Novelties)
<1> DEFINE S == {n \in Novelties : n.type \in types}
           kept == Those(novelties, S)
<1>1. kept \in Seq(Novelties \cap S) /\ Novelties \cap S = S
  BY ThoseTyped
<1> HIDE DEF kept
<1>2. kept \in Seq(S)
  BY <1>1
<1>3. kept \in Seq(Novelties)
  BY <1>1
<1> QED BY <1>2, <1>3 DEF OfType, kept

LEMMA DaysTakenTyped ==
    ASSUME NEW novelties \in Seq(Novelties), NEW type
    PROVE  /\ DaysTaken(novelties, type) \in Seq({n \in Novelties : n.type = type /\ Counted(n)})
           /\ DaysTaken(novelties, type) \in Seq(Novelties)
<1> DEFINE S == {n \in Novelties : n.type = type /\ Counted(n)}
           kept == Those(novelties, S)
<1>1. kept \in Seq(Novelties \cap S) /\ Novelties \cap S = S
  BY ThoseTyped
<1> HIDE DEF kept
<1>2. kept \in Seq(S)
  BY <1>1
<1>3. kept \in Seq(Novelties)
  BY <1>1
<1> QED BY <1>2, <1>3 DEF DaysTaken, kept

\* No novelty that is stored lacks what its calculator looks for.
LEMMA DaysTakenAreDays ==
    ASSUME NEW novelties, NEW type
    PROVE  DaysTaken(novelties, type) = DaysOf(novelties, type)
<1>1. ASSUME NEW n \in Novelties
      PROVE  Counted(n) <=> Quantity(n) > 0
  <2>1. n.type = "SICK_LEAVE" =>
            n.sickLeaveOrigin # None /\ n.sickLeaveStartDay \notin {None, 0}
    BY NoveltiesAssumption, CalculatorAssumption DEF SickLeaveOrigins
  <2>2. n.type = "SICK_LEAVE" => Number(n.sickLeaveIbc) > 0
    BY NoveltiesAssumption, CalculatorAssumption DEF Number
  <2>3. n.type = "LEAVE" => n.leaveType # None
    BY NoveltiesAssumption
  <2> QED BY <2>1, <2>2, <2>3 DEF Counted
<1>2. {n \in Novelties : n.type = type /\ Counted(n)}
         = {n \in Novelties : n.type = type /\ Quantity(n) > 0}
  BY <1>1
<1> QED BY <1>2 DEF DaysTaken, DaysOf

LEMMA OvertimeRateTyped ==
    ASSUME NEW n
    PROVE  OvertimeRate(n) \in Int
BY RulesTyped DEF OvertimeRate

\* The codes of extra time, which are those of its novelties.
ExtraCodes == {"OVERTIME", "OVERTIME_NIGHT", "NIGHT_SURCHARGE", "SUNDAY_SURCHARGE",
               "HOLIDAY_SURCHARGE"}

\* Where novelties of hours are priced, an hour has a price.
LEMMA HoursArePriced ==
    ASSUME NEW novelties \in Seq(Novelties), NEW salary \in Int, ~PricesZeroHours(novelties),
           NEW types \in SUBSET HourlyTypes
    PROVE  \A i \in 1..Len(OfType(novelties, types)) : PerHour(salary) \in Int
<1>1. CASE Rules.standardMonthlyHours # 0
  BY <1>1, RulesTyped, DivTyped DEF PerHour
<1>2. CASE Rules.standardMonthlyHours = 0
  <2> DEFINE T == {novelties[i] : i \in DOMAIN novelties}
             S == {n \in Novelties : n.type \in types}
             kept == Those(novelties, S)
  <2>1. \A n \in T : n.type \notin types
    BY <1>2 DEF PricesZeroHours
  <2>2. T \cap S = {}
    BY <2>1
  <2>3. novelties \in Seq(T)
    OBVIOUS
  <2> HIDE DEF T, S
  <2>4. kept \in Seq(T \cap S)
    BY <2>3, ThoseTyped
  <2> HIDE DEF kept
  <2>5. \A i \in 1..Len(kept) : kept[i] \in T \cap S
    BY <2>4
  <2>6. \A i \in 1..Len(kept) : FALSE
    BY <2>2, <2>5
  <2> QED BY <2>6 DEF OfType, kept, S
<1> QED BY <1>1, <1>2

LEMMA EarnedPartsTyped ==
    ASSUME NEW novelties \in Seq(Novelties), NEW salary \in Int, ~PricesZeroHours(novelties)
    PROVE  /\ Bonus(novelties) \in Seq(Kind({"BONUS"}, "EARNING"))
           /\ Overtime(salary, novelties) \in Seq(Kind(ExtraCodes, "EARNING"))
           /\ NightSurcharge(salary, novelties) \in Seq(Kind(ExtraCodes, "EARNING"))
           /\ SundayHoliday(salary, novelties) \in Seq(Kind(ExtraCodes, "EARNING"))
<1>1. Bonus(novelties) \in Seq(Kind({"BONUS"}, "EARNING"))
  <2> DEFINE s == OfType(novelties, {"BONUS"})
             K == Kind({"BONUS"}, "EARNING")
  <2>1. s \in Seq(Novelties)
    BY OfTypeTyped
  <2> HIDE DEF s, K
  <2>3. \A i \in 1..Len(s) : s[i] \in Novelties
    BY <2>1
  <2>4. \A n \in Novelties : Earning("BONUS", Number(n.amount)) \in K
    BY NoveltyTyped, KindTyped, "BONUS" \in Codes \cap {"BONUS"} DEF K, Codes
  <2>2. \A i \in 1..Len(s) : Earning("BONUS", Number(s[i].amount)) \in K
    BY <2>3, <2>4
  <2> QED BY <2>1, <2>2 DEF Bonus, Each, s, K
<1>2. Overtime(salary, novelties) \in Seq(Kind(ExtraCodes, "EARNING"))
  <2> DEFINE s == OfType(novelties, {"OVERTIME", "OVERTIME_NIGHT"})
             K == Kind(ExtraCodes, "EARNING")
             Pay(n) == AtRate(For(PerHour(salary), Quantity(n)), OvertimeRate(n))
  <2> DEFINE D == {n \in Novelties : n.type \in {"OVERTIME", "OVERTIME_NIGHT"}}
  <2>1. s \in Seq(D)
    BY OfTypeTyped
  <2>7. \A n \in D : n \in Novelties /\ n.type \in Codes \cap ExtraCodes
    BY DEF ExtraCodes, Codes
  <2> HIDE DEF s, K, D
  <2>8. \A i \in 1..Len(s) : s[i] \in D
    BY <2>1
  <2>2. \A i \in 1..Len(s) : s[i] \in Novelties /\ s[i].type \in Codes \cap ExtraCodes
    BY <2>7, <2>8
  <2>9. \A i \in 1..Len(s) : PerHour(salary) \in Int
    BY HoursArePriced, {"OVERTIME", "OVERTIME_NIGHT"} \subseteq HourlyTypes DEF s, HourlyTypes
  <2>3. \A i \in 1..Len(s) : Pay(s[i]) \in Int
    BY <2>2, <2>9, NoveltyTyped, ForTyped, AtRateTyped, OvertimeRateTyped
  <2> HIDE DEF Pay
  <2>4. \A i \in 1..Len(s) : Earning(s[i].type, Pay(s[i])) \in K
    BY <2>2, <2>3, KindTyped DEF K
  <2>5. Len(s) \in Nat
    BY <2>1
  <2>6. [i \in 1..Len(s) |-> Earning(s[i].type, Pay(s[i]))] \in Seq(K)
    BY <2>4, <2>5
  <2> QED BY <2>6 DEF Overtime, Each, s, K, Pay
<1>3. NightSurcharge(salary, novelties) \in Seq(Kind(ExtraCodes, "EARNING"))
  <2> DEFINE s == OfType(novelties, {"NIGHT_SURCHARGE"})
             K == Kind(ExtraCodes, "EARNING")
             Pay(n) == AtRate(For(PerHour(salary), Quantity(n)), Rules.nighttimeRate)
  <2> DEFINE D == {n \in Novelties : n.type \in {"NIGHT_SURCHARGE"}}
  <2>1. s \in Seq(D)
    BY OfTypeTyped
  <2>7. \A n \in D : n \in Novelties /\ n.type \in Codes \cap ExtraCodes
    BY DEF ExtraCodes, Codes
  <2> HIDE DEF s, K, D
  <2>8. \A i \in 1..Len(s) : s[i] \in D
    BY <2>1
  <2>2. \A i \in 1..Len(s) : s[i] \in Novelties /\ s[i].type \in Codes \cap ExtraCodes
    BY <2>7, <2>8
  <2>9. \A i \in 1..Len(s) : PerHour(salary) \in Int
    BY HoursArePriced, {"NIGHT_SURCHARGE"} \subseteq HourlyTypes DEF s, HourlyTypes
  <2>3. \A i \in 1..Len(s) : Pay(s[i]) \in Int
    <3> TAKE i \in 1..Len(s)
    <3>1. For(PerHour(salary), Quantity(s[i])) \in Int
      BY <2>2, <2>9, NoveltyTyped, ForTyped
    <3>2. Rules.nighttimeRate \in Int
      BY RulesTyped
    <3> QED BY <3>1, <3>2, AtRateTyped
  <2> HIDE DEF Pay
  <2>4. \A i \in 1..Len(s) : Earning(s[i].type, Pay(s[i])) \in K
    BY <2>2, <2>3, KindTyped DEF K
  <2>5. Len(s) \in Nat
    BY <2>1
  <2>6. [i \in 1..Len(s) |-> Earning(s[i].type, Pay(s[i]))] \in Seq(K)
    BY <2>4, <2>5
  <2> QED BY <2>6 DEF NightSurcharge, Each, s, K, Pay
<1>4. SundayHoliday(salary, novelties) \in Seq(Kind(ExtraCodes, "EARNING"))
  <2> DEFINE s == OfType(novelties, {"SUNDAY_SURCHARGE", "HOLIDAY_SURCHARGE"})
             K == Kind(ExtraCodes, "EARNING")
             Pay(n) == AtRate(For(PerHour(salary), Quantity(n)), Rules.sundayHolidayRate)
  <2> DEFINE D == {n \in Novelties : n.type \in {"SUNDAY_SURCHARGE", "HOLIDAY_SURCHARGE"}}
  <2>1. s \in Seq(D)
    BY OfTypeTyped
  <2>7. \A n \in D : n \in Novelties /\ n.type \in Codes \cap ExtraCodes
    BY DEF ExtraCodes, Codes
  <2> HIDE DEF s, K, D
  <2>8. \A i \in 1..Len(s) : s[i] \in D
    BY <2>1
  <2>2. \A i \in 1..Len(s) : s[i] \in Novelties /\ s[i].type \in Codes \cap ExtraCodes
    BY <2>7, <2>8
  <2>9. \A i \in 1..Len(s) : PerHour(salary) \in Int
    BY HoursArePriced, {"SUNDAY_SURCHARGE", "HOLIDAY_SURCHARGE"} \subseteq HourlyTypes DEF s, HourlyTypes
  <2>3. \A i \in 1..Len(s) : Pay(s[i]) \in Int
    <3> TAKE i \in 1..Len(s)
    <3>1. For(PerHour(salary), Quantity(s[i])) \in Int
      BY <2>2, <2>9, NoveltyTyped, ForTyped
    <3>2. Rules.sundayHolidayRate \in Int
      BY RulesTyped
    <3> QED BY <3>1, <3>2, AtRateTyped
  <2> HIDE DEF Pay
  <2>4. \A i \in 1..Len(s) : Earning(s[i].type, Pay(s[i])) \in K
    BY <2>2, <2>3, KindTyped DEF K
  <2>5. Len(s) \in Nat
    BY <2>1
  <2>6. [i \in 1..Len(s) |-> Earning(s[i].type, Pay(s[i]))] \in Seq(K)
    BY <2>4, <2>5
  <2> QED BY <2>6 DEF SundayHoliday, Each, s, K, Pay
<1> QED BY <1>1, <1>2, <1>3, <1>4

\* A part that is a single concept.
LEMMA OneConcept ==
    ASSUME NEW K \in SUBSET Concepts, NEW c \in K
    PROVE  <<c>> \in Seq(K) /\ Sum(<<c>>) = c.amount
<1>1. <<c>> = Append(<<>>, c) /\ <<>> \in Seq(Concepts) /\ c \in Concepts /\ <<c>> \in Seq(K)
  OBVIOUS
<1>2. c.amount \in Int
  BY DEF Concepts
<1>3. Sum(Append(<<>>, c)) = Sum(<<>>) + c.amount
  BY <1>1, SumAppend
<1> QED BY <1>1, <1>2, <1>3, SumEmpty

LEMMA KindConcepts ==
    ASSUME NEW codes, NEW type
    PROVE  Kind(codes, type) \in SUBSET Concepts
BY DEF Kind

LEMMA PaidDaysTyped ==
    ASSUME NEW novelties \in Seq(Novelties), NEW salary \in Int
    PROVE  /\ Vacation(salary, novelties) \in Seq(Kind({"VACATION"}, "EARNING"))
           /\ Leave(salary, novelties) \in Seq(Kind({"LEAVE"}, "EARNING"))
           /\ SickLeave(novelties) \in Seq(Kind({"SICK_LEAVE"}, "EARNING"))
<1> DEFINE Pay(n) == For(PerDay(salary), Quantity(n))
<1>0. \A n \in Novelties : Pay(n) \in Int
  BY NoveltyTyped, PricesTyped, ForTyped
<1>1. Vacation(salary, novelties) \in Seq(Kind({"VACATION"}, "EARNING"))
  <2> DEFINE s == DaysTaken(novelties, "VACATION")
             K == Kind({"VACATION"}, "EARNING")
  <2>1. s \in Seq(Novelties)
    BY DaysTakenTyped
  <2> HIDE DEF s, K, Pay
  <2>2. \A i \in 1..Len(s) : s[i] \in Novelties
    BY <2>1
  <2>3. \A n \in Novelties : Earning("VACATION", Pay(n)) \in K
    BY <1>0, KindTyped, "VACATION" \in Codes \cap {"VACATION"} DEF K, Codes
  <2>4. [i \in 1..Len(s) |-> Earning("VACATION", Pay(s[i]))] \in Seq(K)
    BY <2>1, <2>2, <2>3
  <2> QED BY <2>4 DEF Vacation, Each, s, K, Pay
<1>2. Leave(salary, novelties) \in Seq(Kind({"LEAVE"}, "EARNING"))
  <2> DEFINE S == {n \in Novelties : n.leaveType # "UNPAID"}
             s == Those(DaysTaken(novelties, "LEAVE"), S)
             K == Kind({"LEAVE"}, "EARNING")
  <2>1. s \in Seq(Novelties)
    <3>1. s \in Seq(Novelties \cap S)
      BY DaysTakenTyped, ThoseTyped
    <3> HIDE DEF s
    <3> QED BY <3>1
  <2> HIDE DEF s, K, Pay
  <2>2. \A i \in 1..Len(s) : s[i] \in Novelties
    BY <2>1
  <2>3. \A n \in Novelties : Earning("LEAVE", Pay(n)) \in K
    BY <1>0, KindTyped, "LEAVE" \in Codes \cap {"LEAVE"} DEF K, Codes
  <2>4. [i \in 1..Len(s) |-> Earning("LEAVE", Pay(s[i]))] \in Seq(K)
    BY <2>1, <2>2, <2>3
  <2> QED BY <2>4 DEF Leave, Each, s, K, Pay
<1>3. SickLeave(novelties) \in Seq(Kind({"SICK_LEAVE"}, "EARNING"))
  <2> DEFINE D == {n \in Novelties : n.type = "SICK_LEAVE" /\ Counted(n)}
             S == {n \in Novelties : SickLeaveAmount(n) > 0}
             s == Those(DaysTaken(novelties, "SICK_LEAVE"), S)
             K == Kind({"SICK_LEAVE"}, "EARNING")
  <2>1. s \in Seq(D \cap S)
    BY DaysTakenTyped, ThoseTyped
  <2>2. \A n \in D : SickLeaveAmount(n) \in Int
    BY SickLeaveAmountTyped
  <2> HIDE DEF s, K, S, D
  <2>3. \A i \in 1..Len(s) : s[i] \in D
    BY <2>1
  <2>4. \A n \in D : Earning("SICK_LEAVE", SickLeaveAmount(n)) \in K
    BY <2>2, KindTyped, "SICK_LEAVE" \in Codes \cap {"SICK_LEAVE"} DEF K, Codes
  <2>5. [i \in 1..Len(s) |-> Earning("SICK_LEAVE", SickLeaveAmount(s[i]))] \in Seq(K)
    BY <2>1, <2>3, <2>4
  <2> QED BY <2>5 DEF SickLeave, Each, s, K, S
<1> QED BY <1>1, <1>2, <1>3

LEMMA DeductedPartsTyped ==
    ASSUME NEW novelties \in Seq(Novelties), NEW salary \in Int
    PROVE  /\ Absence(salary, novelties) \in Seq(Kind({"ABSENCE"}, "DEDUCTION"))
           /\ Deductions(novelties) \in Seq(Kind({"DEDUCTION"}, "DEDUCTION"))
<1>1. Absence(salary, novelties) \in Seq(Kind({"ABSENCE"}, "DEDUCTION"))
  <2> DEFINE Pay(n) == For(PerDay(salary), Quantity(n))
             s == OfType(novelties, {"ABSENCE"})
             K == Kind({"ABSENCE"}, "DEDUCTION")
  <2>1. s \in Seq(Novelties)
    BY OfTypeTyped
  <2>2. \A n \in Novelties : Pay(n) \in Int
    BY NoveltyTyped, PricesTyped, ForTyped
  <2> HIDE DEF s, K, Pay
  <2>3. \A i \in 1..Len(s) : s[i] \in Novelties
    BY <2>1
  <2>4. \A n \in Novelties : Deduction("ABSENCE", Pay(n)) \in K
    BY <2>2, KindTyped, "ABSENCE" \in Codes \cap {"ABSENCE"} DEF K, Codes
  <2>5. [i \in 1..Len(s) |-> Deduction("ABSENCE", Pay(s[i]))] \in Seq(K)
    BY <2>1, <2>3, <2>4
  <2> QED BY <2>5 DEF Absence, Each, s, K, Pay
<1>2. Deductions(novelties) \in Seq(Kind({"DEDUCTION"}, "DEDUCTION"))
  <2> DEFINE s == OfType(novelties, {"DEDUCTION"})
             K == Kind({"DEDUCTION"}, "DEDUCTION")
  <2>1. s \in Seq(Novelties)
    BY OfTypeTyped
  <2> HIDE DEF s, K
  <2>2. \A i \in 1..Len(s) : s[i] \in Novelties
    BY <2>1
  <2>3. \A n \in Novelties : Deduction("DEDUCTION", Number(n.amount)) \in K
    BY NoveltyTyped, KindTyped, "DEDUCTION" \in Codes \cap {"DEDUCTION"} DEF K, Codes
  <2>4. [i \in 1..Len(s) |-> Deduction("DEDUCTION", Number(s[i].amount))] \in Seq(K)
    BY <2>1, <2>2, <2>3
  <2> QED BY <2>4 DEF Deductions, Each, s, K
<1> QED BY <1>1, <1>2

\* Contributions are a rate of their base.
LEMMA ContributionsTyped ==
    ASSUME NEW base \in Int
    PROVE  /\ Health(base) \in Seq(Kind({"HEALTH"}, "DEDUCTION"))
           /\ Sum(Health(base)) = AtRate(base, Rules.employeeHealthRate)
           /\ Pension(base) \in Seq(Kind({"PENSION"}, "DEDUCTION"))
           /\ Sum(Pension(base)) = AtRate(base, Rules.employeePensionRate)
<1>1. /\ AtRate(base, Rules.employeeHealthRate) \in Int
      /\ AtRate(base, Rules.employeePensionRate) \in Int
  <2>1. Rules.employeeHealthRate \in Int /\ Rules.employeePensionRate \in Int
    BY RulesTyped
  <2> QED BY <2>1, AtRateTyped
<1>2. ASSUME NEW code \in Codes, NEW amount \in Int
      PROVE  /\ <<Deduction(code, amount)>> \in Seq(Kind({code}, "DEDUCTION"))
             /\ Sum(<<Deduction(code, amount)>>) = amount
  <2> DEFINE c == Deduction(code, amount)
             K == Kind({code}, "DEDUCTION")
  <2>1. c \in K /\ K \in SUBSET Concepts
    BY KindTyped, KindConcepts, code \in Codes \cap {code}
  <2>2. c.amount = amount
    BY DEF Deduction, Concept
  <2> HIDE DEF c, K
  <2>3. <<c>> \in Seq(K) /\ Sum(<<c>>) = c.amount
    BY <2>1, OneConcept
  <2> QED BY <2>2, <2>3 DEF c, K
<1>3. "HEALTH" \in Codes /\ "PENSION" \in Codes
  BY DEF Codes
<1> QED BY <1>1, <1>2, <1>3 DEF Health, Pension

LEMMA QuantityAppend ==
    ASSUME NEW s \in Seq(Novelties), NEW n \in Novelties
    PROVE  TotalQuantity(Append(s, n)) = TotalQuantity(s) + Quantity(n)
<1> DEFINE m == Len(s)
           k == m + 1
           r == Append(s, n)
           p == [i \in 1..m |-> Quantity(s[i])]
           q == [i \in 1..k |-> Quantity(r[i])]
           x == Quantity(n)
<1>1. /\ m \in Nat /\ k \in Nat /\ k = m + 1 /\ Len(r) = k /\ r[k] = n
      /\ \A i \in 1..m : r[i] = s[i] /\ s[i] \in Novelties
  OBVIOUS
<1>2. TotalQuantity(s) = Total(p) /\ TotalQuantity(r) = Total(q)
  BY <1>1 DEF TotalQuantity, Each
<1>3. \A i \in 1..m : Quantity(s[i]) \in Int
  BY <1>1, NoveltyTyped
<1>4. x \in Int
  BY NoveltyTyped
<1> HIDE DEF r, m, k
<1>5. p \in [1..m -> Int] /\ \A i \in 1..m : p[i] = Quantity(s[i])
  BY <1>3
<1>6. \A i \in 1..k : i \in 1..m \/ i = k
  BY <1>1
<1>7. q \in [1..k -> Int] /\ q[k] = x /\ \A i \in 1..m : q[i] = p[i]
  <2>1. \A i \in 1..m : Quantity(r[i]) = p[i] /\ p[i] \in Int
    BY <1>1, <1>3, <1>5
  <2>2. Quantity(r[k]) = x
    BY <1>1
  <2> HIDE DEF x, p
  <2>3. \A i \in 1..k : Quantity(r[i]) \in Int
    BY <1>4, <1>6, <2>1, <2>2
  <2>4. k \in 1..k /\ 1..m \subseteq 1..k
    BY <1>1
  <2> QED BY <2>1, <2>2, <2>3, <2>4
<1> HIDE DEF p, q, x
<1>8. q = Append(p, x)
  <2>1. p \in Seq(Int) /\ Len(p) = m /\ q \in Seq(Int) /\ Len(q) = k
    BY <1>1, <1>5, <1>7
  <2>2. /\ Append(p, x) \in Seq(Int) /\ Len(Append(p, x)) = k
        /\ \A i \in 1..m : Append(p, x)[i] = p[i]
        /\ Append(p, x)[k] = x
    BY <1>1, <1>4, <2>1
  <2>3. \A i \in 1..k : q[i] = Append(p, x)[i]
    BY <1>6, <1>7, <2>2
  <2> QED BY <2>1, <2>2, <2>3
<1>9. p \in Seq(Int)
  BY <1>1, <1>5
<1>10. Total(q) = Total(p) + x
  BY <1>4, <1>8, <1>9, TotalAppend
<1> QED BY <1>2, <1>10 DEF r, x

LEMMA QuantityEmpty == TotalQuantity(<<>>) = 0
<1>1. [i \in 1..0 |-> Quantity(<<>>[i])] = <<>>
  OBVIOUS
<1>2. TotalQuantity(<<>>) = Total([i \in 1..0 |-> Quantity(<<>>[i])])
  BY Len(<<>>) = 0 DEF TotalQuantity, Each
<1> QED BY <1>1, <1>2, TotalEmpty

LEMMA QuantityTyped ==
    ASSUME NEW s \in Seq(Novelties)
    PROVE  TotalQuantity(s) \in Int
<1> DEFINE P == {r \in Seq(Novelties) : TotalQuantity(r) \in Int}
<1>1. <<>> \in P
  BY QuantityEmpty
<1>2. ASSUME NEW r \in Seq(Novelties), NEW n \in Novelties, r \in P
      PROVE  Append(r, n) \in P
  <2>1. TotalQuantity(Append(r, n)) = TotalQuantity(r) + Quantity(n) /\ Quantity(n) \in Int
    BY QuantityAppend, NoveltyTyped
  <2> QED BY <1>2, <2>1
<1> HIDE DEF P
<1>3. Seq(Novelties) \subseteq P
  BY <1>1, <1>2, SeqSetInduction
<1> QED BY <1>3 DEF P

LEMMA OrdinaryDaysTyped ==
    ASSUME NEW novelties \in Seq(Novelties)
    PROVE  OrdinaryWorkedDays(novelties) \in Int
<1> DEFINE taken == TotalQuantity(DaysTaken(novelties, "SICK_LEAVE"))
                    + TotalQuantity(DaysTaken(novelties, "VACATION"))
                    + TotalQuantity(DaysTaken(novelties, "LEAVE"))
<1>1. taken \in Int
  <2>1. \A type : TotalQuantity(DaysTaken(novelties, type)) \in Int
    BY DaysTakenTyped, QuantityTyped
  <2> QED BY <2>1
<1>2. WORKED_DAYS * Parts \in Int
  BY CalculatorAssumption DEF WORKED_DAYS
<1> HIDE DEF taken
<1>3. OrdinaryWorkedDays(novelties)
         = IF taken > WORKED_DAYS * Parts THEN 0 ELSE WORKED_DAYS * Parts - taken
  BY DEF OrdinaryWorkedDays, taken
<1> QED BY <1>1, <1>2, <1>3

\* A part that is one earning, or none.
LEMMA OneEarning ==
    ASSUME NEW code \in Codes, NEW amount \in Int
    PROVE  /\ <<Earning(code, amount)>> \in Seq(Kind({code}, "EARNING"))
           /\ Sum(<<Earning(code, amount)>>) = amount
           /\ <<>> \in Seq(Kind({code}, "EARNING"))
<1> DEFINE c == Earning(code, amount)
           K == Kind({code}, "EARNING")
<1>1. c \in K /\ K \in SUBSET Concepts
  BY KindTyped, KindConcepts, code \in Codes \cap {code}
<1>2. c.amount = amount
  BY DEF Earning, Concept
<1> HIDE DEF c, K
<1>3. <<c>> \in Seq(K) /\ Sum(<<c>>) = c.amount /\ <<>> \in Seq(K)
  BY <1>1, OneConcept
<1> QED BY <1>2, <1>3 DEF c, K

LEMMA BaseSalaryTyped ==
    ASSUME NEW salary \in Int, NEW days \in Int
    PROVE  /\ BaseSalary(salary, days) \in Seq(Kind({"BASE_SALARY"}, "EARNING"))
           /\ Sum(BaseSalary(salary, days)) = For(PerDay(salary), days)
           /\ For(PerDay(salary), days) \in Int
<1>1. "BASE_SALARY" \in Codes
  BY DEF Codes
<1>2. For(PerDay(salary), days) \in Int
  BY PricesTyped, ForTyped
<1> QED BY <1>1, <1>2, OneEarning DEF BaseSalary

LEMMA TransportTyped ==
    ASSUME NEW salary \in Int, NEW days \in Int
    PROVE  TransportAllowance(salary, days) \in Seq(Kind({"TRANSPORT_ALLOWANCE"}, "EARNING"))
<1> DEFINE basis == Rules.monthlyProrationDayBasis * Parts
           eligible == Least(days, basis)
           whole == Rules.monthlyTransport * eligible
           amount == RoundHalfUp(whole, basis)
<1>1. basis \in Nat \ {0}
  BY RulesTyped, CalculatorAssumption
<1>2. eligible \in Int
  BY <1>1, LeastOfTwo
<1>3. whole \in Int
  BY <1>2, RulesTyped
<1>4. RoundTo \in Nat \ {0}
  BY CalculatorAssumption
<1> HIDE DEF whole, basis
<1>5. amount \in Int
  <2> DEFINE r == RoundTo
             a == 2 * whole + basis * r
             b == 2 * basis * r
  <2>1. a \in Int /\ b \in Nat \ {0} /\ r \in Int
    BY <1>1, <1>3, <1>4
  <2>2. amount = (a \div b) * r
    BY DEF RoundHalfUp
  <2> HIDE DEF a, b, r, amount
  <2>3. a \div b \in Int
    BY <2>1, DivTyped
  <2> QED BY <2>1, <2>2, <2>3, ProductTyped
<1> HIDE DEF eligible, amount
<1>6. "TRANSPORT_ALLOWANCE" \in Codes
  BY DEF Codes
<1>7. /\ <<Earning("TRANSPORT_ALLOWANCE", amount)>>
             \in Seq(Kind({"TRANSPORT_ALLOWANCE"}, "EARNING"))
      /\ <<>> \in Seq(Kind({"TRANSPORT_ALLOWANCE"}, "EARNING"))
  BY <1>5, <1>6, OneEarning
<1> QED BY <1>7 DEF TransportAllowance, amount, whole, eligible, basis

-----------------------------------------------------------------------------
(* What is found in an item of its parts.                                    *)

\* Concepts of one type and of some codes are found by their type and their codes.
LEMMA KindFound ==
    ASSUME NEW codes, NEW type, NEW p \in Seq(Kind(codes, type))
    PROVE  /\ p \in Seq(Concepts) /\ Sum(p) \in Int
           /\ Typed(p, type) = Sum(p)
           /\ \A other : other # type => Typed(p, other) = 0
           /\ \A wanted : codes \subseteq wanted => Coded(p, wanted) = Sum(p)
           /\ \A wanted : codes \cap wanted = {} => Coded(p, wanted) = 0
<1> DEFINE K == Kind(codes, type)
           T(t) == {c \in Concepts : c.type = t}
           C(wanted) == {c \in Concepts : c.code \in wanted}
<1>1. /\ K \in SUBSET Concepts /\ K \subseteq T(type)
      /\ \A other : other # type => K \cap T(other) = {}
      /\ \A wanted : codes \subseteq wanted => K \subseteq C(wanted)
      /\ \A wanted : codes \cap wanted = {} => K \cap C(wanted) = {}
  BY DEF Kind
<1>2. /\ \A t : Typed(p, t) = Matching(p, T(t))
      /\ \A wanted : Coded(p, wanted) = Matching(p, C(wanted))
  BY DEF Typed, Coded, Matching
<1> HIDE DEF K, T, C
<1>3. p \in Seq(K)
  BY DEF K
<1>4. p \in Seq(Concepts)
  BY <1>1, <1>3
<1>5. Sum(p) \in Int
  BY <1>4, SumTyped
<1>6. \A S : K \subseteq S => Matching(p, S) = Sum(p)
  BY <1>1, <1>3, MatchingAll
<1>7. \A S : K \cap S = {} => Matching(p, S) = 0
  BY <1>1, <1>3, MatchingNone
<1> QED BY <1>1, <1>2, <1>4, <1>5, <1>6, <1>7

\* The totals of an item are those of its concepts.
Explained(item) ==
    /\ item.earnedTotal = Typed(item.concepts, "EARNING")
    /\ item.deductionsTotal = Typed(item.concepts, "DEDUCTION")
    /\ item.netPay = item.earnedTotal - item.deductionsTotal

\* The parts of a periodic item, each of its codes, and what is found in it of them.
LEMMA PeriodicFound ==
    ASSUME NEW salary \in Int, NEW novelties \in Seq(Novelties), ~PricesZeroHours(novelties)
    PROVE  LET days == OrdinaryWorkedDays(novelties)
               base == ContributionBase(salary, novelties)
               item == PricedPeriodic(salary, novelties)
           IN  /\ base \in Int
               /\ Explained(item)
               /\ item.earnedTotal - Coded(item.concepts, {"TRANSPORT_ALLOWANCE"}) = base
               /\ Coded(item.concepts, {"HEALTH"}) = Sum(Health(base))
               /\ Coded(item.concepts, {"PENSION"}) = Sum(Pension(base))
               /\ Coded(item.concepts, {"BASE_SALARY", "VACATION", "LEAVE"})
                      = Sum(BaseSalary(salary, days)) + Sum(Vacation(salary, novelties))
                        + Sum(Leave(salary, novelties))
<1> DEFINE days == OrdinaryWorkedDays(novelties)
           base == ContributionBase(salary, novelties)
           item == PricedPeriodic(salary, novelties)
           p1 == BaseSalary(salary, days)
           p2 == SickLeave(novelties)
           p3 == Vacation(salary, novelties)
           p4 == Leave(salary, novelties)
           p5 == Bonus(novelties)
           p6 == Overtime(salary, novelties)
           p7 == NightSurcharge(salary, novelties)
           p8 == SundayHoliday(salary, novelties)
           p9 == TransportAllowance(salary, days)
           p10 == Absence(salary, novelties)
           p11 == Deductions(novelties)
           p12 == Health(base)
           p13 == Pension(base)
<1>1. days \in Int
  BY OrdinaryDaysTyped
<1>2. /\ p1 \in Seq(Kind({"BASE_SALARY"}, "EARNING"))
      /\ p2 \in Seq(Kind({"SICK_LEAVE"}, "EARNING"))
      /\ p3 \in Seq(Kind({"VACATION"}, "EARNING"))
      /\ p4 \in Seq(Kind({"LEAVE"}, "EARNING"))
      /\ p5 \in Seq(Kind({"BONUS"}, "EARNING"))
      /\ p6 \in Seq(Kind(ExtraCodes, "EARNING"))
      /\ p7 \in Seq(Kind(ExtraCodes, "EARNING"))
      /\ p8 \in Seq(Kind(ExtraCodes, "EARNING"))
      /\ p9 \in Seq(Kind({"TRANSPORT_ALLOWANCE"}, "EARNING"))
      /\ p10 \in Seq(Kind({"ABSENCE"}, "DEDUCTION"))
      /\ p11 \in Seq(Kind({"DEDUCTION"}, "DEDUCTION"))
  BY <1>1, BaseSalaryTyped, PaidDaysTyped, EarnedPartsTyped, TransportTyped, DeductedPartsTyped
<1>3. /\ Sum(p1) \in Int
      /\ Sum(p2) \in Int
      /\ Sum(p3) \in Int
      /\ Sum(p4) \in Int
      /\ Sum(p5) \in Int
      /\ Sum(p6) \in Int
      /\ Sum(p7) \in Int
      /\ Sum(p8) \in Int
      /\ Sum(p9) \in Int
      /\ Sum(p10) \in Int
      /\ Sum(p11) \in Int
  BY <1>2, KindFound
<1>4. base = Sum(p1) + Sum(p2) + Sum(p3) + Sum(p4) + Sum(p5) + Sum(p6) + Sum(p7) + Sum(p8)
  BY DEF ContributionBase
<1> HIDE DEF p1, p2, p3, p4, p5, p6, p7, p8, p9, p10, p11, base
<1>5. base \in Int
  BY <1>3, <1>4
<1>6. /\ p12 \in Seq(Kind({"HEALTH"}, "DEDUCTION"))
      /\ p13 \in Seq(Kind({"PENSION"}, "DEDUCTION"))
  BY <1>5, ContributionsTyped
<1> HIDE DEF p12, p13
<1>7. Sum(p12) \in Int /\ Sum(p13) \in Int
  BY <1>6, KindFound
<1> DEFINE all == p1 \o p2 \o p3 \o p4 \o p5 \o p6 \o p7 \o p8 \o p9 \o p10 \o p11 \o p12 \o p13
<1>8. /\ item.concepts = all
      /\ item.earnedTotal = base + Sum(p9)
      /\ item.deductionsTotal = Sum(p10) + Sum(p11) + Sum(p12) + Sum(p13)
      /\ item.netPay = item.earnedTotal - item.deductionsTotal
  BY DEF PricedPeriodic, Result, days, base, p1, p2, p3, p4, p5, p6, p7, p8, p9, p10, p11, p12, p13
<1> HIDE DEF item, days
<1>9. /\ p1 \in Seq(Concepts)
      /\ p2 \in Seq(Concepts)
      /\ p3 \in Seq(Concepts)
      /\ p4 \in Seq(Concepts)
      /\ p5 \in Seq(Concepts)
      /\ p6 \in Seq(Concepts)
      /\ p7 \in Seq(Concepts)
      /\ p8 \in Seq(Concepts)
      /\ p9 \in Seq(Concepts)
      /\ p10 \in Seq(Concepts)
      /\ p11 \in Seq(Concepts)
      /\ p12 \in Seq(Concepts)
      /\ p13 \in Seq(Concepts)
  BY <1>2, <1>6, KindFound
<1>10. ASSUME NEW S
       PROVE  Matching(all, S)
                 = Matching(p1, S) + Matching(p2, S) + Matching(p3, S) + Matching(p4, S)
                   + Matching(p5, S) + Matching(p6, S) + Matching(p7, S) + Matching(p8, S)
                   + Matching(p9, S) + Matching(p10, S) + Matching(p11, S) + Matching(p12, S)
                   + Matching(p13, S)
  <2> DEFINE q2 == p1 \o p2
             q3 == q2 \o p3
             q4 == q3 \o p4
             q5 == q4 \o p5
             q6 == q5 \o p6
             q7 == q6 \o p7
             q8 == q7 \o p8
             q9 == q8 \o p9
             q10 == q9 \o p10
             q11 == q10 \o p11
             q12 == q11 \o p12
             q13 == q12 \o p13
  <2>2. q2 \in Seq(Concepts) /\ Matching(q2, S) = Matching(p1, S) + Matching(p2, S)
    BY <1>9, MatchingConcat
  <2> HIDE DEF q2
  <2>3. /\ q3 \in Seq(Concepts)
        /\ Matching(q3, S) = Matching(q2, S) + Matching(p3, S)
    BY <1>9, <2>2, MatchingConcat
  <2> HIDE DEF q3
  <2>4. /\ q4 \in Seq(Concepts)
        /\ Matching(q4, S) = Matching(q3, S) + Matching(p4, S)
    BY <1>9, <2>3, MatchingConcat
  <2> HIDE DEF q4
  <2>5. /\ q5 \in Seq(Concepts)
        /\ Matching(q5, S) = Matching(q4, S) + Matching(p5, S)
    BY <1>9, <2>4, MatchingConcat
  <2> HIDE DEF q5
  <2>6. /\ q6 \in Seq(Concepts)
        /\ Matching(q6, S) = Matching(q5, S) + Matching(p6, S)
    BY <1>9, <2>5, MatchingConcat
  <2> HIDE DEF q6
  <2>7. /\ q7 \in Seq(Concepts)
        /\ Matching(q7, S) = Matching(q6, S) + Matching(p7, S)
    BY <1>9, <2>6, MatchingConcat
  <2> HIDE DEF q7
  <2>8. /\ q8 \in Seq(Concepts)
        /\ Matching(q8, S) = Matching(q7, S) + Matching(p8, S)
    BY <1>9, <2>7, MatchingConcat
  <2> HIDE DEF q8
  <2>9. /\ q9 \in Seq(Concepts)
        /\ Matching(q9, S) = Matching(q8, S) + Matching(p9, S)
    BY <1>9, <2>8, MatchingConcat
  <2> HIDE DEF q9
  <2>10. /\ q10 \in Seq(Concepts)
        /\ Matching(q10, S) = Matching(q9, S) + Matching(p10, S)
    BY <1>9, <2>9, MatchingConcat
  <2> HIDE DEF q10
  <2>11. /\ q11 \in Seq(Concepts)
        /\ Matching(q11, S) = Matching(q10, S) + Matching(p11, S)
    BY <1>9, <2>10, MatchingConcat
  <2> HIDE DEF q11
  <2>12. /\ q12 \in Seq(Concepts)
        /\ Matching(q12, S) = Matching(q11, S) + Matching(p12, S)
    BY <1>9, <2>11, MatchingConcat
  <2> HIDE DEF q12
  <2>13. /\ q13 \in Seq(Concepts)
        /\ Matching(q13, S) = Matching(q12, S) + Matching(p13, S)
    BY <1>9, <2>12, MatchingConcat
  <2> HIDE DEF q13
  <2>14. /\ Matching(p1, S) \in Int
         /\ Matching(p2, S) \in Int
         /\ Matching(p3, S) \in Int
         /\ Matching(p4, S) \in Int
         /\ Matching(p5, S) \in Int
         /\ Matching(p6, S) \in Int
         /\ Matching(p7, S) \in Int
         /\ Matching(p8, S) \in Int
         /\ Matching(p9, S) \in Int
         /\ Matching(p10, S) \in Int
         /\ Matching(p11, S) \in Int
         /\ Matching(p12, S) \in Int
         /\ Matching(p13, S) \in Int
    BY <1>9, MatchingConcat
  <2>15. Matching(q13, S) = Matching(p1, S) + Matching(p2, S) + Matching(p3, S) + Matching(p4, S)
                           + Matching(p5, S) + Matching(p6, S) + Matching(p7, S) + Matching(p8, S)
                           + Matching(p9, S) + Matching(p10, S) + Matching(p11, S)
                           + Matching(p12, S) + Matching(p13, S)
    BY <2>2, <2>3, <2>4, <2>5, <2>6, <2>7, <2>8, <2>9, <2>10, <2>11, <2>12, <2>13, <2>14
  <2> QED BY <2>15 DEF all, q2, q3, q4, q5, q6, q7, q8, q9, q10, q11, q12, q13
<1> HIDE DEF all
<1>21. ASSUME NEW p, NEW codes, p \in Seq(Kind(codes, "EARNING"))
       PROVE  /\ Typed(p, "EARNING") = Sum(p) /\ Typed(p, "DEDUCTION") = 0
              /\ \A wanted : codes \subseteq wanted => Coded(p, wanted) = Sum(p)
              /\ \A wanted : codes \cap wanted = {} => Coded(p, wanted) = 0
  BY <1>21, KindFound, "EARNING" # "DEDUCTION"
<1>22. ASSUME NEW p, NEW codes, p \in Seq(Kind(codes, "DEDUCTION"))
       PROVE  /\ Typed(p, "EARNING") = 0 /\ Typed(p, "DEDUCTION") = Sum(p)
              /\ \A wanted : codes \subseteq wanted => Coded(p, wanted) = Sum(p)
              /\ \A wanted : codes \cap wanted = {} => Coded(p, wanted) = 0
  BY <1>22, KindFound, "EARNING" # "DEDUCTION"
<1>11. ASSUME NEW t
       PROVE  Typed(all, t)
                 = Typed(p1, t) + Typed(p2, t) + Typed(p3, t) + Typed(p4, t) + Typed(p5, t)
                   + Typed(p6, t) + Typed(p7, t) + Typed(p8, t) + Typed(p9, t) + Typed(p10, t)
                   + Typed(p11, t) + Typed(p12, t) + Typed(p13, t)
  BY <1>10 DEF Typed, Matching
<1>12. ASSUME NEW wanted
       PROVE  Coded(all, wanted)
                 = Coded(p1, wanted) + Coded(p2, wanted) + Coded(p3, wanted) + Coded(p4, wanted)
                   + Coded(p5, wanted) + Coded(p6, wanted) + Coded(p7, wanted) + Coded(p8, wanted)
                   + Coded(p9, wanted) + Coded(p10, wanted) + Coded(p11, wanted)
                   + Coded(p12, wanted) + Coded(p13, wanted)
  BY <1>10 DEF Coded, Matching
<1>13. Typed(all, "EARNING") = Sum(p1) + Sum(p2) + Sum(p3) + Sum(p4) + Sum(p5) + Sum(p6) + Sum(p7)
                               + Sum(p8) + Sum(p9)
  <2>1. /\ Typed(p1, "EARNING") = Sum(p1)
        /\ Typed(p2, "EARNING") = Sum(p2)
        /\ Typed(p3, "EARNING") = Sum(p3)
        /\ Typed(p4, "EARNING") = Sum(p4)
        /\ Typed(p5, "EARNING") = Sum(p5)
        /\ Typed(p6, "EARNING") = Sum(p6)
        /\ Typed(p7, "EARNING") = Sum(p7)
        /\ Typed(p8, "EARNING") = Sum(p8)
        /\ Typed(p9, "EARNING") = Sum(p9)
        /\ Typed(p10, "EARNING") = 0
        /\ Typed(p11, "EARNING") = 0
        /\ Typed(p12, "EARNING") = 0
        /\ Typed(p13, "EARNING") = 0
    BY <1>2, <1>6, <1>21, <1>22
  <2>2. Typed(all, "EARNING")
           = Typed(p1, "EARNING") + Typed(p2, "EARNING") + Typed(p3, "EARNING")
             + Typed(p4, "EARNING") + Typed(p5, "EARNING") + Typed(p6, "EARNING")
             + Typed(p7, "EARNING") + Typed(p8, "EARNING") + Typed(p9, "EARNING") + 0 + 0 + 0 + 0
    BY <1>11, <2>1
  <2> DEFINE earned == Sum(p1) + Sum(p2) + Sum(p3) + Sum(p4) + Sum(p5) + Sum(p6) + Sum(p7)
                       + Sum(p8) + Sum(p9)
  <2>3. Typed(all, "EARNING") = earned + 0 + 0 + 0 + 0
    BY <2>1, <2>2, Zenon
  <2>4. earned \in Int
    <3>1. \A x, y \in Int : x + y \in Int
      OBVIOUS
    <3>2. Sum(p1) + Sum(p2) + Sum(p3) \in Int
      BY <1>3, <3>1, Zenon
    <3>3. Sum(p1) + Sum(p2) + Sum(p3) + Sum(p4) + Sum(p5) + Sum(p6) \in Int
      BY <1>3, <3>1, <3>2, Zenon
    <3> QED BY <1>3, <3>1, <3>3, Zenon
  <2>5. ASSUME NEW x \in Int
        PROVE  x + 0 + 0 + 0 + 0 = x
    OBVIOUS
  <2> HIDE DEF earned
  <2>6. Typed(all, "EARNING") = earned
    BY <2>3, <2>4, <2>5
  <2> QED BY <2>6 DEF earned
<1>14. Typed(all, "DEDUCTION") = Sum(p10) + Sum(p11) + Sum(p12) + Sum(p13)
  <2>1. /\ Typed(p1, "DEDUCTION") = 0
        /\ Typed(p2, "DEDUCTION") = 0
        /\ Typed(p3, "DEDUCTION") = 0
        /\ Typed(p4, "DEDUCTION") = 0
        /\ Typed(p5, "DEDUCTION") = 0
        /\ Typed(p6, "DEDUCTION") = 0
        /\ Typed(p7, "DEDUCTION") = 0
        /\ Typed(p8, "DEDUCTION") = 0
        /\ Typed(p9, "DEDUCTION") = 0
        /\ Typed(p10, "DEDUCTION") = Sum(p10)
        /\ Typed(p11, "DEDUCTION") = Sum(p11)
        /\ Typed(p12, "DEDUCTION") = Sum(p12)
        /\ Typed(p13, "DEDUCTION") = Sum(p13)
    BY <1>2, <1>6, <1>21, <1>22
  <2> QED BY <1>3, <1>7, <1>11, <2>1
<1>15. Coded(all, {"TRANSPORT_ALLOWANCE"}) = Sum(p9)
  <2> DEFINE wanted == {"TRANSPORT_ALLOWANCE"}
  <2>1. /\ {"BASE_SALARY"} \cap wanted = {}
        /\ {"SICK_LEAVE"} \cap wanted = {}
        /\ {"VACATION"} \cap wanted = {}
        /\ {"LEAVE"} \cap wanted = {}
        /\ {"BONUS"} \cap wanted = {}
        /\ ExtraCodes \cap wanted = {}
        /\ {"TRANSPORT_ALLOWANCE"} \subseteq wanted
        /\ {"ABSENCE"} \cap wanted = {}
        /\ {"DEDUCTION"} \cap wanted = {}
        /\ {"HEALTH"} \cap wanted = {}
        /\ {"PENSION"} \cap wanted = {}
    BY DEF ExtraCodes
  <2> HIDE DEF wanted
  <2>2. /\ Coded(p1, wanted) = 0
        /\ Coded(p2, wanted) = 0
        /\ Coded(p3, wanted) = 0
        /\ Coded(p4, wanted) = 0
        /\ Coded(p5, wanted) = 0
        /\ Coded(p6, wanted) = 0
        /\ Coded(p7, wanted) = 0
        /\ Coded(p8, wanted) = 0
        /\ Coded(p9, wanted) = Sum(p9)
        /\ Coded(p10, wanted) = 0
        /\ Coded(p11, wanted) = 0
        /\ Coded(p12, wanted) = 0
        /\ Coded(p13, wanted) = 0
    BY <1>2, <1>6, <1>21, <1>22, <2>1
  <2>3. Coded(all, wanted) = Sum(p9)
    BY <1>3, <1>7, <1>12, <2>2
  <2> QED BY <2>3 DEF wanted
<1>16. Coded(all, {"HEALTH"}) = Sum(p12)
  <2> DEFINE wanted == {"HEALTH"}
  <2>1. /\ {"BASE_SALARY"} \cap wanted = {}
        /\ {"SICK_LEAVE"} \cap wanted = {}
        /\ {"VACATION"} \cap wanted = {}
        /\ {"LEAVE"} \cap wanted = {}
        /\ {"BONUS"} \cap wanted = {}
        /\ ExtraCodes \cap wanted = {}
        /\ {"TRANSPORT_ALLOWANCE"} \cap wanted = {}
        /\ {"ABSENCE"} \cap wanted = {}
        /\ {"DEDUCTION"} \cap wanted = {}
        /\ {"HEALTH"} \subseteq wanted
        /\ {"PENSION"} \cap wanted = {}
    BY DEF ExtraCodes
  <2> HIDE DEF wanted
  <2>2. /\ Coded(p1, wanted) = 0
        /\ Coded(p2, wanted) = 0
        /\ Coded(p3, wanted) = 0
        /\ Coded(p4, wanted) = 0
        /\ Coded(p5, wanted) = 0
        /\ Coded(p6, wanted) = 0
        /\ Coded(p7, wanted) = 0
        /\ Coded(p8, wanted) = 0
        /\ Coded(p9, wanted) = 0
        /\ Coded(p10, wanted) = 0
        /\ Coded(p11, wanted) = 0
        /\ Coded(p12, wanted) = Sum(p12)
        /\ Coded(p13, wanted) = 0
    BY <1>2, <1>6, <1>21, <1>22, <2>1
  <2>3. Coded(all, wanted) = Sum(p12)
    BY <1>3, <1>7, <1>12, <2>2
  <2> QED BY <2>3 DEF wanted
<1>17. Coded(all, {"PENSION"}) = Sum(p13)
  <2> DEFINE wanted == {"PENSION"}
  <2>1. /\ {"BASE_SALARY"} \cap wanted = {}
        /\ {"SICK_LEAVE"} \cap wanted = {}
        /\ {"VACATION"} \cap wanted = {}
        /\ {"LEAVE"} \cap wanted = {}
        /\ {"BONUS"} \cap wanted = {}
        /\ ExtraCodes \cap wanted = {}
        /\ {"TRANSPORT_ALLOWANCE"} \cap wanted = {}
        /\ {"ABSENCE"} \cap wanted = {}
        /\ {"DEDUCTION"} \cap wanted = {}
        /\ {"HEALTH"} \cap wanted = {}
        /\ {"PENSION"} \subseteq wanted
    BY DEF ExtraCodes
  <2> HIDE DEF wanted
  <2>2. /\ Coded(p1, wanted) = 0
        /\ Coded(p2, wanted) = 0
        /\ Coded(p3, wanted) = 0
        /\ Coded(p4, wanted) = 0
        /\ Coded(p5, wanted) = 0
        /\ Coded(p6, wanted) = 0
        /\ Coded(p7, wanted) = 0
        /\ Coded(p8, wanted) = 0
        /\ Coded(p9, wanted) = 0
        /\ Coded(p10, wanted) = 0
        /\ Coded(p11, wanted) = 0
        /\ Coded(p12, wanted) = 0
        /\ Coded(p13, wanted) = Sum(p13)
    BY <1>2, <1>6, <1>21, <1>22, <2>1
  <2>3. Coded(all, wanted) = Sum(p13)
    BY <1>3, <1>7, <1>12, <2>2
  <2> QED BY <2>3 DEF wanted
<1>18. Coded(all, {"BASE_SALARY", "VACATION", "LEAVE"}) = Sum(p1) + Sum(p3) + Sum(p4)
  <2> DEFINE wanted == {"BASE_SALARY", "VACATION", "LEAVE"}
  <2>1. /\ {"BASE_SALARY"} \subseteq wanted
        /\ {"SICK_LEAVE"} \cap wanted = {}
        /\ {"VACATION"} \subseteq wanted
        /\ {"LEAVE"} \subseteq wanted
        /\ {"BONUS"} \cap wanted = {}
        /\ ExtraCodes \cap wanted = {}
        /\ {"TRANSPORT_ALLOWANCE"} \cap wanted = {}
        /\ {"ABSENCE"} \cap wanted = {}
        /\ {"DEDUCTION"} \cap wanted = {}
        /\ {"HEALTH"} \cap wanted = {}
        /\ {"PENSION"} \cap wanted = {}
    BY DEF ExtraCodes
  <2> HIDE DEF wanted
  <2>2. /\ Coded(p1, wanted) = Sum(p1)
        /\ Coded(p2, wanted) = 0
        /\ Coded(p3, wanted) = Sum(p3)
        /\ Coded(p4, wanted) = Sum(p4)
        /\ Coded(p5, wanted) = 0
        /\ Coded(p6, wanted) = 0
        /\ Coded(p7, wanted) = 0
        /\ Coded(p8, wanted) = 0
        /\ Coded(p9, wanted) = 0
        /\ Coded(p10, wanted) = 0
        /\ Coded(p11, wanted) = 0
        /\ Coded(p12, wanted) = 0
        /\ Coded(p13, wanted) = 0
    BY <1>2, <1>6, <1>21, <1>22, <2>1
  <2>3. Coded(all, wanted) = Sum(p1) + Sum(p3) + Sum(p4)
    BY <1>3, <1>7, <1>12, <2>2
  <2> QED BY <2>3 DEF wanted
<1>19. Explained(item)
  BY <1>4, <1>8, <1>13, <1>14 DEF Explained
<1>20. item.earnedTotal - Coded(item.concepts, {"TRANSPORT_ALLOWANCE"}) = base
  BY <1>3, <1>5, <1>8, <1>15
<1> QED BY <1>5, <1>8, <1>16, <1>17, <1>18, <1>19, <1>20 DEF item, days, base, p1, p3, p4, p12, p13

LEMMA SocialBenefitBaseTyped ==
    ASSUME NEW salary \in Int
    PROVE  SocialBenefitBase(salary) \in Int
<1> DEFINE full == Rules.monthlyProrationDayBasis * Parts
           allowance == TransportAllowance(salary, full)
<1>1. full \in Int
  BY RulesTyped, CalculatorAssumption
<1> HIDE DEF full
<1>2. allowance \in Seq(Kind({"TRANSPORT_ALLOWANCE"}, "EARNING"))
  BY <1>1, TransportTyped
<1> HIDE DEF allowance
<1>3. Sum(allowance) \in Int
  BY <1>2, KindFound
<1> QED BY <1>3 DEF SocialBenefitBase, allowance, full

LEMMA SeveranceTyped ==
    ASSUME NEW salary \in Int, NEW days \in Int
    PROVE  Severance(salary, days) \in Seq(Kind({"SEVERANCE", "SEVERANCE_INTEREST"}, "EARNING"))
<1> DEFINE codes == {"SEVERANCE", "SEVERANCE_INTEREST"}
           K == Kind(codes, "EARNING")
           base == SocialBenefitBase(salary)
           year == Rules.severanceDaysPerYear
           severance == (base * days) \div year
           atRate == AtRate(severance, Rules.interestAnnualRate)
           interest == (atRate * days) \div year
<1>1. base \in Int /\ year \in Nat \ {0} /\ Rules.interestAnnualRate \in Int
  BY SocialBenefitBaseTyped, RulesTyped
<1> HIDE DEF base, year
<1>2. severance \in Int
  BY <1>1, ProductTyped, DivTyped
<1> HIDE DEF severance
<1>3. atRate \in Int
  BY <1>1, <1>2, AtRateTyped
<1> HIDE DEF atRate
<1>4. interest \in Int
  BY <1>1, <1>3, ProductTyped, DivTyped
<1> HIDE DEF interest
<1>5. "SEVERANCE" \in Codes \cap codes /\ "SEVERANCE_INTEREST" \in Codes \cap codes
  BY DEF Codes
<1> HIDE DEF codes
<1>6. Earning("SEVERANCE", severance) \in K /\ Earning("SEVERANCE_INTEREST", interest) \in K
  BY <1>2, <1>4, <1>5, KindTyped
<1> HIDE DEF K
<1>7. /\ <<>> \in Seq(K)
      /\ <<Earning("SEVERANCE", severance), Earning("SEVERANCE_INTEREST", interest)>> \in Seq(K)
  BY <1>6
<1> QED BY <1>7 DEF Severance, K, codes, base, year, severance, atRate, interest

LEMMA ServiceBonusTyped ==
    ASSUME NEW salary \in Int, NEW days \in Int
    PROVE  ServiceBonus(salary, days) \in Seq(Kind({"SERVICE_BONUS"}, "EARNING"))
<1> DEFINE amount == (SocialBenefitBase(salary) * days) \div Rules.bonusDaysPerYear
<1>1. amount \in Int
  BY SocialBenefitBaseTyped, RulesTyped, ProductTyped, DivTyped
<1>2. "SERVICE_BONUS" \in Codes
  BY DEF Codes
<1> HIDE DEF amount
<1>3. /\ <<Earning("SERVICE_BONUS", amount)>> \in Seq(Kind({"SERVICE_BONUS"}, "EARNING"))
      /\ <<>> \in Seq(Kind({"SERVICE_BONUS"}, "EARNING"))
  BY <1>1, <1>2, OneEarning
<1> QED BY <1>3 DEF ServiceBonus, amount

LEMMA TerminationVacationTyped ==
    ASSUME NEW salary \in Int, NEW pending \in Int
    PROVE  TerminationVacation(salary, pending) \in Seq(Kind({"TERMINATION_VACATION"}, "EARNING"))
<1> DEFINE amount == For(PerDay(salary), pending)
<1>1. amount \in Int
  BY PricesTyped, ForTyped
<1>2. "TERMINATION_VACATION" \in Codes
  BY DEF Codes
<1> HIDE DEF amount
<1>3. /\ <<Earning("TERMINATION_VACATION", amount)>>
             \in Seq(Kind({"TERMINATION_VACATION"}, "EARNING"))
      /\ <<>> \in Seq(Kind({"TERMINATION_VACATION"}, "EARNING"))
  BY <1>1, <1>2, OneEarning
<1> QED BY <1>3 DEF TerminationVacation, amount

\* An item of earnings alone, in one part.
LEMMA OnePartExplained ==
    ASSUME NEW codes, NEW p \in Seq(Kind(codes, "EARNING"))
    PROVE  Explained(Result(Sum(p), 0, p))
<1>1. Typed(p, "EARNING") = Sum(p) /\ Typed(p, "DEDUCTION") = 0 /\ Sum(p) \in Int
  BY KindFound, "EARNING" # "DEDUCTION"
<1> QED BY <1>1 DEF Explained, Result

LEMMA TerminationExplained ==
    ASSUME NEW i, i.salary \in Int, i.pendingVacationDays \in Int,
           SalaryDays(i) \in Int, SeveranceDays(i) \in Int, ServiceBonusDays(i) \in Int
    PROVE  Explained(Termination(i))
<1> DEFINE p1 == BaseSalary(i.salary, SalaryDays(i) * Parts)
           p2 == Severance(i.salary, SeveranceDays(i))
           p3 == ServiceBonus(i.salary, ServiceBonusDays(i))
           p4 == TerminationVacation(i.salary, i.pendingVacationDays)
           all == p1 \o p2 \o p3 \o p4
           item == Termination(i)
<1>1. SalaryDays(i) * Parts \in Int
  BY CalculatorAssumption
<1>2. /\ p1 \in Seq(Kind({"BASE_SALARY"}, "EARNING"))
      /\ p2 \in Seq(Kind({"SEVERANCE", "SEVERANCE_INTEREST"}, "EARNING"))
      /\ p3 \in Seq(Kind({"SERVICE_BONUS"}, "EARNING"))
      /\ p4 \in Seq(Kind({"TERMINATION_VACATION"}, "EARNING"))
  BY <1>1, BaseSalaryTyped, SeveranceTyped, ServiceBonusTyped, TerminationVacationTyped
<1>3. /\ item.concepts = all /\ item.deductionsTotal = 0
      /\ item.earnedTotal = Sum(p1) + Sum(p2) + Sum(p3) + Sum(p4)
      /\ item.netPay = item.earnedTotal - item.deductionsTotal
  BY DEF Termination, Result
<1> HIDE DEF p1, p2, p3, p4, item
<1>4. ASSUME NEW p, NEW codes, p \in Seq(Kind(codes, "EARNING"))
      PROVE  /\ p \in Seq(Concepts) /\ Sum(p) \in Int
             /\ Typed(p, "EARNING") = Sum(p) /\ Typed(p, "DEDUCTION") = 0
  BY <1>4, KindFound, "EARNING" # "DEDUCTION"
<1>5. p1 \in Seq(Concepts) /\ p2 \in Seq(Concepts) /\ p3 \in Seq(Concepts) /\ p4 \in Seq(Concepts)
  BY <1>2, <1>4
<1>6. ASSUME NEW S
      PROVE  Matching(all, S)
                = Matching(p1, S) + Matching(p2, S) + Matching(p3, S) + Matching(p4, S)
  <2> DEFINE q2 == p1 \o p2
             q3 == q2 \o p3
             q4 == q3 \o p4
  <2>1. q2 \in Seq(Concepts) /\ Matching(q2, S) = Matching(p1, S) + Matching(p2, S)
    BY <1>5, MatchingConcat
  <2> HIDE DEF q2
  <2>2. q3 \in Seq(Concepts) /\ Matching(q3, S) = Matching(q2, S) + Matching(p3, S)
    BY <1>5, <2>1, MatchingConcat
  <2> HIDE DEF q3
  <2>3. Matching(q4, S) = Matching(q3, S) + Matching(p4, S)
    BY <1>5, <2>2, MatchingConcat
  <2> HIDE DEF q4
  <2>4. /\ Matching(p1, S) \in Int /\ Matching(p2, S) \in Int
        /\ Matching(p3, S) \in Int /\ Matching(p4, S) \in Int
    BY <1>5, MatchingConcat
  <2>5. Matching(q4, S) = Matching(p1, S) + Matching(p2, S) + Matching(p3, S) + Matching(p4, S)
    BY <2>1, <2>2, <2>3, <2>4
  <2> QED BY <2>5 DEF all, q2, q3, q4
<1> HIDE DEF all
<1>7. ASSUME NEW t
      PROVE  Typed(all, t) = Typed(p1, t) + Typed(p2, t) + Typed(p3, t) + Typed(p4, t)
  BY <1>6 DEF Typed, Matching
<1>8. Typed(all, "EARNING") = Sum(p1) + Sum(p2) + Sum(p3) + Sum(p4)
  BY <1>2, <1>4, <1>7
<1>9. Typed(all, "DEDUCTION") = 0
  BY <1>2, <1>4, <1>7
<1> QED BY <1>3, <1>8, <1>9 DEF Explained, item

-----------------------------------------------------------------------------
(* Days paid at the salary's price.                                          *)

LEMMA DivUnique ==
    ASSUME NEW a \in Int, NEW b \in Nat \ {0}, NEW q \in Int, b * q =< a, a < b * q + b
    PROVE  a \div b = q
<1> DEFINE d == a \div b
<1>1. d \in Int /\ b * d =< a /\ a < b * d + b
  OBVIOUS
<1> HIDE DEF d
<1>2. ~(d < q)
  <2>1. SUFFICES ASSUME d + 1 =< q PROVE FALSE
    BY <1>1
  <2>2. b * (d + 1) =< b * q /\ b * (d + 1) = b * d + b
    BY <1>1, <2>1
  <2> QED BY <1>1, <2>2
<1>3. ~(q < d)
  <2>1. SUFFICES ASSUME q + 1 =< d PROVE FALSE
    BY <1>1
  <2>2. b * (q + 1) =< b * d /\ b * (q + 1) = b * q + b
    BY <1>1, <2>1
  <2> QED BY <1>1, <2>2
<1>4. d = q
  BY <1>1, <1>2, <1>3
<1> QED BY <1>4 DEF d

LEMMA DivMod ==
    ASSUME NEW a \in Int, NEW b \in Nat \ {0}
    PROVE  a = b * (a \div b) + (a % b)
OBVIOUS

\* Divisions of multiples are exact.
LEMMA DivExact ==
    ASSUME NEW b \in Nat \ {0}, NEW k \in Int, NEW r \in 0..b-1
    PROVE  (b * k + r) \div b = k
<1> DEFINE a == b * k + r
<1>1. a \in Int /\ b * k =< a /\ a < b * k + b
  OBVIOUS
<1> HIDE DEF a
<1>2. a \div b = k
  BY <1>1, DivUnique
<1> QED BY <1>2 DEF a

\* What a part of a day is paid: a day's salary has exact parts.
PartPay(salary) == PerDay(salary) \div Parts

LEMMA ForIsExact ==
    ASSUME NEW salary \in Salaries, NEW quantity \in Int
    PROVE  /\ For(PerDay(salary), quantity) = PartPay(salary) * quantity
           /\ PartPay(salary) \in Int
<1> DEFINE day == PerDay(salary)
           pay == PartPay(salary)
<1>1. day \in Int /\ Parts \in Nat \ {0} /\ day % Parts = 0
  BY PricesTyped, CalculatorAssumption, ExactAssumption
<1>2. pay = day \div Parts
  BY DEF PartPay
<1> HIDE DEF day, pay
<1>3. pay \in Int
  BY <1>1, <1>2, DivTyped
<1>4. day = Parts * pay
  <2>1. day = Parts * (day \div Parts) + (day % Parts)
    BY <1>1, DivMod
  <2>2. Parts * pay \in Int
    BY <1>1, <1>3
  <2> QED BY <1>1, <1>2, <2>1, <2>2
<1> DEFINE k == pay * quantity
<1>5. k \in Int /\ day * quantity = Parts * k + 0 /\ 0 \in 0..Parts-1
  BY <1>1, <1>3, <1>4
<1> HIDE DEF k
<1>6. (Parts * k + 0) \div Parts = k
  BY <1>1, <1>5, DivExact
<1>7. For(day, quantity) = k
  BY <1>5, <1>6 DEF For
<1> QED BY <1>3, <1>7 DEF k, day, pay

\* Days at the salary's price, as concepts.
Priced(code, salary, s) ==
    [i \in 1..Len(s) |-> Earning(code, For(PerDay(salary), Quantity(s[i])))]

LEMMA SumOfPriced ==
    ASSUME NEW code \in Codes, NEW salary \in Salaries, NEW s \in Seq(Novelties)
    PROVE  Sum(Priced(code, salary, s)) = PartPay(salary) * TotalQuantity(s)
<1> DEFINE pay == PartPay(salary)
           Of(n) == Earning(code, For(PerDay(salary), Quantity(n)))
           Paid(r) == Priced(code, salary, r)
           P == {r \in Seq(Novelties) : Sum(Paid(r)) = pay * TotalQuantity(r)}
<1>1. pay \in Int
  BY ForIsExact, 0 \in Int
<1>2. ASSUME NEW n \in Novelties
      PROVE  Of(n) \in Concepts /\ Of(n).amount = pay * Quantity(n) /\ Quantity(n) \in Int
  <2>1. Quantity(n) \in Int
    BY NoveltyTyped
  <2>2. For(PerDay(salary), Quantity(n)) = pay * Quantity(n)
    BY <2>1, ForIsExact
  <2>3. pay * Quantity(n) \in Int
    BY <1>1, <2>1
  <2>4. Of(n) = Concept(code, "EARNING", pay * Quantity(n))
    BY <2>2 DEF Earning
  <2> QED BY <2>1, <2>3, <2>4 DEF Concept, Concepts
<1>3. \A r \in Seq(Novelties) : Paid(r) = [i \in 1..Len(r) |-> Of(r[i])]
  BY DEF Priced
<1> HIDE DEF pay, Of, Paid
<1>4. <<>> \in P
  <2>1. Len(<<>>) = 0 /\ <<>> \in Seq(Novelties) /\ [i \in 1..0 |-> Of(<<>>[i])] = <<>>
    OBVIOUS
  <2>2. Paid(<<>>) = [i \in 1..0 |-> Of(<<>>[i])]
    BY <1>3, <2>1
  <2>3. Sum(Paid(<<>>)) = 0 /\ TotalQuantity(<<>>) = 0
    BY <2>1, <2>2, SumEmpty, QuantityEmpty
  <2>4. pay * 0 = 0
    BY <1>1
  <2> QED BY <2>1, <2>3, <2>4
<1>5. ASSUME NEW r \in Seq(Novelties), NEW n \in Novelties, r \in P
      PROVE  Append(r, n) \in P
  <2> DEFINE m == Len(r)
             k == m + 1
             t == Append(r, n)
  <2>1. /\ m \in Nat /\ k \in Nat /\ k = m + 1 /\ t \in Seq(Novelties) /\ Len(t) = k /\ t[k] = n
        /\ \A i \in 1..m : t[i] = r[i] /\ r[i] \in Novelties
    OBVIOUS
  <2> HIDE DEF m, k, t
  <2>2. Paid(r) = [i \in 1..m |-> Of(r[i])] /\ Paid(t) = [i \in 1..k |-> Of(t[i])]
    BY <1>3, <2>1 DEF m
  <2>3. \A i \in 1..k : i \in 1..m \/ i = k
    BY <2>1
  <2>4. k \in 1..k /\ 1..m \subseteq 1..k
    BY <2>1
  <2>5. \A i \in 1..k : t[i] \in Novelties
    BY <2>1, <2>3
  <2>6. \A i \in 1..k : Of(t[i]) \in Concepts
    BY <1>2, <2>5
  <2>7. \A i \in 1..m : Of(r[i]) = Of(t[i])
    BY <2>1
  <2> DEFINE p == Paid(r)
             q == Paid(t)
  <2>8. /\ p \in [1..m -> Concepts] /\ q \in [1..k -> Concepts]
        /\ q[k] = Of(n) /\ \A i \in 1..m : q[i] = p[i]
    <3>1. p \in [1..m -> Concepts]
      BY <2>2, <2>4, <2>6, <2>7
    <3>2. q \in [1..k -> Concepts]
      BY <2>2, <2>6
    <3>3. q[k] = Of(t[k]) /\ t[k] = n
      BY <2>1, <2>2, <2>4
    <3>4. \A i \in 1..m : q[i] = p[i]
      BY <2>2, <2>4, <2>7
    <3> QED BY <3>1, <3>2, <3>3, <3>4
  <2> HIDE DEF p, q
  <2>9. q = Append(p, Of(n)) /\ p \in Seq(Concepts) /\ Of(n) \in Concepts
    <3>0. Of(n) \in Concepts
      BY <1>2
    <3>1. p \in Seq(Concepts) /\ Len(p) = m /\ q \in Seq(Concepts) /\ Len(q) = k
      BY <2>1, <2>8
    <3> DEFINE x == Of(n)
               a == Append(p, x)
    <3>2. a \in Seq(Concepts) /\ Len(a) = k /\ a[k] = x /\ \A i \in 1..m : a[i] = p[i]
      BY <2>1, <3>0, <3>1
    <3> HIDE DEF x, a
    <3>3. \A i \in 1..k : q[i] = a[i]
      BY <2>3, <2>8, <3>2 DEF x
    <3>4. q = a
      BY <3>1, <3>2, <3>3
    <3> QED BY <3>0, <3>1, <3>4 DEF a, x
  <2>10. Sum(q) = Sum(p) + pay * Quantity(n)
    BY <1>2, <2>9, SumAppend
  <2>11. TotalQuantity(t) = TotalQuantity(r) + Quantity(n)
    BY QuantityAppend DEF t
  <2>12. TotalQuantity(r) \in Int /\ Quantity(n) \in Int
    BY <1>2, QuantityTyped
  <2>13. Sum(p) = pay * TotalQuantity(r)
    BY <1>5 DEF p
  <2> DEFINE a == TotalQuantity(r)
             b == Quantity(n)
  <2>14. pay * a + pay * b = pay * (a + b)
    <3> HIDE DEF a, b
    <3>1. a \in Int /\ b \in Int
      BY <2>12 DEF a, b
    <3> QED BY <1>1, <3>1
  <2>15. Sum(q) = pay * TotalQuantity(t)
    BY <2>10, <2>11, <2>13, <2>14
  <2> QED BY <2>1, <2>15 DEF q, t
<1> HIDE DEF P
<1>6. Seq(Novelties) \subseteq P
  BY <1>4, <1>5, SeqSetInduction
<1> QED BY <1>6 DEF P, pay, Paid

\* A quantity is that of the elements in a set and that of those that are not.
LEMMA QuantitySplits ==
    ASSUME NEW s \in Seq(Novelties), NEW S, NEW R,
           \A n \in Novelties : n \in S <=> n \notin R
    PROVE  TotalQuantity(s) = TotalQuantity(Those(s, S)) + TotalQuantity(Those(s, R))
<1> DEFINE in(r) == Those(r, S)
           out(r) == Those(r, R)
           P == {r \in Seq(Novelties) :
                    TotalQuantity(r) = TotalQuantity(in(r)) + TotalQuantity(out(r))}
<1>1. <<>> \in P
  BY ThoseEmpty, QuantityEmpty
<1>2. ASSUME NEW r \in Seq(Novelties), NEW n \in Novelties, r \in P
      PROVE  Append(r, n) \in P
  <2>1. in(r) \in Seq(Novelties) /\ out(r) \in Seq(Novelties)
    <3>1. in(r) \in Seq(Novelties \cap S) /\ out(r) \in Seq(Novelties \cap R)
      BY ThoseTyped
    <3> HIDE DEF in, out
    <3> QED BY <3>1
  <2>2. /\ in(Append(r, n)) = IF n \in S THEN Append(in(r), n) ELSE in(r)
        /\ out(Append(r, n)) = IF n \in R THEN Append(out(r), n) ELSE out(r)
    BY ThoseAppend
  <2> HIDE DEF in, out
  <2>3. /\ TotalQuantity(Append(in(r), n)) = TotalQuantity(in(r)) + Quantity(n)
        /\ TotalQuantity(Append(out(r), n)) = TotalQuantity(out(r)) + Quantity(n)
        /\ TotalQuantity(Append(r, n)) = TotalQuantity(r) + Quantity(n)
    BY <2>1, QuantityAppend
  <2>4. /\ TotalQuantity(in(r)) \in Int /\ TotalQuantity(out(r)) \in Int
        /\ TotalQuantity(r) \in Int /\ Quantity(n) \in Int
    BY <2>1, QuantityTyped, NoveltyTyped
  <2>5. n \in S <=> n \notin R
    OBVIOUS
  <2>6. TotalQuantity(Append(r, n))
           = TotalQuantity(in(Append(r, n))) + TotalQuantity(out(Append(r, n)))
    BY <1>2, <2>2, <2>3, <2>4, <2>5
  <2> QED BY <2>6
<1> HIDE DEF P
<1>3. Seq(Novelties) \subseteq P
  BY <1>1, <1>2, SeqSetInduction
<1> QED BY <1>3 DEF P

\* What the salary, the vacations and the paid leaves of a month that is not taken
\* beyond its days pay together.
LEMMA PeriodicPaysOnce ==
    ASSUME NEW salary \in Salaries, NEW novelties \in Seq(Novelties)
    PROVE  LET off == TotalQuantity(DaysOf(novelties, "SICK_LEAVE"))
               leave == DaysOf(novelties, "LEAVE")
               unpaid == TotalQuantity(Those(leave, {n \in Novelties : n.leaveType = "UNPAID"}))
               taken == off + TotalQuantity(leave)
                        + TotalQuantity(DaysOf(novelties, "VACATION"))
           IN  taken =< WORKED_DAYS * Parts =>
                   Sum(BaseSalary(salary, OrdinaryWorkedDays(novelties)))
                   + Sum(Vacation(salary, novelties)) + Sum(Leave(salary, novelties))
                       = For(PerDay(salary), WORKED_DAYS * Parts - off - unpaid)
<1> DEFINE Unpaid == {n \in Novelties : n.leaveType = "UNPAID"}
           Paid == {n \in Novelties : n.leaveType # "UNPAID"}
           vacations == DaysOf(novelties, "VACATION")
           leave == DaysOf(novelties, "LEAVE")
           off == TotalQuantity(DaysOf(novelties, "SICK_LEAVE"))
           away == TotalQuantity(vacations)
           leaves == TotalQuantity(leave)
           unpaid == TotalQuantity(Those(leave, Unpaid))
           paid == TotalQuantity(Those(leave, Paid))
           pay == PartPay(salary)
           month == WORKED_DAYS * Parts
           days == OrdinaryWorkedDays(novelties)
<1>1. salary \in Int /\ month \in Int
  BY CalculatorAssumption DEF WORKED_DAYS
<1>2. vacations \in Seq(Novelties) /\ leave \in Seq(Novelties)
  BY DaysTakenTyped, DaysTakenAreDays
<1>3. Those(leave, Paid) \in Seq(Novelties) /\ Those(leave, Unpaid) \in Seq(Novelties)
  <2>1. /\ Those(leave, Paid) \in Seq(Novelties \cap Paid)
        /\ Those(leave, Unpaid) \in Seq(Novelties \cap Unpaid)
    BY <1>2, ThoseTyped
  <2> HIDE DEF leave, Paid, Unpaid
  <2> QED BY <2>1
<1>4. off \in Int /\ away \in Int /\ leaves \in Int /\ unpaid \in Int /\ paid \in Int
  <2>1. off \in Int
    BY DaysTakenTyped, DaysTakenAreDays, QuantityTyped
  <2> QED BY <1>2, <1>3, <2>1, QuantityTyped
<1>5. leaves = paid + unpaid
  <2>1. \A n \in Novelties : n \in Paid <=> n \notin Unpaid
    OBVIOUS
  <2> HIDE DEF Paid, Unpaid, leave
  <2> QED BY <1>2, <2>1, QuantitySplits
<1>6. days = IF off + away + leaves > month THEN 0 ELSE month - (off + away + leaves)
  BY DaysTakenAreDays DEF OrdinaryWorkedDays
<1>7. days \in Int
  BY OrdinaryDaysTyped
<1>8. "VACATION" \in Codes /\ "LEAVE" \in Codes
  BY DEF Codes
<1>9. Sum(Vacation(salary, novelties)) = pay * away
  <2>1. Vacation(salary, novelties) = Priced("VACATION", salary, vacations)
    BY DaysTakenAreDays DEF Vacation, Each, Priced
  <2> QED BY <1>2, <1>8, <2>1, SumOfPriced
<1>10. Sum(Leave(salary, novelties)) = pay * paid
  <2>1. Leave(salary, novelties) = Priced("LEAVE", salary, Those(leave, Paid))
    BY DaysTakenAreDays DEF Leave, Each, Priced
  <2> QED BY <1>3, <1>8, <2>1, SumOfPriced
<1>11. Sum(BaseSalary(salary, days)) = pay * days
  BY <1>1, <1>7, BaseSalaryTyped, ForIsExact
<1> DEFINE total == Sum(BaseSalary(salary, days)) + Sum(Vacation(salary, novelties))
                    + Sum(Leave(salary, novelties))
           left == month - off - unpaid
<1>12. For(PerDay(salary), left) = pay * left /\ pay \in Int
  <2>1. left \in Int
    BY <1>1, <1>4
  <2> HIDE DEF left
  <2> QED BY <2>1, ForIsExact
<1>13. total = pay * days + pay * away + pay * paid
  BY <1>9, <1>10, <1>11
<1> HIDE DEF total, pay, days, off, away, leaves, unpaid, paid, month, Paid, Unpaid, leave
<1>14. ASSUME off + leaves + away =< month
       PROVE  total = pay * left
  <2>1. left = days + away + paid
    BY <1>1, <1>4, <1>5, <1>6, <1>14
  <2>2. pay * days + pay * away + pay * paid = pay * (days + away + paid)
    BY <1>4, <1>7, <1>12
  <2> QED BY <1>13, <2>1, <2>2
<1> QED BY <1>12, <1>14 DEF total, off, away, leaves, unpaid, leave, Unpaid, days, month

-----------------------------------------------------------------------------
(* Sick leave.                                                               *)

\* What the first days of a leave are paid.
DiseasePay(dailyIbc, from, days) ==
    Total([day \in 1..days |-> AtRate(dailyIbc, CommonDiseaseRate(from + day - 1))])

DayPay(dailyIbc, sickDay) == AtRate(dailyIbc, CommonDiseaseRate(sickDay))

LEMMA DayPayTyped ==
    ASSUME NEW dailyIbc \in Int, NEW sickDay
    PROVE  DayPay(dailyIbc, sickDay) \in Int
<1>1. CommonDiseaseRate(sickDay) \in Int
  BY DiseaseRateTyped
<1> QED BY <1>1, AtRateTyped DEF DayPay

\* A day more is paid at its own rate.
LEMMA DiseasePayGrows ==
    ASSUME NEW dailyIbc \in Int, NEW from \in Int, NEW days \in Nat
    PROVE  /\ DiseasePay(dailyIbc, from, days + 1)
                 = DiseasePay(dailyIbc, from, days) + DayPay(dailyIbc, from + days)
           /\ DiseasePay(dailyIbc, from, days) \in Int
<1> DEFINE k == days + 1
           p == [day \in 1..days |-> DayPay(dailyIbc, from + day - 1)]
           q == [day \in 1..k |-> DayPay(dailyIbc, from + day - 1)]
           x == DayPay(dailyIbc, from + days)
<1>1. DiseasePay(dailyIbc, from, days) = Total(p) /\ DiseasePay(dailyIbc, from, k) = Total(q)
  BY DEF DiseasePay, DayPay
<1>2. k \in Nat /\ k = days + 1 /\ from + k - 1 = from + days
  OBVIOUS
<1>4. x \in Int
  BY DayPayTyped
<1> HIDE DEF k
<1>5. \A day \in 1..k : day \in 1..days \/ day = k
  BY <1>2
<1>6. k \in 1..k /\ 1..days \subseteq 1..k
  BY <1>2
<1>7. p \in [1..days -> Int] /\ q \in [1..k -> Int] /\ \A day \in 1..days : q[day] = p[day]
  <2> DEFINE Pay(day) == DayPay(dailyIbc, from + day - 1)
  <2>1. \A day \in 1..k : Pay(day) \in Int
    BY DayPayTyped
  <2> HIDE DEF Pay
  <2>2. p = [day \in 1..days |-> Pay(day)] /\ q = [day \in 1..k |-> Pay(day)]
    BY DEF Pay
  <2> HIDE DEF p, q
  <2> QED BY <1>6, <2>1, <2>2
<1>8. q[k] = x
  <2>1. q[k] = DayPay(dailyIbc, from + k - 1)
    BY <1>6
  <2> QED BY <1>2, <2>1
<1> HIDE DEF p, q, x
<1>9. p \in Seq(Int) /\ Len(p) = days /\ q \in Seq(Int) /\ Len(q) = k
  BY <1>2, <1>7
<1>10. q = Append(p, x)
  <2> DEFINE a == Append(p, x)
  <2>1. a \in Seq(Int) /\ Len(a) = k /\ a[k] = x /\ \A day \in 1..days : a[day] = p[day]
    BY <1>2, <1>4, <1>9
  <2> HIDE DEF a
  <2>2. \A day \in 1..k : q[day] = a[day]
    BY <1>5, <1>7, <1>8, <2>1
  <2>3. q = a
    BY <1>9, <2>1, <2>2
  <2> QED BY <2>3 DEF a
<1>11. Total(q) = Total(p) + x
  BY <1>4, <1>9, <1>10, TotalAppend
<1>12. Total(p) \in Int
  BY <1>9, TotalTyped
<1> QED BY <1>1, <1>11, <1>12 DEF x, k

\* Days in a row are paid as those before and those after any of them.
LEMMA DiseasePaySplits ==
    ASSUME NEW dailyIbc \in Int, NEW from \in Int, NEW first \in Nat, NEW rest \in Nat
    PROVE  DiseasePay(dailyIbc, from, first + rest)
               = DiseasePay(dailyIbc, from, first) + DiseasePay(dailyIbc, from + first, rest)
<1> DEFINE Whole(n) == DiseasePay(dailyIbc, from, first + n)
           After(n) == DiseasePay(dailyIbc, from + first, n)
           Good == {n \in Nat : Whole(n) = Whole(0) + After(n)}
<1>1. 0 \in Good
  <2>1. After(0) = 0
    <3>1. [day \in 1..0 |-> AtRate(dailyIbc, CommonDiseaseRate(from + first + day - 1))] = <<>>
      OBVIOUS
    <3> QED BY <3>1, TotalEmpty DEF DiseasePay
  <2>2. Whole(0) \in Int
    BY DiseasePayGrows, first + 0 \in Nat
  <2> QED BY <2>1, <2>2
<1>2. ASSUME NEW n \in Nat, n \in Good
      PROVE  n + 1 \in Good
  <2>1. /\ first + n \in Nat /\ first + 0 \in Nat /\ from + first \in Int
        /\ first + (n + 1) = first + n + 1 /\ from + (first + n) = from + first + n
    OBVIOUS
  <2>2. /\ Whole(n + 1) = Whole(n) + DayPay(dailyIbc, from + first + n) /\ Whole(n) \in Int
        /\ Whole(0) \in Int
    <3>1. DiseasePay(dailyIbc, from, first + n + 1)
             = DiseasePay(dailyIbc, from, first + n) + DayPay(dailyIbc, from + (first + n))
      BY <2>1, DiseasePayGrows
    <3>2. Whole(n) \in Int /\ Whole(0) \in Int
      BY <2>1, DiseasePayGrows
    <3> QED BY <2>1, <3>1, <3>2
  <2>3. /\ After(n + 1) = After(n) + DayPay(dailyIbc, from + first + n) /\ After(n) \in Int
    BY <2>1, DiseasePayGrows
  <2>4. DayPay(dailyIbc, from + first + n) \in Int
    BY DayPayTyped
  <2> HIDE DEF Whole, After
  <2> QED BY <1>2, <2>2, <2>3, <2>4
<1> HIDE DEF Good
<1>3. rest \in Good
  BY <1>1, <1>2, NatSetInduction
<1>4. first + 0 = first
  OBVIOUS
<1> QED BY <1>3, <1>4 DEF Good

LEMMA TurnsOfWholeDays ==
    ASSUME NEW days \in Int
    PROVE  Turns(days * Parts) = days
<1>1. Parts \in Nat \ {0} /\ Parts - 1 \in 0..Parts-1
  BY CalculatorAssumption
<1> DEFINE r == Parts - 1
<1>2. r \in 0..Parts-1 /\ days * Parts + Parts - 1 = Parts * days + r
  BY <1>1
<1> HIDE DEF r
<1>3. (Parts * days + r) \div Parts = days
  BY <1>1, <1>2, DivExact
<1> QED BY <1>2, <1>3 DEF Turns

\* What the novelty of a common disease pays, had it other days.
LEMMA WholeDaysPaid ==
    ASSUME NEW n \in Novelties, n.type = "SICK_LEAVE", n.sickLeaveOrigin = "COMMON_DISEASE",
           NEW from \in Int, NEW days \in Int
    PROVE  SickLeaveAmount([n EXCEPT !.sickLeaveStartDay = from, !.quantity = days * Parts])
               = DiseasePay(n.sickLeaveIbc \div Rules.monthlyIbcDayBasis, from, days)
<1> DEFINE m == [n EXCEPT !.sickLeaveStartDay = from, !.quantity = days * Parts]
           ibc == n.sickLeaveIbc \div Rules.monthlyIbcDayBasis
<1>1. /\ m.sickLeaveStartDay = from /\ m.quantity = days * Parts
      /\ m.sickLeaveIbc = n.sickLeaveIbc /\ m.sickLeaveOrigin = n.sickLeaveOrigin
  BY NoveltiesAssumption
<1> HIDE DEF m
<1>2. SickLeaveAmount(m) = CommonDisease(ibc, from, days * Parts)
  BY <1>1 DEF SickLeaveAmount
<1>3. CommonDisease(ibc, from, days * Parts) = DiseasePay(ibc, from, days)
  BY TurnsOfWholeDays DEF CommonDisease, DiseasePay
<1> QED BY <1>2, <1>3 DEF m

-----------------------------------------------------------------------------
(* The specification.                                                        *)

Inputs == PeriodicInputs \cup CollectiveInputs \cup TerminationInputs

\* A calculation that has ended gave what its calculator gives of its input.
Answered(i, r) ==
    \/ i.kind = "PERIODIC" /\ r = Periodic(i.salary, i.novelties)
    \/ i.kind = "SEVERANCE" /\ r = SeverancePayroll(i.salary, i.start, i.year, i.month)
    \/ i.kind = "BONUS" /\ r = ServiceBonusPayroll(i.salary, i.start, i.year, i.month)
    \/ i.kind = "TERMINATION" /\ r = Termination(i)

Calculation == input \in Inputs /\ (result = None \/ Answered(input, result))

LEMMA InputsTyped ==
    ASSUME NEW i \in Inputs
    PROVE  /\ i.salary \in Salaries /\ i.salary \in Int
           /\ i.kind \in {"PERIODIC", "SEVERANCE", "BONUS", "TERMINATION"}
           /\ i.kind = "PERIODIC" => i.novelties \in Seq(Novelties)
           /\ i.kind \in {"SEVERANCE", "BONUS"} =>
                  i.start \in Calendar /\ i.year \in Years /\ i.month \in 1..12
           /\ i.kind = "TERMINATION" =>
                  /\ i.employeeStartDate \in Calendar /\ i.terminationDate \in Calendar
                  /\ i.unpaidSalaryStartDate \in Calendar /\ i.pendingVacationDays \in Int
                  /\ NotAfter(i.employeeStartDate, i.unpaidSalaryStartDate)
                  /\ NotAfter(i.unpaidSalaryStartDate, i.terminationDate)
<1>1. CASE i \in PeriodicInputs
  <2>1. i.kind = "PERIODIC" /\ i.salary \in Salaries
    BY <1>1 DEF PeriodicInputs
  <2>2. PICK n \in 0..MaxNovelties : i.novelties \in [1..n -> Novelties]
    BY <1>1 DEF PeriodicInputs
  <2>3. n \in Nat
    BY CalculatorAssumption
  <2>4. i.novelties \in Seq(Novelties)
    BY <2>2, <2>3
  <2> QED BY <2>1, <2>4, CalculatorAssumption
<1>2. CASE i \in CollectiveInputs
  <2>1. /\ i.kind \in {"SEVERANCE", "BONUS"} /\ i.salary \in Salaries /\ i.start \in Dates
        /\ i.year \in Years /\ i.month \in 1..12
    BY <1>2 DEF CollectiveInputs
  <2> QED BY <2>1, CalculatorAssumption
<1>3. CASE i \in TerminationInputs
  <2>1. /\ i.kind = "TERMINATION" /\ i.salary \in Salaries
        /\ i.employeeStartDate \in Dates /\ i.terminationDate \in Dates
        /\ i.unpaidSalaryStartDate \in Dates /\ i.pendingVacationDays \in VacationDays
        /\ NotAfter(i.employeeStartDate, i.unpaidSalaryStartDate)
        /\ NotAfter(i.unpaidSalaryStartDate, i.terminationDate)
    BY <1>3 DEF TerminationInputs
  <2> QED BY <2>1, CalculatorAssumption
<1> QED BY <1>1, <1>2, <1>3 DEF Inputs

LEMMA CalculationInductive ==
    /\ Init => Calculation
    /\ Calculation /\ [Next]_vars => Calculation'
<1>1. Init => Calculation
  BY DEF Init, Calculation, Inputs
<1>2. ASSUME Calculation, [Next]_vars
      PROVE  Calculation'
  <2>1. CASE CalculatePeriodic
    BY <1>2, <2>1 DEF Calculation, Answered, CalculatePeriodic, Asked
  <2>2. CASE CalculateSeverance
    BY <1>2, <2>2 DEF Calculation, Answered, CalculateSeverance, Asked
  <2>3. CASE CalculateServiceBonus
    BY <1>2, <2>3 DEF Calculation, Answered, CalculateServiceBonus, Asked
  <2>4. CASE CalculateTermination
    BY <1>2, <2>4 DEF Calculation, Answered, CalculateTermination, Asked
  <2>5. CASE UNCHANGED vars
    BY <1>2, <2>5 DEF Calculation, vars
  <2> QED BY <1>2, <2>1, <2>2, <2>3, <2>4, <2>5 DEF Next
<1> QED BY <1>1, <1>2

\* Every calculation gives what its calculator gives of an input the system takes.
THEOREM EveryCalculation == Spec => []Calculation
<1>1. Init => Calculation
  BY CalculationInductive
<1>2. Calculation /\ [Next]_vars => Calculation'
  BY CalculationInductive
<1> QED BY <1>1, <1>2, PTL DEF Spec

\* The days accrued are a number of days.
LEMMA PayrollDaysTyped ==
    ASSUME NEW start \in Calendar, NEW year \in Years, NEW month \in 1..12,
           NEW startMonth \in 1..month
    PROVE  AccruedInPayroll(start, year, month, startMonth) \in Int
<1>1. start \in AnyDate /\ year \in Int /\ month \in Int
  BY CalendarTyped, YearsAssumption
<1>2. AccruedInPayroll(start, year, month, startMonth) \in 0..(30 * (month - startMonth + 1))
  BY <1>1, AccruedWithinMonths
<1> QED BY <1>2

LEMMA UntilTyped ==
    ASSUME NEW start \in Calendar, NEW end \in Calendar, NEW from \in AnyDate
    PROVE  AccruedUntil(start, end, from) \in Int
<1>1. start \in AnyDate /\ end \in AnyDate
  BY CalendarTyped
<1>2. CASE NotAfter(start, end) /\ NotAfter(Later(start, from), end)
  <2>1. AccruedUntil(start, end, from) \in Nat \ {0}
    BY <1>1, <1>2, WorkIsCounted
  <2> QED BY <2>1
<1>3. CASE ~(NotAfter(start, end) /\ NotAfter(Later(start, from), end))
  <2>1. AccruedUntil(start, end, from) = 0
    BY <1>3, Zenon DEF AccruedUntil
  <2> QED BY <2>1
<1> QED BY <1>2, <1>3

LEMMA SemesterStarts ==
    ASSUME NEW month \in 1..12
    PROVE  SemesterStart(month) \in 1..month
BY DEF SemesterStart

\* The totals are those of the concepts (calculate of each calculator, whose items every
\* report reads), whatever the salary, the novelties and the dates, and for any rules the
\* codec accepts: where their month has zero hours, of calculations without hours to price.
THEOREM TotalsAreExplained == Spec => []ConceptsExplainTotals
<1>1. Calculation => ConceptsExplainTotals
  <2>1. SUFFICES ASSUME Calculation, Calculated
                 PROVE  /\ Explained(result)
                        /\ input.kind = "PERIODIC" =>
                              LET base == result.earnedTotal
                                             - Coded(result.concepts, {"TRANSPORT_ALLOWANCE"})
                              IN  /\ Coded(result.concepts, {"HEALTH"})
                                        = AtRate(base, Rules.employeeHealthRate)
                                  /\ Coded(result.concepts, {"PENSION"})
                                        = AtRate(base, Rules.employeePensionRate)
    BY DEF ConceptsExplainTotals, Explained
  <2> DEFINE salary == input.salary
  <2>2. /\ input \in Inputs /\ Answered(input, result) /\ salary \in Int
        /\ result # None
    BY <2>1, InputsTyped DEF Calculation, Calculated
  <2>3. CASE input.kind = "PERIODIC"
    <3> DEFINE novelties == input.novelties
               base == ContributionBase(salary, novelties)
    <3>1. novelties \in Seq(Novelties)
      BY <2>2, <2>3, InputsTyped
    <3>2. ~PricesZeroHours(novelties) /\ result = PricedPeriodic(salary, novelties)
      BY <2>1, <2>2, <2>3 DEF Answered, Calculated, Periodic
    <3> HIDE DEF novelties, salary
    <3>3. /\ base \in Int /\ Explained(result)
          /\ result.earnedTotal - Coded(result.concepts, {"TRANSPORT_ALLOWANCE"}) = base
          /\ Coded(result.concepts, {"HEALTH"}) = Sum(Health(base))
          /\ Coded(result.concepts, {"PENSION"}) = Sum(Pension(base))
      BY <2>2, <3>1, <3>2, PeriodicFound
    <3> HIDE DEF base
    <3>4. /\ Sum(Health(base)) = AtRate(base, Rules.employeeHealthRate)
          /\ Sum(Pension(base)) = AtRate(base, Rules.employeePensionRate)
      BY <3>3, ContributionsTyped
    <3> QED BY <3>3, <3>4
  <2>4. CASE input.kind = "SEVERANCE"
    <3> DEFINE days == AccruedInPayroll(input.start, input.year, input.month, 1)
               p == Severance(salary, days)
    <3>1. days \in Int
      <4>1. /\ input.start \in Calendar /\ input.year \in Years /\ input.month \in 1..12
            /\ 1 \in 1..input.month
        BY <2>2, <2>4, InputsTyped
      <4> QED BY <4>1, PayrollDaysTyped
    <3>2. result = Result(Sum(p), 0, p)
      BY <2>2, <2>4 DEF Answered, SeverancePayroll
    <3> HIDE DEF days, salary
    <3>3. p \in Seq(Kind({"SEVERANCE", "SEVERANCE_INTEREST"}, "EARNING"))
      BY <2>2, <3>1, SeveranceTyped
    <3> HIDE DEF p
    <3> QED BY <2>4, <3>2, <3>3, OnePartExplained
  <2>5. CASE input.kind = "BONUS"
    <3> DEFINE days == AccruedInPayroll(input.start, input.year, input.month,
                                        SemesterStart(input.month))
               p == ServiceBonus(salary, days)
    <3>1. days \in Int
      <4>1. input.start \in Calendar /\ input.year \in Years /\ input.month \in 1..12
        BY <2>2, <2>5, InputsTyped
      <4>2. SemesterStart(input.month) \in 1..input.month
        BY <4>1, SemesterStarts
      <4> QED BY <4>1, <4>2, PayrollDaysTyped
    <3>2. result = Result(Sum(p), 0, p)
      BY <2>2, <2>5 DEF Answered, ServiceBonusPayroll
    <3> HIDE DEF days, salary
    <3>3. p \in Seq(Kind({"SERVICE_BONUS"}, "EARNING"))
      BY <2>2, <3>1, ServiceBonusTyped
    <3> HIDE DEF p
    <3> QED BY <2>5, <3>2, <3>3, OnePartExplained
  <2>6. CASE input.kind = "TERMINATION"
    <3>1. /\ input.employeeStartDate \in Calendar /\ input.terminationDate \in Calendar
          /\ input.unpaidSalaryStartDate \in Calendar /\ input.pendingVacationDays \in Int
      BY <2>2, <2>6, InputsTyped
    <3>2. \A y \in Int, m \in 1..12 : FirstOf(y, m) \in AnyDate
      BY DEF FirstOf, Date, AnyDate
    <3>3. /\ input.terminationDate.year \in Int
          /\ SemesterStart(input.terminationDate.month) \in 1..12
          /\ input.unpaidSalaryStartDate \in AnyDate
      BY <3>1, CalendarTyped DEF SemesterStart
    <3>4. /\ SalaryDays(input) \in Int /\ SeveranceDays(input) \in Int
          /\ ServiceBonusDays(input) \in Int
      <4>1. SalaryDays(input) \in Int
        BY <3>1, <3>3, UntilTyped DEF SalaryDays
      <4>2. FirstOf(input.terminationDate.year, 1) \in AnyDate
        BY <3>2, <3>3
      <4>3. SeveranceDays(input) \in Int
        BY <3>1, <4>2, UntilTyped DEF SeveranceDays
      <4>4. FirstOf(input.terminationDate.year, SemesterStart(input.terminationDate.month))
               \in AnyDate
        BY <3>2, <3>3
      <4>5. ServiceBonusDays(input) \in Int
        BY <3>1, <4>4, UntilTyped DEF ServiceBonusDays
      <4> QED BY <4>1, <4>3, <4>5
    <3>5. result = Termination(input)
      BY <2>2, <2>6 DEF Answered
    <3>6. Explained(Termination(input))
      BY <2>2, <3>1, <3>4, TerminationExplained
    <3> QED BY <2>6, <3>5, <3>6
  <2>7. input.kind \in {"PERIODIC", "SEVERANCE", "BONUS", "TERMINATION"}
    BY <2>2, InputsTyped
  <2> QED BY <2>3, <2>4, <2>5, <2>6, <2>7
<1> QED BY <1>1, EveryCalculation, PTL

\* A sick leave pays what it would as two novelties (calculate of the sick leave
\* calculator, day by day over the ranges), whatever the ranges, the rates and the days.
THEOREM SickLeavesSplit == Spec => []SickLeaveSplits
<1>1. Calculation => SickLeaveSplits
  <2>1. SUFFICES ASSUME Calculation, input.kind = "PERIODIC", NEW i \in DOMAIN input.novelties,
                        input.novelties[i].type = "SICK_LEAVE",
                        input.novelties[i].sickLeaveOrigin = "COMMON_DISEASE",
                        NEW first \in 1..Turns(Quantity(input.novelties[i])),
                        NEW rest \in 1..Turns(Quantity(input.novelties[i]))
                 PROVE  LET n == input.novelties[i]
                            Paid(from, days) ==
                                SickLeaveAmount([n EXCEPT !.sickLeaveStartDay = from,
                                                          !.quantity = days * Parts])
                        IN  Paid(n.sickLeaveStartDay, first + rest)
                                = Paid(n.sickLeaveStartDay, first)
                                  + Paid(n.sickLeaveStartDay + first, rest)
    BY DEF SickLeaveSplits
  <2> DEFINE n == input.novelties[i]
             ibc == n.sickLeaveIbc \div Rules.monthlyIbcDayBasis
             from == n.sickLeaveStartDay
  <2>2. input.novelties \in Seq(Novelties)
    BY <2>1, InputsTyped DEF Calculation
  <2>3. n \in Novelties /\ n.type = "SICK_LEAVE" /\ n.sickLeaveOrigin = "COMMON_DISEASE"
    BY <2>1, <2>2
  <2>4. first \in Nat /\ rest \in Nat
    <3>1. Turns(Quantity(n)) \in Int
      BY <2>3, NoveltyTyped, TurnsTyped
    <3> HIDE DEF n
    <3> QED BY <3>1 DEF n
  <2> HIDE DEF n
  <2>5. from \in Int /\ n.sickLeaveIbc \in Int
    BY <2>3, NoveltiesAssumption
  <2>6. ibc \in Int
    BY <2>5, RulesTyped, DivTyped
  <2> HIDE DEF from, ibc
  <2>7. ASSUME NEW start \in Int, NEW days \in Int
        PROVE  SickLeaveAmount([n EXCEPT !.sickLeaveStartDay = start, !.quantity = days * Parts])
                   = DiseasePay(ibc, start, days)
    BY <2>3, WholeDaysPaid DEF ibc
  <2>8. DiseasePay(ibc, from, first + rest)
           = DiseasePay(ibc, from, first) + DiseasePay(ibc, from + first, rest)
    BY <2>4, <2>5, <2>6, DiseasePaySplits
  <2>9. first + rest \in Int /\ from + first \in Int /\ first \in Int /\ rest \in Int
    BY <2>4, <2>5
  <2> QED BY <2>5, <2>7, <2>8, <2>9 DEF n, from
<1> QED BY <1>1, EveryCalculation, PTL

\* Each of the month's days is paid once (the days three calculators count, subtracted by
\* the service), however many novelties there are and of whatever parts of days.
THEOREM EveryDayIsPaidOnce == Spec => []DaysArePaidOnce
<1>1. Calculation => DaysArePaidOnce
  <2>1. SUFFICES ASSUME Calculation, input.kind = "PERIODIC", Calculated
                 PROVE  DaysArePaidOnce
    BY DEF DaysArePaidOnce
  <2> DEFINE salary == input.salary
             novelties == input.novelties
  <2>2. salary \in Salaries /\ salary \in Int /\ novelties \in Seq(Novelties)
    BY <2>1, InputsTyped DEF Calculation
  <2>3. ~PricesZeroHours(novelties) /\ result = PricedPeriodic(salary, novelties)
    BY <2>1 DEF Calculation, Answered, Calculated, Periodic
  <2> HIDE DEF salary, novelties
  <2>4. Coded(result.concepts, {"BASE_SALARY", "VACATION", "LEAVE"})
           = Sum(BaseSalary(salary, OrdinaryWorkedDays(novelties)))
             + Sum(Vacation(salary, novelties)) + Sum(Leave(salary, novelties))
    BY <2>2, <2>3, PeriodicFound
  <2> QED BY <2>2, <2>4, PeriodicPaysOnce DEF DaysArePaidOnce, salary, novelties
<1> QED BY <1>1, EveryCalculation, PTL

\* The days accrued are the days worked (calculate and calculateUntilDate), on every date
\* of every year.
THEOREM AccrualIsACount == Spec => []AccrualCountsDays
<1>1. Calculation => AccrualCountsDays
  <2>1. SUFFICES ASSUME Calculation PROVE AccrualCountsDays
    OBVIOUS
  <2>2. input \in Inputs
    BY <2>1 DEF Calculation
  <2>3. ASSUME input.kind = "TERMINATION"
        PROVE  SalaryDays(input)
                   = WorkDays(input.unpaidSalaryStartDate, input.terminationDate)
                     - Lost(input.terminationDate)
    <3>1. /\ input.unpaidSalaryStartDate \in Calendar /\ input.terminationDate \in Calendar
          /\ NotAfter(input.unpaidSalaryStartDate, input.terminationDate)
      BY <2>2, <2>3, InputsTyped
    <3> QED BY <3>1, TerminationCountsDays DEF SalaryDays
  <2>4. ASSUME input.kind \in {"SEVERANCE", "BONUS"}, NEW from \in 1..input.month
        PROVE  AccruedInPayroll(input.start, input.year, input.month, from)
                   = WorkDays(Later(input.start, FirstOf(input.year, from)),
                              EndOf(input.year, input.month))
    BY <2>2, <2>4, InputsTyped, PayrollCountsDays
  <2>5. input.kind \in {"SEVERANCE", "BONUS"} =>
            /\ 1 \in 1..input.month
            /\ SemesterStart(input.month) \in 1..input.month
    <3>1. input.kind \in {"SEVERANCE", "BONUS"} => input.month \in 1..12
      BY <2>2, InputsTyped
    <3>2. \A month \in 1..12 : 1 \in 1..month /\ SemesterStart(month) \in 1..month
      BY SemesterStarts
    <3> QED BY <3>1, <3>2
  <2> QED BY <2>3, <2>4, <2>5 DEF AccrualCountsDays
<1> QED BY <1>1, EveryCalculation, PTL
=============================================================================
