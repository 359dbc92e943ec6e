------------------------ MODULE ClassSelectionProofs ------------------------
(* Theorems about ClassSelection, for every value of its constants. *)
EXTENDS ClassSelection, TLAPS, WellFoundedInduction

-----------------------------------------------------------------------------
(* Induction and recursion over the positions of a sequence.  The provers    *)
(* cannot use the library's induction theorems, whose parameter is an        *)
(* operator; these take a set or a function instead.                         *)

LEMMA Smallest ==
  ASSUME NEW S \in SUBSET Nat, S # {}
  PROVE  \E n \in S : \A m \in S : n <= m
<1>. DEFINE R == OpToRel(<, Nat)
<1>1. IsWellFoundedOn(R, Nat)
  BY NatLessThanWellFounded
<1>2. \A x, y \in Nat : x < y => <<x, y>> \in R
  BY DEF OpToRel
<1>. HIDE DEF R
<1>3. PICK n \in S : \A m \in S : ~ (<<m, n>> \in R)
  BY <1>1, WFMin
<1>4. \A m \in S : ~ (m < n)
  BY <1>2, <1>3
<1>5. n \in S /\ \A m \in S : n <= m
  BY <1>4
<1>. QED
  BY <1>5

LEMMA UpTo ==
  ASSUME NEW n \in Nat, NEW S, 0 \in S, \A i \in 0 .. n - 1 : i \in S => i + 1 \in S
  PROVE  0 .. n \subseteq S
<1>. DEFINE T == (0 .. n) \ S
<1>. SUFFICES ASSUME T # {} PROVE FALSE
  OBVIOUS
<1>1. PICK m \in T : \A i \in T : m <= i
  <2>1. T \in SUBSET Nat /\ T # {}
    OBVIOUS
  <2>. HIDE DEF T
  <2>. QED
    BY <2>1, Smallest
<1>2. m \in 1 .. n /\ m - 1 \in 0 .. n - 1 /\ m - 1 \notin T
  BY <1>1
<1>3. (m - 1) + 1 \in S /\ (m - 1) + 1 = m
  BY <1>2
<1>. QED
  BY <1>1, <1>3

\* What a step F makes of a, position by position.
Follows(f, a, F, n) == f[0] = a /\ \A i \in 1 .. n : f[i] = F[f[i - 1]][i]

LEMMA Recursion ==
  ASSUME NEW A, NEW a \in A, NEW n \in Nat, NEW F \in [A -> [1 .. n -> A]]
  PROVE  \E f \in [0 .. n -> A] : Follows(f, a, F, n)
<1>. DEFINE S == {m \in 0 .. n : \E f \in [0 .. m -> A] : Follows(f, a, F, m)}
<1>1. 0 \in S
  <2>1. [i \in 0 .. 0 |-> a] \in [0 .. 0 -> A] /\ Follows([i \in 0 .. 0 |-> a], a, F, 0)
    BY DEF Follows
  <2>. QED
    BY <2>1
<1>2. ASSUME NEW m \in 0 .. n - 1, m \in S
      PROVE  m + 1 \in S
  <2>1. PICK f \in [0 .. m -> A] : Follows(f, a, F, m)
    BY <1>2
  <2>. DEFINE g == [i \in 0 .. m + 1 |-> IF i = m + 1 THEN F[f[m]][m + 1] ELSE f[i]]
  <2>2. m \in 0 .. m /\ m + 1 \in 1 .. n /\ m + 1 \in 0 .. n /\ m \in Nat
    OBVIOUS
  <2>3. F[f[m]][m + 1] \in A
    BY <2>1, <2>2
  <2>4. g \in [0 .. m + 1 -> A]
    BY <2>1, <2>2, <2>3
  <2>5. g[0] = a
    BY <2>1, <2>2 DEF Follows
  <2>6. ASSUME NEW i \in 1 .. m + 1
        PROVE  g[i] = F[g[i - 1]][i]
    <3>1. CASE i = m + 1
      BY <2>2, <3>1
    <3>2. CASE i # m + 1
      <4>1. i \in 1 .. m /\ i \in 0 .. m + 1 /\ i - 1 \in 0 .. m /\ i - 1 # m + 1
        BY <2>2, <3>2
      <4>2. f[i] = F[f[i - 1]][i]
        BY <2>1, <4>1 DEF Follows
      <4>. QED
        BY <3>2, <4>1, <4>2
    <3>. QED
      BY <3>1, <3>2
  <2>7. Follows(g, a, F, m + 1)
    BY <2>5, <2>6 DEF Follows
  <2>. HIDE DEF g
  <2>. QED
    BY <2>2, <2>4, <2>7
<1>3. n \in S
  <2>. HIDE DEF S
  <2>1. 0 .. n \subseteq S
    BY <1>1, <1>2, UpTo
  <2>. QED
    BY <2>1
<1>. QED
  BY <1>3

-----------------------------------------------------------------------------
(* The one-pass comparison *)

Segment == Nat \X Nat

LEMMA Pair ==
  ASSUME NEW s \in Segment
  PROVE  s[1] \in Nat /\ s[2] \in Nat /\ s = <<s[1], s[2]>>
BY DEF Segment

LEMMA MatchType ==
  ASSUME NEW t \in Seq(Segment), NEW m \in 0 .. Len(t) + 1, NEW k2 \in Segment
  PROVE  Match(t, m, k2) \in 0 .. Len(t) + 1
BY DEF Match

LEMMA MatchedDefined ==
  ASSUME NEW t \in Seq(Segment), NEW other \in Seq(Segment)
  PROVE  /\ Matched(t, other) \in [0 .. Len(other) -> 0 .. Len(t) + 1]
         /\ Matched(t, other)[0] = 0
         /\ \A i \in 1 .. Len(other) :
              Matched(t, other)[i] = Match(t, Matched(t, other)[i - 1], other[i])
<1>. DEFINE A == 0 .. Len(t) + 1
            n == Len(other)
            F == [m \in A |-> [i \in 1 .. n |-> Match(t, m, other[i])]]
            Def(j) == [i \in 0 .. n |-> IF i = 0 THEN 0 ELSE Match(t, j[i - 1], other[i])]
<1>1. n \in Nat /\ 0 \in A /\ F \in [A -> [1 .. n -> A]]
  <2>1. \A i \in 1 .. n : other[i] \in Segment
    OBVIOUS
  <2>2. \A m \in A, i \in 1 .. n : Match(t, m, other[i]) \in A
    BY <2>1, MatchType
  <2>. HIDE DEF A, n
  <2>3. F \in [A -> [1 .. n -> A]]
    BY <2>2
  <2>. QED
    BY <2>3 DEF A, n
<1>2. PICK f \in [0 .. n -> A] : Follows(f, 0, F, n)
  <2>. HIDE DEF A, F, n
  <2>. QED
    BY <1>1, Recursion
<1>3. f = Def(f)
  <2>. HIDE DEF A, n
  <2>1. ASSUME NEW i \in 1 .. n
        PROVE  i - 1 \in 0 .. n /\ f[i] = Match(t, f[i - 1], other[i])
    <3>1. i - 1 \in 0 .. n /\ f[i] = F[f[i - 1]][i]
      <4>. HIDE DEF F
      <4>. QED
        BY <1>1, <1>2 DEF Follows
    <3>2. f[i - 1] \in A
      BY <1>2, <3>1
    <3>. QED
      BY <3>1, <3>2
  <2>2. f[0] = 0
    BY <1>2 DEF Follows
  <2>. HIDE DEF F
  <2>3. \A i \in 0 .. n : f[i] = IF i = 0 THEN 0 ELSE Match(t, f[i - 1], other[i])
    BY <1>1, <2>1, <2>2
  <2>. QED
    BY <1>1, <1>2, <2>3
<1>4. Matched(t, other) = CHOOSE j : j = Def(j)
  BY DEF Matched
<1>. DEFINE j == Matched(t, other)
<1>5. j = Def(j)
  <2>. HIDE DEF Def
  <2>. QED
    BY <1>3, <1>4
<1>6. DOMAIN j = 0 .. n /\ j[0] = 0 /\ \A i \in 1 .. n : j[i] = Match(t, j[i - 1], other[i])
  <2>1. ASSUME NEW h, h = Def(h)
        PROVE  DOMAIN h = 0 .. n /\ h[0] = 0 /\ \A i \in 1 .. n : h[i] = Match(t, h[i - 1], other[i])
    <3>. HIDE DEF n
    <3>1. DOMAIN h = 0 .. n /\ 0 \in 0 .. n /\ \A i \in 1 .. n : i \in 0 .. n /\ i # 0
      BY <1>1, <2>1
    <3>2. \A i \in 0 .. n : h[i] = Def(h)[i]
      BY <2>1
    <3>3. \A i \in 0 .. n : Def(h)[i] = IF i = 0 THEN 0 ELSE Match(t, h[i - 1], other[i])
      OBVIOUS
    <3>. HIDE DEF Def
    <3>. QED
      BY <3>1, <3>2, <3>3
  <2>. HIDE DEF j, n, Def
  <2>. QED
    BY <1>5, <2>1
<1>7. \A i \in 0 .. n : j[i] \in A
  <2>. DEFINE S == {i \in 0 .. n : j[i] \in A}
  <2>1. 0 \in S
    BY <1>1, <1>6
  <2>2. ASSUME NEW i \in 0 .. n - 1, i \in S
        PROVE  i + 1 \in S
    <3>1. i + 1 \in 1 .. n /\ i + 1 \in 0 .. n /\ (i + 1) - 1 = i /\ other[i + 1] \in Segment
      BY <1>1
    <3>2. j[i + 1] = Match(t, j[i], other[i + 1])
      BY <1>6, <3>1
    <3>. QED
      BY <2>2, <3>1, <3>2, MatchType
  <2>. HIDE DEF S
  <2>3. 0 .. n \subseteq S
    BY <1>1, <2>1, <2>2, UpTo
  <2>. QED
    BY <2>3 DEF S
<1>. QED
  BY <1>5, <1>6, <1>7

-----------------------------------------------------------------------------
(* The terms of a selector *)

Expression == [key : Nat, values : Seq(Nat) \ {<<>>}]

\* t names a value for each of the first i expressions.
Term(t, selector, i) ==
  /\ Len(t) = i
  /\ \A m \in 1 .. i : t[m][1] = selector[m].key /\ t[m][2] \in ToSet(selector[m].values)

Terms(selector, i) == {t \in Seq(Segment) : Term(t, selector, i)}

LEMMA Element ==
  ASSUME NEW S, NEW s \in Seq(S), NEW i \in 1 .. Len(s)
  PROVE  s[i] \in S
OBVIOUS

LEMMA SegmentOf ==
  ASSUME NEW e \in Expression, NEW v \in ToSet(e.values)
  PROVE  <<e.key, v>> \in Segment
BY DEF ToSet, Expression, Segment

LEMMA DistributeType ==
  ASSUME NEW T \in SUBSET Seq(Segment), NEW e \in Expression
  PROVE  Distribute(T, e) \in SUBSET Seq(Segment)
<1>1. \A v \in ToSet(e.values) : <<e.key, v>> \in Segment
  BY SegmentOf
<1>2. \A v \in ToSet(e.values) : << <<e.key, v>> >> \in Seq(Segment)
  BY <1>1
<1>3. \A t \in T, v \in ToSet(e.values) : Append(t, <<e.key, v>>) \in Seq(Segment)
  BY <1>1
<1>4. ASSUME NEW u \in Distribute(T, e)
      PROVE  u \in Seq(Segment)
  <2>1. CASE T = {}
    <3>1. \E v \in ToSet(e.values) : u = << <<e.key, v>> >>
      BY <2>1 DEF Distribute
    <3>. QED
      BY <1>2, <3>1
  <2>2. CASE T # {}
    <3>1. \E t \in T, v \in ToSet(e.values) : u = Append(t, <<e.key, v>>)
      BY <2>2 DEF Distribute
    <3>. QED
      BY <1>3, <3>1
  <2>. QED
    BY <2>1, <2>2
<1>. QED
  BY <1>4

LEMMA TermsOfDefined ==
  ASSUME NEW selector \in Seq(Expression)
  PROVE  /\ TermsOf(selector)[0] = {}
         /\ \A i \in 1 .. Len(selector) :
              TermsOf(selector)[i] = Distribute(TermsOf(selector)[i - 1], selector[i])
<1>. DEFINE A == SUBSET Seq(Segment)
            n == Len(selector)
            F == [T \in A |-> [i \in 1 .. n |-> Distribute(T, selector[i])]]
            Def(j) == [i \in 0 .. n |-> IF i = 0 THEN {} ELSE Distribute(j[i - 1], selector[i])]
<1>1. n \in Nat /\ {} \in A /\ F \in [A -> [1 .. n -> A]]
  <2>1. \A i \in 1 .. n : selector[i] \in Expression
    OBVIOUS
  <2>2. \A T \in A, i \in 1 .. n : Distribute(T, selector[i]) \in A
    BY <2>1, DistributeType
  <2>3. n \in Nat /\ {} \in A
    OBVIOUS
  <2>. HIDE DEF A, n
  <2>4. F \in [A -> [1 .. n -> A]]
    BY <2>2
  <2>. QED
    BY <2>3, <2>4
<1>2. PICK f \in [0 .. n -> A] : Follows(f, {}, F, n)
  <2>. HIDE DEF A, F, n
  <2>. QED
    BY <1>1, Recursion
<1>3. f = Def(f)
  <2>. HIDE DEF A, n
  <2>1. ASSUME NEW i \in 1 .. n
        PROVE  i - 1 \in 0 .. n /\ f[i] = Distribute(f[i - 1], selector[i])
    <3>1. i - 1 \in 0 .. n /\ f[i] = F[f[i - 1]][i]
      <4>. HIDE DEF F
      <4>. QED
        BY <1>1, <1>2 DEF Follows
    <3>2. f[i - 1] \in A
      BY <1>2, <3>1
    <3>. QED
      BY <3>1, <3>2
  <2>2. f[0] = {}
    BY <1>2 DEF Follows
  <2>. HIDE DEF F
  <2>3. \A i \in 0 .. n : f[i] = IF i = 0 THEN {} ELSE Distribute(f[i - 1], selector[i])
    BY <1>1, <2>1, <2>2
  <2>. QED
    BY <1>1, <1>2, <2>3
<1>4. TermsOf(selector) = CHOOSE j : j = Def(j)
  BY DEF TermsOf
<1>. DEFINE j == TermsOf(selector)
<1>5. j = Def(j)
  <2>. HIDE DEF Def
  <2>. QED
    BY <1>3, <1>4
<1>6. j[0] = {} /\ \A i \in 1 .. n : j[i] = Distribute(j[i - 1], selector[i])
  <2>1. ASSUME NEW h, h = Def(h)
        PROVE  h[0] = {} /\ \A i \in 1 .. n : h[i] = Distribute(h[i - 1], selector[i])
    <3>. HIDE DEF n
    <3>1. 0 \in 0 .. n /\ \A i \in 1 .. n : i \in 0 .. n /\ i # 0
      BY <1>1
    <3>2. \A i \in 0 .. n : h[i] = Def(h)[i]
      BY <2>1
    <3>3. \A i \in 0 .. n : Def(h)[i] = IF i = 0 THEN {} ELSE Distribute(h[i - 1], selector[i])
      OBVIOUS
    <3>. HIDE DEF Def
    <3>. QED
      BY <3>1, <3>2, <3>3
  <2>. HIDE DEF j, n, Def
  <2>. QED
    BY <1>5, <2>1
<1>. QED
  BY <1>6

LEMMA AppendLast ==
  ASSUME NEW S, NEW i \in Nat, NEW u \in Seq(S), Len(u) = i + 1,
         NEW t \in Seq(S), Len(t) = i, \A m \in 1 .. i : t[m] = u[m]
  PROVE  u = Append(t, u[i + 1])
OBVIOUS

LEMMA OneSegment ==
  ASSUME NEW selector \in Seq(Expression), 1 <= Len(selector)
  PROVE  Distribute({}, selector[1]) = Terms(selector, 1)
<1>. DEFINE e == selector[1]
<1>0. e \in Expression
  OBVIOUS
<1>1. ASSUME NEW v \in ToSet(e.values)
      PROVE  << <<e.key, v>> >> \in Terms(selector, 1)
  <2>. HIDE DEF e
  <2>1. <<e.key, v>> \in Segment
    BY <1>0, SegmentOf
  <2>2. << <<e.key, v>> >> \in Seq(Segment) /\ Len(<< <<e.key, v>> >>) = 1
    BY <2>1
  <2>3. \A m \in 1 .. 1 : m = 1
    OBVIOUS
  <2>. QED
    BY <2>2, <2>3 DEF Terms, Term, e
<1>2. ASSUME NEW t \in Terms(selector, 1)
      PROVE  \E v \in ToSet(e.values) : t = << <<e.key, v>> >>
  <2>1. t \in Seq(Segment) /\ Len(t) = 1 /\ t[1][1] = e.key /\ t[1][2] \in ToSet(e.values)
    BY DEF Terms, Term
  <2>. HIDE DEF e
  <2>2. t[1] \in Segment
    <3>1. 1 \in 1 .. Len(t)
      BY <2>1
    <3>. QED
      BY <2>1, <3>1, Element
  <2>3. t[1] = <<e.key, t[1][2]>>
    BY <2>1, <2>2 DEF Segment
  <2>4. t = << t[1] >>
    BY <2>1
  <2>. QED
    BY <2>1, <2>3, <2>4
<1>. QED
  BY <1>1, <1>2 DEF Distribute

LEMMA OneSegmentMore ==
  ASSUME NEW selector \in Seq(Expression), NEW i \in 1 .. Len(selector) - 1,
         Terms(selector, i) # {}
  PROVE  Distribute(Terms(selector, i), selector[i + 1]) = Terms(selector, i + 1)
<1>. DEFINE e == selector[i + 1]
<1>0. e \in Expression /\ i \in Nat /\ i + 1 \in Nat
  OBVIOUS
<1>1. ASSUME NEW t \in Terms(selector, i), NEW v \in ToSet(e.values)
      PROVE  Append(t, <<e.key, v>>) \in Terms(selector, i + 1)
  <2>1. <<e.key, v>> \in Segment
    <3>. HIDE DEF e
    <3>. QED
      BY <1>0, SegmentOf
  <2>2. t \in Seq(Segment) /\ Len(t) = i /\ Term(t, selector, i)
    BY DEF Terms, Term
  <2>. DEFINE u == Append(t, <<e.key, v>>)
  <2>3. u \in Seq(Segment) /\ Len(u) = i + 1 /\ u[i + 1] = <<e.key, v>>
        /\ \A m \in 1 .. i : u[m] = t[m]
    <3>. HIDE DEF e
    <3>. QED
      BY <1>0, <2>1, <2>2
  <2>. HIDE DEF u
  <2>4. ASSUME NEW m \in 1 .. i + 1
        PROVE  u[m][1] = selector[m].key /\ u[m][2] \in ToSet(selector[m].values)
    <3>1. CASE m = i + 1
      BY <2>3, <3>1
    <3>2. CASE m # i + 1
      <4>1. m \in 1 .. i
        BY <1>0, <3>2
      <4>. QED
        BY <2>2, <2>3, <4>1 DEF Term
    <3>. QED
      BY <3>1, <3>2
  <2>5. u \in Terms(selector, i + 1)
    BY <2>3, <2>4 DEF Terms, Term
  <2>. QED
    BY <2>5 DEF u
<1>2. ASSUME NEW u \in Terms(selector, i + 1)
      PROVE  \E t \in Terms(selector, i), v \in ToSet(e.values) : u = Append(t, <<e.key, v>>)
  <2>1. /\ u \in Seq(Segment) /\ Len(u) = i + 1
        /\ \A m \in 1 .. i + 1 : u[m][1] = selector[m].key
                                 /\ u[m][2] \in ToSet(selector[m].values)
    BY DEF Terms, Term
  <2>. DEFINE t == [m \in 1 .. i |-> u[m]]
  <2>2. t \in Seq(Segment) /\ Len(t) = i /\ \A m \in 1 .. i : t[m] = u[m]
    BY <1>0, <2>1
  <2>. HIDE DEF t
  <2>3. t \in Terms(selector, i)
    <3>1. \A m \in 1 .. i : m \in 1 .. i + 1
      BY <1>0
    <3>. QED
      BY <2>1, <2>2, <3>1 DEF Terms, Term
  <2>4. u[i + 1] \in Segment /\ u[i + 1][1] = e.key /\ u[i + 1][2] \in ToSet(e.values)
    <3>1. i + 1 \in 1 .. i + 1
      BY <1>0
    <3>. QED
      BY <2>1, <3>1
  <2>. HIDE DEF e
  <2>5. u[i + 1] = <<e.key, u[i + 1][2]>>
    BY <2>4 DEF Segment
  <2>6. u = Append(t, u[i + 1])
    BY <1>0, <2>1, <2>2, AppendLast
  <2>. QED
    BY <2>3, <2>4, <2>5, <2>6
<1>3. ASSUME NEW u
      PROVE  u \in Distribute(Terms(selector, i), e) <=> u \in Terms(selector, i + 1)
  <2>1. u \in Distribute(Terms(selector, i), e) <=>
          \E t \in Terms(selector, i), v \in ToSet(e.values) : u = Append(t, <<e.key, v>>)
    BY SMTT(30) DEF Distribute
  <2>. HIDE DEF e
  <2>. QED
    BY <1>1, <1>2, <2>1
<1>. QED
  BY <1>3

LEMMA TermExists ==
  ASSUME NEW selector \in Seq(Expression), NEW i \in 0 .. Len(selector)
  PROVE  Terms(selector, i) # {}
<1>. DEFINE t == [m \in 1 .. i |-> <<selector[m].key, selector[m].values[1]>>]
<1>1. ASSUME NEW m \in 1 .. i
      PROVE  <<selector[m].key, selector[m].values[1]>> \in Segment
             /\ selector[m].values[1] \in ToSet(selector[m].values)
  <2>1. m \in 1 .. Len(selector)
    OBVIOUS
  <2>2. selector[m] \in Expression
    BY <2>1
  <2>3. selector[m].values \in Seq(Nat) /\ selector[m].values # <<>> /\ selector[m].key \in Nat
    BY <2>2 DEF Expression
  <2>4. 1 \in DOMAIN selector[m].values
    BY <2>3
  <2>. QED
    BY <2>3, <2>4 DEF Segment, ToSet
<1>2. i \in Nat
  OBVIOUS
<1>3. t \in Seq(Segment) /\ Len(t) = i
  BY <1>1, <1>2
<1>4. t \in Terms(selector, i)
  BY <1>1, <1>3 DEF Terms, Term
<1>. QED
  BY <1>4

\* Distributing expression after expression gives exactly the sequences of segments
\* that take one value of every expression.
LEMMA TermsOfExact ==
  ASSUME NEW selector \in Seq(Expression)
  PROVE  TermsOf(selector)[Len(selector)] =
           IF selector = <<>> THEN {} ELSE Terms(selector, Len(selector))
<1>. DEFINE n == Len(selector)
            T == TermsOf(selector)
            S == {i \in 0 .. n : i = 0 \/ T[i] = Terms(selector, i)}
<1>1. n \in Nat /\ 0 \in S /\ T[0] = {} /\ \A i \in 1 .. n : T[i] = Distribute(T[i - 1], selector[i])
  BY TermsOfDefined
<1>2. ASSUME NEW i \in 0 .. n - 1, i \in S
      PROVE  i + 1 \in S
  <2>. HIDE DEF T
  <2>1. i + 1 \in 1 .. n /\ i + 1 \in 0 .. n /\ (i + 1) - 1 = i
    BY <1>1
  <2>2. T[i + 1] = Distribute(T[i], selector[i + 1])
    BY <1>1, <2>1
  <2>3. CASE i = 0
    <3>1. T[1] = Distribute({}, selector[1]) /\ 1 <= Len(selector)
      <4>1. 0 + 1 = 1
        OBVIOUS
      <4>2. T[1] = Distribute({}, selector[1])
        BY <1>1, <2>2, <2>3, <4>1
      <4>. QED
        BY <2>1, <2>3, <4>2
    <3>2. T[1] = Terms(selector, 1)
      BY <3>1, OneSegment
    <3>. QED
      BY <2>1, <2>3, <3>2
  <2>4. CASE i # 0
    <3>1. i \in 1 .. n - 1 /\ i \in 0 .. n /\ T[i] = Terms(selector, i)
      BY <1>1, <1>2, <2>4
    <3>2. Terms(selector, i) # {}
      BY <3>1, TermExists
    <3>3. T[i + 1] = Terms(selector, i + 1)
      BY <2>2, <3>1, <3>2, OneSegmentMore
    <3>. QED
      BY <2>1, <3>3
  <2>. QED
    BY <2>3, <2>4
<1>3. n \in S
  <2>. HIDE DEF S, n
  <2>1. 0 .. n \subseteq S
    BY <1>1, <1>2, UpTo
  <2>. QED
    BY <1>1, <2>1
<1>4. selector = <<>> <=> n = 0
  OBVIOUS
<1>. HIDE DEF T
<1>5. T[n] = IF n = 0 THEN {} ELSE Terms(selector, n)
  BY <1>1, <1>3
<1>. QED
  BY <1>4, <1>5 DEF T

-----------------------------------------------------------------------------
(* The one-pass comparison decides inclusion *)

Sorted(t) == \A i, j \in DOMAIN t : i < j => ~Before(t[j], t[i])

OneValuePerKey(t) == \A i, j \in DOMAIN t : t[i][1] = t[j][1] => t[i] = t[j]

KeysDiffer(t) == \A i, j \in DOMAIN t : t[i][1] = t[j][1] => i = j

LEMMA MatchCases ==
  ASSUME NEW t \in Seq(Segment), NEW m \in 0 .. Len(t), NEW k2 \in Segment
  PROVE  \/ Match(t, m, k2) = m /\ (m = Len(t) \/ (m < Len(t) /\ t[m + 1][1] # k2[1]))
         \/ Match(t, m, k2) = Len(t) + 1 /\ m < Len(t)
            /\ t[m + 1][1] = k2[1] /\ t[m + 1] # k2
         \/ Match(t, m, k2) = m + 1 /\ m < Len(t) /\ t[m + 1] = k2
<1>1. CASE m = Len(t)
  BY <1>1 DEF Match
<1>2. CASE m < Len(t)
  <2>1. m + 1 \in 1 .. Len(t) /\ ~(m >= Len(t))
    BY <1>2
  <2>2. t[m + 1] \in Segment
    BY <2>1, Element
  <2>3. t[m + 1] = k2 <=> t[m + 1][1] = k2[1] /\ t[m + 1][2] = k2[2]
    BY <2>2, Pair
  <2>. QED
    BY <1>2, <2>1, <2>3 DEF Match
<1>. QED
  BY <1>1, <1>2

LEMMA SubsetSound ==
  ASSUME NEW t \in Seq(Segment), NEW other \in Seq(Segment), subset(t, other)
  PROVE  ToSet(t) \subseteq ToSet(other)
<1>. DEFINE n == Len(other)
            M == Matched(t, other)
            Found(i) == M[i] <= Len(t) =>
                          \A l \in 1 .. M[i] : \E p \in 1 .. n : other[p] = t[l]
            S == {i \in 0 .. n : Found(i)}
<1>1. /\ n \in Nat /\ Len(t) \in Nat /\ M \in [0 .. n -> 0 .. Len(t) + 1] /\ M[0] = 0
      /\ \A i \in 1 .. n : M[i] = Match(t, M[i - 1], other[i])
  BY MatchedDefined
<1>2. 0 \in S
  <2>. HIDE DEF M
  <2>. QED
    BY <1>1
<1>3. ASSUME NEW i \in 0 .. n - 1, i \in S
      PROVE  i + 1 \in S
  <2>. HIDE DEF M
  <2>0. i + 1 \in 1 .. n /\ i + 1 \in 0 .. n /\ (i + 1) - 1 = i /\ i \in 0 .. n
    BY <1>1
  <2>1. other[i + 1] \in Segment
    BY <2>0, Element
  <2>2. M[i] \in 0 .. Len(t) + 1 /\ M[i + 1] \in 0 .. Len(t) + 1
        /\ M[i + 1] = Match(t, M[i], other[i + 1])
    BY <1>1, <2>0
  <2>3. CASE M[i] = Len(t) + 1
    <3>1. M[i + 1] = Len(t) + 1
      BY <1>1, <2>2, <2>3 DEF Match
    <3>. QED
      BY <1>1, <2>0, <3>1
  <2>4. CASE M[i] \in 0 .. Len(t)
    <3>1. \A l \in 1 .. M[i] : \E p \in 1 .. n : other[p] = t[l]
      BY <1>3, <2>4
    <3>2. CASE M[i + 1] = M[i]
      BY <2>0, <3>1, <3>2
    <3>3. CASE M[i + 1] = Len(t) + 1
      BY <1>1, <2>0, <3>3
    <3>4. CASE M[i + 1] = M[i] + 1 /\ t[M[i] + 1] = other[i + 1]
      <4>1. \A l \in 1 .. M[i + 1] : l \in 1 .. M[i] \/ l = M[i] + 1
        BY <2>4, <3>4
      <4>. QED
        BY <2>0, <3>1, <3>4, <4>1
    <3>. QED
      BY <2>1, <2>2, <2>4, <3>2, <3>3, <3>4, MatchCases
  <2>. QED
    BY <1>1, <2>2, <2>3, <2>4
<1>4. Found(n)
  <2>. HIDE DEF S, n
  <2>1. 0 .. n \subseteq S
    BY <1>1, <1>2, <1>3, UpTo
  <2>2. n \in S
    BY <1>1, <2>1
  <2>. QED
    BY <2>2 DEF S
<1>5. M[n] = Len(t)
  BY DEF subset
<1>6. \A l \in 1 .. Len(t) : \E p \in 1 .. n : other[p] = t[l]
  <2>. HIDE DEF M
  <2>. QED
    BY <1>1, <1>4, <1>5
<1>. QED
  BY <1>6 DEF ToSet

LEMMA KeysIncrease ==
  ASSUME NEW t \in Seq(Segment), Sorted(t), KeysDiffer(t),
         NEW i \in 1 .. Len(t), NEW j \in 1 .. Len(t), i < j
  PROVE  t[i][1] < t[j][1]
<1>1. t[i] \in Segment /\ t[j] \in Segment
  BY Element
<1>2. i \in DOMAIN t /\ j \in DOMAIN t /\ i # j
  OBVIOUS
<1>3. ~(t[j][1] < t[i][1]) /\ t[i][1] # t[j][1]
  BY <1>2 DEF Sorted, KeysDiffer, Before
<1>. QED
  BY <1>1, <1>3 DEF Segment

LEMMA SubsetComplete ==
  ASSUME NEW t \in Seq(Segment), Sorted(t), KeysDiffer(t),
         NEW other \in Seq(Segment), Sorted(other), OneValuePerKey(other),
         ToSet(t) \subseteq ToSet(other)
  PROVE  subset(t, other)
<1>. DEFINE n == Len(other)
            M == Matched(t, other)
            Ahead(i) == /\ M[i] <= Len(t)
                        /\ \A l \in M[i] + 1 .. Len(t), p \in 1 .. i : other[p][1] # t[l][1]
            S == {i \in 0 .. n : Ahead(i)}
<1>1. /\ n \in Nat /\ Len(t) \in Nat /\ M \in [0 .. n -> 0 .. Len(t) + 1] /\ M[0] = 0
      /\ \A i \in 1 .. n : M[i] = Match(t, M[i - 1], other[i])
  BY MatchedDefined
<1>2. 0 \in S
  <2>. HIDE DEF M
  <2>. QED
    BY <1>1
<1>3. \A l \in 1 .. Len(t) : \E p \in 1 .. n : other[p] = t[l]
  BY DEF ToSet
<1>4. ASSUME NEW i \in 0 .. n - 1, i \in S
      PROVE  i + 1 \in S
  <2>. DEFINE o == other[i + 1]
              m == M[i]
  <2>0. i + 1 \in 1 .. n /\ i + 1 \in 0 .. n /\ (i + 1) - 1 = i /\ i \in 0 .. n /\ i \in Nat
    BY <1>1
  <2>1. o \in Segment
    BY <2>0, Element
  <2>. HIDE DEF M
  <2>2. m \in 0 .. Len(t) /\ M[i + 1] = Match(t, m, o)
    <3>1. M[i] \in 0 .. Len(t) + 1
      BY <1>1, <2>0
    <3>2. M[i] <= Len(t)
      BY <1>4
    <3>3. M[i + 1] = Match(t, M[(i + 1) - 1], other[i + 1])
      BY <1>1, <2>0
    <3>4. M[i] \in 0 .. Len(t)
      BY <1>1, <3>1, <3>2
    <3>. QED
      BY <2>0, <3>3, <3>4
  <2>3. \A l \in m + 1 .. Len(t), p \in 1 .. i : other[p][1] # t[l][1]
    BY <1>4
  <2>. HIDE DEF m, o
  <2>4. SUFFICES /\ Match(t, m, o) <= Len(t)
                 /\ \A l \in Match(t, m, o) + 1 .. Len(t) : o[1] # t[l][1] /\ l \in m + 1 .. Len(t)
    <3>1. \A p \in 1 .. i + 1 : p \in 1 .. i \/ other[p] = o
      BY <2>0 DEF o
    <3>2. Ahead(i + 1)
      BY <2>2, <2>3, <2>4, <3>1
    <3>. QED
      BY <2>0, <3>2
  <2>5. CASE m = Len(t)
    <3>1. Match(t, m, o) = m
      <4>1. m >= Len(t)
        BY <1>1, <2>5
      <4>. QED
        BY <4>1 DEF Match
    <3>. QED
      BY <1>1, <2>5, <3>1
  <2>6. CASE m < Len(t)
    <3>1. m + 1 \in 1 .. Len(t) /\ t[m + 1] \in Segment
      <4>1. m + 1 \in 1 .. Len(t)
        BY <1>1, <2>2, <2>6
      <4>. QED
        BY <4>1, Element
    <3>2. PICK p \in 1 .. n : other[p] = t[m + 1]
      BY <1>3, <3>1
    <3>3. ~ (p \in 1 .. i)
      BY <2>3, <3>1, <3>2
    <3>4. p = i + 1 \/ i + 1 < p
      BY <2>0, <3>3
    <3>5. p \in DOMAIN other /\ i + 1 \in DOMAIN other
      BY <2>0
    <3>6. \A l \in m + 2 .. Len(t) : l \in 1 .. Len(t) /\ t[l] \in Segment /\ t[m + 1][1] < t[l][1]
      <4>1. \A l \in m + 2 .. Len(t) : l \in 1 .. Len(t) /\ m + 1 < l
        BY <1>1, <2>2
      <4>. QED
        BY <3>1, <4>1, Element, KeysIncrease
    <3>7. CASE Match(t, m, o) = m /\ t[m + 1][1] # o[1]
      <4>1. i + 1 < p
        BY <3>2, <3>4, <3>7 DEF o
      <4>2. ~(other[p][1] < o[1])
        BY <3>5, <4>1 DEF Sorted, Before, o
      <4>3. ~(t[m + 1][1] < o[1])
        BY <3>2, <4>2
      <4>4. \A l \in m + 1 .. Len(t) : l = m + 1 \/ l \in m + 2 .. Len(t)
        BY <1>1, <2>2
      <4>5. \A l \in m + 1 .. Len(t) : o[1] # t[l][1]
        BY <3>6, <3>7, <4>3, <4>4
      <4>. QED
        BY <1>1, <2>2, <3>7, <4>5
    <3>8. CASE t[m + 1][1] = o[1] /\ t[m + 1] # o
      BY <3>2, <3>5, <3>8 DEF OneValuePerKey, o
    <3>9. CASE Match(t, m, o) = m + 1 /\ t[m + 1] = o
      <4>1. \A l \in (m + 1) + 1 .. Len(t) : l \in m + 2 .. Len(t) /\ l \in m + 1 .. Len(t)
        BY <1>1, <2>2
      <4>2. \A l \in m + 2 .. Len(t) : t[l][1] # t[m + 1][1]
        <5>1. ASSUME NEW l \in m + 2 .. Len(t)
              PROVE  t[l][1] # t[m + 1][1]
          <6>1. t[l][1] \in Nat /\ t[m + 1][1] \in Nat /\ t[m + 1][1] < t[l][1]
            BY <3>1, <3>6, Pair
          <6>. QED
            BY <6>1
        <5>. QED
          BY <5>1
      <4>. QED
        BY <1>1, <2>2, <3>1, <3>9, <4>1, <4>2
    <3>. QED
      BY <2>1, <2>2, <2>6, <3>7, <3>8, <3>9, MatchCases
  <2>. QED
    BY <1>1, <2>2, <2>5, <2>6
<1>5. Ahead(n)
  <2>. HIDE DEF S, n
  <2>1. 0 .. n \subseteq S
    BY <1>1, <1>2, <1>4, UpTo
  <2>2. n \in S
    BY <1>1, <2>1
  <2>. QED
    BY <2>2 DEF S
<1>6. M[n] = Len(t)
  <2>. HIDE DEF M
  <2>0. n \in 0 .. n /\ M[n] \in 0 .. Len(t)
    BY <1>1, <1>5
  <2>1. ASSUME M[n] < Len(t)
        PROVE  FALSE
    <3>1. M[n] + 1 \in 1 .. Len(t) /\ M[n] + 1 \in M[n] + 1 .. Len(t)
      BY <1>1, <2>0, <2>1
    <3>2. PICK p \in 1 .. n : other[p] = t[M[n] + 1]
      BY <1>3, <3>1
    <3>. QED
      BY <1>5, <3>1, <3>2
  <2>. QED
    BY <1>1, <2>0, <2>1
<1>. QED
  BY <1>6 DEF subset

\* A sorted term with one segment per key is recognised exactly when the node, whose
\* labels have one value each, has all its segments.
LEMMA SubsetExact ==
  ASSUME NEW t \in Seq(Segment), Sorted(t), KeysDiffer(t),
         NEW other \in Seq(Segment), Sorted(other), OneValuePerKey(other)
  PROVE  subset(t, other) <=> ToSet(t) \subseteq ToSet(other)
BY SubsetSound, SubsetComplete

-----------------------------------------------------------------------------
(* sort finds a permutation that sorts *)

LEMMA BeforeOrder ==
  ASSUME NEW a \in Segment, NEW b \in Segment, NEW c \in Segment
  PROVE  /\ ~Before(a, a)
         /\ Before(a, b) /\ Before(b, c) => Before(a, c)
<1>1. /\ a[1] \in Nat /\ a[2] \in Nat /\ b[1] \in Nat /\ b[2] \in Nat
      /\ c[1] \in Nat /\ c[2] \in Nat
  BY Pair
<1>. QED
  BY <1>1 DEF Before

LEMMA IsBijection ==
  ASSUME NEW D, NEW p
  PROVE  p \in Bijection(D, D) <=>
           /\ p \in [D -> D]
           /\ \A i, j \in D : p[i] = p[j] => i = j
           /\ \A j \in D : \E i \in D : p[i] = j
<1>1. ASSUME p \in [D -> D]
      PROVE  IsInjective(p) <=> \A i, j \in D : p[i] = p[j] => i = j
  BY <1>1 DEF IsInjective
<1>. QED
  BY <1>1 DEF Bijection, Injection, Surjection

\* None of the first c segments comes after the one at m.
Greatest(s, c, m) == m \in 1 .. c /\ \A i \in 1 .. c : ~Before(s[m], s[i])

LEMMA GreatestExists ==
  ASSUME NEW n \in Nat, NEW s \in [1 .. n -> Segment], NEW c \in 1 .. n
  PROVE  \E m \in 1 .. c : Greatest(s, c, m)
<1>. DEFINE S == {k \in 0 .. n : k = 0 \/ \E m \in 1 .. k : Greatest(s, k, m)}
<1>1. 0 \in S
  OBVIOUS
<1>2. ASSUME NEW k \in 0 .. n - 1, k \in S
      PROVE  k + 1 \in S
  <2>1. k + 1 \in 1 .. n /\ k \in Nat /\ k + 1 \in 0 .. n
        /\ \A i \in 1 .. k + 1 : (i \in 1 .. k \/ i = k + 1) /\ s[i] \in Segment
    OBVIOUS
  <2>2. CASE k = 0
    <3>1. Greatest(s, k + 1, 1)
      <4>1. \A i \in 1 .. k + 1 : i = 1
        BY <2>1, <2>2
      <4>. QED
        BY <2>1, <2>2, <4>1, BeforeOrder DEF Greatest
    <3>. QED
      BY <2>1, <2>2, <3>1
  <2>3. CASE k # 0
    <3>1. PICK m \in 1 .. k : Greatest(s, k, m)
      BY <1>2, <2>3
    <3>2. m \in 1 .. k + 1 /\ k + 1 \in 1 .. k + 1
      BY <2>1
    <3>3. CASE Before(s[m], s[k + 1])
      <4>1. \A i \in 1 .. k : ~Before(s[k + 1], s[i])
        BY <2>1, <3>1, <3>2, <3>3, BeforeOrder DEF Greatest
      <4>2. ~Before(s[k + 1], s[k + 1])
        BY <2>1, <3>2, BeforeOrder
      <4>3. Greatest(s, k + 1, k + 1)
        BY <2>1, <3>2, <4>1, <4>2 DEF Greatest
      <4>. QED
        BY <2>1, <3>2, <4>3
    <3>4. CASE ~Before(s[m], s[k + 1])
      <4>1. Greatest(s, k + 1, m)
        BY <2>1, <3>1, <3>2, <3>4 DEF Greatest
      <4>. QED
        BY <2>1, <3>2, <4>1
    <3>. QED
      BY <3>3, <3>4
  <2>. QED
    BY <2>2, <2>3
<1>3. c \in S
  <2>. HIDE DEF S
  <2>1. 0 .. n \subseteq S
    BY <1>1, <1>2, UpTo
  <2>. QED
    BY <2>1
<1>. QED
  BY <1>3

\* p puts the segments of t from position c + 1 on where they belong.
SortedFrom(t, p, c) ==
  \A i, j \in DOMAIN t : i < j /\ c < j => ~Before(t[p[j]], t[p[i]])

LEMMA PlaceOneMore ==
  ASSUME NEW t \in Seq(Segment), NEW p \in Bijection(DOMAIN t, DOMAIN t),
         NEW c \in 1 .. Len(t), SortedFrom(t, p, c)
  PROVE  \E q \in Bijection(DOMAIN t, DOMAIN t) : SortedFrom(t, q, c - 1)
<1>. DEFINE D == DOMAIN t
            s == [i \in D |-> t[p[i]]]
<1>1. D = 1 .. Len(t) /\ Len(t) \in Nat /\ p \in [D -> D]
      /\ (\A i, j \in D : p[i] = p[j] => i = j) /\ (\A j \in D : \E i \in D : p[i] = j)
  BY IsBijection
<1>2. s \in [1 .. Len(t) -> Segment]
  BY <1>1, Element
<1>3. PICK m \in 1 .. c : Greatest(s, c, m)
  <2>. HIDE DEF s
  <2>. QED
    BY <1>1, <1>2, GreatestExists
<1>. DEFINE swap(i) == IF i = m THEN c ELSE IF i = c THEN m ELSE i
            q == [i \in D |-> p[swap(i)]]
<1>4. m \in D /\ c \in D /\ m <= c
  BY <1>1, <1>3
<1>5. \A i \in D : swap(i) \in D /\ swap(swap(i)) = i
  BY <1>4
<1>6. q \in [D -> D] /\ \A i \in D : q[i] = p[swap(i)]
  BY <1>1, <1>5
<1>. HIDE DEF q, D
<1>7. q \in Bijection(D, D)
  <2>. HIDE DEF swap
  <2>1. \A i, j \in D : q[i] = q[j] => i = j
    <3>1. ASSUME NEW i \in D, NEW j \in D, q[i] = q[j]
          PROVE  i = j
      <4>1. p[swap(i)] = p[swap(j)] /\ swap(i) \in D /\ swap(j) \in D
        BY <1>5, <1>6, <3>1
      <4>2. swap(i) = swap(j)
        BY <1>1, <4>1
      <4>3. swap(swap(i)) = swap(swap(j))
        BY <4>2
      <4>. QED
        BY <1>5, <4>3
    <3>. QED
      BY <3>1
  <2>2. \A j \in D : \E i \in D : q[i] = j
    <3>1. ASSUME NEW j \in D
          PROVE  \E i \in D : q[i] = j
      <4>1. PICK l \in D : p[l] = j
        BY <1>1
      <4>2. swap(l) \in D /\ q[swap(l)] = p[swap(swap(l))] /\ swap(swap(l)) = l
        BY <1>5, <1>6
      <4>. QED
        BY <4>1, <4>2
    <3>. QED
      BY <3>1
  <2>. QED
    BY <1>6, <2>1, <2>2, IsBijection
<1>8. ASSUME NEW i \in D, NEW j \in D, i < j, c - 1 < j
      PROVE  ~Before(t[q[j]], t[q[i]])
  <2>0. i \in Nat /\ j \in Nat /\ c \in Nat /\ m \in Nat /\ m >= 1 /\ i >= 1
    BY <1>1, <1>3
  <2>1. s[swap(i)] = t[q[i]] /\ s[swap(j)] = t[q[j]]
    <3>. HIDE DEF swap
    <3>. QED
      BY <1>5, <1>6
  <2>2. CASE c < j
    <3>1. swap(j) = j /\ swap(i) < j /\ swap(i) \in D
      BY <1>4, <1>5, <1>8, <2>0, <2>2
    <3>2. ~Before(t[p[j]], t[p[swap(i)]])
      <4>. HIDE DEF swap
      <4>. QED
        BY <2>2, <3>1 DEF SortedFrom, D
    <3>. QED
      BY <1>6, <3>1, <3>2
  <2>3. CASE j = c
    <3>1. swap(j) = m /\ swap(i) \in 1 .. c
      BY <1>4, <1>8, <2>0, <2>3
    <3>2. ~Before(s[m], s[swap(i)])
      <4>. HIDE DEF swap, s
      <4>. QED
        BY <1>3, <3>1 DEF Greatest
    <3>. QED
      BY <2>1, <3>1, <3>2
  <2>. QED
    BY <1>8, <2>0, <2>2, <2>3
<1>9. SortedFrom(t, q, c - 1)
  BY <1>8 DEF SortedFrom, D
<1>. QED
  BY <1>7, <1>9 DEF D

LEMMA SortingPermutation ==
  ASSUME NEW t \in Seq(Segment)
  PROVE  \E p \in Bijection(DOMAIN t, DOMAIN t) :
           \A i, j \in DOMAIN t : i < j => ~Before(t[p[j]], t[p[i]])
<1>. DEFINE D == DOMAIN t
            n == Len(t)
            S == {k \in 0 .. n : \E p \in Bijection(D, D) : SortedFrom(t, p, n - k)}
<1>1. n \in Nat /\ D = 1 .. n
  OBVIOUS
<1>2. 0 \in S
  <2>. DEFINE id == [i \in D |-> i]
  <2>1. id \in Bijection(D, D)
    <3>1. id \in [D -> D] /\ \A i \in D : id[i] = i
      OBVIOUS
    <3>. HIDE DEF id, D
    <3>. QED
      BY <3>1, IsBijection
  <2>2. SortedFrom(t, id, n - 0)
    BY <1>1 DEF SortedFrom
  <2>. HIDE DEF id
  <2>. QED
    BY <1>1, <2>1, <2>2
<1>3. ASSUME NEW k \in 0 .. n - 1, k \in S
      PROVE  k + 1 \in S
  <2>1. PICK p \in Bijection(D, D) : SortedFrom(t, p, n - k)
    BY <1>3
  <2>2. n - k \in 1 .. Len(t) /\ (n - k) - 1 = n - (k + 1) /\ k + 1 \in 0 .. n
    BY <1>1
  <2>3. \E q \in Bijection(D, D) : SortedFrom(t, q, (n - k) - 1)
    BY <2>1, <2>2, PlaceOneMore
  <2>. QED
    BY <2>2, <2>3
<1>4. n \in S
  <2>. HIDE DEF S, n
  <2>1. 0 .. n \subseteq S
    BY <1>1, <1>2, <1>3, UpTo
  <2>. QED
    BY <1>1, <2>1
<1>5. PICK p \in Bijection(D, D) : SortedFrom(t, p, n - n)
  BY <1>4
<1>6. \A j \in D : n - n < j
  BY <1>1
<1>. QED
  BY <1>5, <1>6 DEF SortedFrom

\* sort returns the segments of its argument, each as often, in order.
LEMMA SortExact ==
  ASSUME NEW t \in Seq(Segment)
  PROVE  /\ sort(t) \in Seq(Segment)
         /\ Sorted(sort(t))
         /\ ToSet(sort(t)) = ToSet(t)
         /\ KeysDiffer(t) => KeysDiffer(sort(t))
         /\ OneValuePerKey(t) => OneValuePerKey(sort(t))
<1>. DEFINE D == DOMAIN t
            Sorts(x) == \A i, j \in D : i < j => ~Before(t[x[j]], t[x[i]])
            p == CHOOSE x \in Bijection(D, D) : Sorts(x)
            s == sort(t)
<1>1. p \in Bijection(D, D) /\ Sorts(p)
  <2>1. \E x \in Bijection(D, D) : Sorts(x)
    BY SortingPermutation
  <2>. HIDE DEF Sorts, D
  <2>. QED
    BY <2>1
<1>2. s = [i \in D |-> t[p[i]]]
  BY DEF sort
<1>. HIDE DEF p, s
<1>3. p \in [D -> D] /\ (\A i, j \in D : p[i] = p[j] => i = j)
      /\ (\A j \in D : \E i \in D : p[i] = j)
  BY <1>1, IsBijection
<1>4. D = 1 .. Len(t) /\ Len(t) \in Nat /\ \A i \in D : t[i] \in Segment
  BY Element
<1>5. s \in Seq(Segment) /\ DOMAIN s = D /\ \A i \in D : s[i] = t[p[i]]
  <2>. HIDE DEF D
  <2>1. \A i \in D : t[p[i]] \in Segment
    BY <1>3, <1>4
  <2>. QED
    BY <1>2, <1>4, <2>1
<1>6. Sorted(s)
  BY <1>1, <1>5 DEF Sorted
<1>7. ToSet(s) = ToSet(t)
  <2>1. ToSet(s) \subseteq ToSet(t)
    BY <1>3, <1>5 DEF ToSet
  <2>2. ToSet(t) \subseteq ToSet(s)
    BY <1>3, <1>5 DEF ToSet
  <2>. QED
    BY <2>1, <2>2
<1>8. KeysDiffer(t) => KeysDiffer(s)
  <2>1. ASSUME KeysDiffer(t), NEW i \in D, NEW j \in D, s[i][1] = s[j][1]
        PROVE  i = j
    <3>1. p[i] \in D /\ p[j] \in D /\ t[p[i]][1] = t[p[j]][1]
      BY <1>3, <1>5, <2>1
    <3>2. p[i] = p[j]
      BY <2>1, <3>1 DEF KeysDiffer
    <3>. QED
      BY <1>3, <3>2
  <2>. HIDE DEF D
  <2>. QED
    BY <1>5, <2>1 DEF KeysDiffer
<1>9. OneValuePerKey(t) => OneValuePerKey(s)
  <2>1. ASSUME OneValuePerKey(t), NEW i \in D, NEW j \in D, s[i][1] = s[j][1]
        PROVE  s[i] = s[j]
    <3>1. p[i] \in D /\ p[j] \in D /\ s[i] = t[p[i]] /\ s[j] = t[p[j]]
      BY <1>3, <1>5
    <3>. QED
      BY <2>1, <3>1 DEF OneValuePerKey
  <2>. HIDE DEF D
  <2>. QED
    BY <1>5, <2>1 DEF OneValuePerKey
<1>. QED
  BY <1>5, <1>6, <1>7, <1>8, <1>9 DEF s

-----------------------------------------------------------------------------
(* What a class asks for and what the node has *)

\* A selector of a class: its expressions, no two with one key.
LEMMA Selectors ==
  ASSUME NEW k \in Known, NEW selector \in ToSet(Allowed[k])
  PROVE  /\ selector \in Seq(Expression)
         /\ \A i, j \in DOMAIN selector : selector[i].key = selector[j].key => i = j
<1>. DEFINE E == [key : Keys, values : Seq(Nat) \ {<<>>}]
<1>1. /\ Allowed[k] \in Seq(Seq(E))
      /\ \A t \in ToSet(Allowed[k]) : \A i, j \in DOMAIN t : t[i].key = t[j].key => i = j
  BY SelectionAssumption
<1>2. \A e \in E : e \in Expression
  BY SelectionAssumption DEF Expression
<1>. HIDE DEF E
<1>3. selector \in Seq(E)
  BY <1>1 DEF ToSet
<1>4. selector \in Seq(Expression)
  <2>1. \A i \in 1 .. Len(selector) : selector[i] \in Expression
    BY <1>2, <1>3, Element
  <2>2. Len(selector) \in Nat /\ selector = [i \in 1 .. Len(selector) |-> selector[i]]
    BY <1>3
  <2>. QED
    BY <2>1, <2>2
<1>. QED
  BY <1>1, <1>4

LEMMA TermKeysDiffer ==
  ASSUME NEW selector, \A i, j \in DOMAIN selector : selector[i].key = selector[j].key => i = j,
         selector \in Seq(Expression), NEW t \in Terms(selector, Len(selector))
  PROVE  t \in Seq(Segment) /\ KeysDiffer(t)
<1>1. /\ t \in Seq(Segment) /\ Len(t) = Len(selector)
      /\ \A m \in 1 .. Len(selector) : t[m][1] = selector[m].key
  BY DEF Terms, Term
<1>2. DOMAIN t = DOMAIN selector /\ DOMAIN selector = 1 .. Len(selector)
  BY <1>1
<1>. QED
  BY <1>1, <1>2 DEF KeysDiffer

LEMMA FlattenExact ==
  ASSUME NEW allowed, \A selector \in ToSet(allowed) : selector \in Seq(Expression)
  PROVE  \A t : t \in flatten(allowed) <=>
           \E selector \in ToSet(allowed) :
             selector # <<>> /\ \E u \in Terms(selector, Len(selector)) : t = sort(u)
<1>1. ASSUME NEW u
      PROVE  (\E selector \in ToSet(allowed) : u \in TermsOf(selector)[Len(selector)]) <=>
               \E selector \in ToSet(allowed) :
                 selector # <<>> /\ u \in Terms(selector, Len(selector))
  BY TermsOfExact
<1>. QED
  BY <1>1 DEF flatten

\* What a list of registered keys says of the node's labels.
LEMMA NodeTerm ==
  ASSUME NEW keys \in Seq(Keys), labels \in [Keys -> Values \cup {None}], ~isMissingKey(keys)
  PROVE  LET node == getTopologyFromNode(keys) IN
         /\ node \in Seq(Segment) /\ Sorted(node) /\ OneValuePerKey(node)
         /\ \A s : s \in ToSet(node) <=> \E x \in ToSet(keys) : s = <<x, labels[x]>>
<1>. DEFINE raw == [i \in DOMAIN keys |-> <<keys[i], labels[keys[i]]>>]
<1>1. \A i \in 1 .. Len(keys) : keys[i] \in Keys
  BY Element
<1>2. ASSUME NEW i \in 1 .. Len(keys)
      PROVE  <<keys[i], labels[keys[i]]>> \in Segment
  <2>1. keys[i] \in Keys /\ keys[i] \in ToSet(keys)
    BY <1>1 DEF ToSet
  <2>2. labels[keys[i]] \in Values
    BY <2>1 DEF isMissingKey
  <2>. QED
    BY <2>1, <2>2, SelectionAssumption DEF Segment
<1>3. Len(keys) \in Nat /\ DOMAIN keys = 1 .. Len(keys)
  OBVIOUS
<1>4. raw \in Seq(Segment) /\ DOMAIN raw = DOMAIN keys
      /\ \A i \in DOMAIN keys : raw[i] = <<keys[i], labels[keys[i]]>>
  <2>1. raw \in [1 .. Len(keys) -> Segment]
    BY <1>2, <1>3
  <2>2. DOMAIN raw = DOMAIN keys
        /\ \A i \in DOMAIN keys : raw[i] = <<keys[i], labels[keys[i]]>>
    OBVIOUS
  <2>. HIDE DEF raw
  <2>3. raw \in Seq(Segment)
    BY <1>3, <2>1
  <2>. QED
    BY <2>2, <2>3
<1>5. getTopologyFromNode(keys) = sort(raw)
  BY DEF getTopologyFromNode
<1>. HIDE DEF raw
<1>6. OneValuePerKey(raw)
  BY SMTT(30), <1>4 DEF OneValuePerKey
<1>7. ASSUME NEW s
      PROVE  s \in ToSet(raw) <=> \E x \in ToSet(keys) : s = <<x, labels[x]>>
  <2>1. s \in ToSet(raw) <=> \E i \in DOMAIN keys : s = <<keys[i], labels[keys[i]]>>
    BY <1>4 DEF ToSet
  <2>2. \A x : x \in ToSet(keys) <=> \E i \in DOMAIN keys : x = keys[i]
    BY DEF ToSet
  <2>. QED
    BY <2>1, <2>2
<1>. QED
  BY <1>4, <1>5, <1>6, <1>7, SortExact

\* The conjunct of Served that speaks of allowedTopologies, for any registered keys.
Covered(k, keys) ==
  \E t \in ToSet(Allowed[k]) :
    /\ t # <<>>
    /\ \A e \in ToSet(t) : e.key \in ToSet(keys) /\ labels[e.key] \in ToSet(e.values)

\* Flattening, sorting and the one pass find a term exactly when one holds of the node.
LEMMA TopologyDecided ==
  ASSUME NEW k \in Known, NEW keys \in Seq(Keys),
         labels \in [Keys -> Values \cup {None}], ~isMissingKey(keys)
  PROVE  (\E t \in flatten(Allowed[k]) : subset(t, getTopologyFromNode(keys)))
           <=> Covered(k, keys)
<1>. DEFINE node == getTopologyFromNode(keys)
<1>1. /\ node \in Seq(Segment) /\ Sorted(node) /\ OneValuePerKey(node)
      /\ \A s : s \in ToSet(node) <=> \E x \in ToSet(keys) : s = <<x, labels[x]>>
  BY NodeTerm
<1>. HIDE DEF node
<1>2. \A t : t \in flatten(Allowed[k]) <=>
        \E selector \in ToSet(Allowed[k]) :
          selector # <<>> /\ \E u \in Terms(selector, Len(selector)) : t = sort(u)
  <2>1. \A selector \in ToSet(Allowed[k]) : selector \in Seq(Expression)
    BY Selectors
  <2>. QED
    BY <2>1, FlattenExact
<1>3. ASSUME NEW selector \in ToSet(Allowed[k]), NEW u \in Terms(selector, Len(selector))
      PROVE  subset(sort(u), node) <=>
               \A m \in 1 .. Len(selector) :
                 selector[m].key \in ToSet(keys) /\ u[m][2] = labels[selector[m].key]
  <2>1. u \in Seq(Segment) /\ KeysDiffer(u)
    BY Selectors, TermKeysDiffer
  <2>2. subset(sort(u), node) <=> ToSet(u) \subseteq ToSet(node)
    <3>1. /\ sort(u) \in Seq(Segment) /\ Sorted(sort(u)) /\ KeysDiffer(sort(u))
          /\ ToSet(sort(u)) = ToSet(u)
      BY <2>1, SortExact
    <3>. QED
      BY <1>1, <3>1, SubsetExact
  <2>3. ASSUME NEW m \in 1 .. Len(selector)
        PROVE  /\ u[m] \in ToSet(u)
               /\ u[m] \in ToSet(node) <=> /\ selector[m].key \in ToSet(keys)
                                           /\ u[m][2] = labels[selector[m].key]
    <3>1. m \in 1 .. Len(u) /\ u[m][1] = selector[m].key
      BY DEF Terms, Term
    <3>2. u[m] \in Segment
      BY <2>1, <3>1, Element
    <3>3. u[m] = <<selector[m].key, u[m][2]>>
      BY <3>1, <3>2, Pair
    <3>4. u[m] \in ToSet(u)
      BY <2>1, <3>1 DEF ToSet
    <3>5. u[m] \in ToSet(node) <=> \E x \in ToSet(keys) : u[m] = <<x, labels[x]>>
      BY <1>1
    <3>6. \A x : u[m] = <<x, labels[x]>> <=>
                   x = selector[m].key /\ u[m][2] = labels[selector[m].key]
      BY <3>3
    <3>. QED
      BY <3>4, <3>5, <3>6
  <2>4. \A s \in ToSet(u) : \E m \in 1 .. Len(selector) : s = u[m]
    BY <2>1 DEF ToSet, Terms, Term
  <2>. QED
    BY <2>2, <2>3, <2>4
<1>4. ASSUME NEW t \in flatten(Allowed[k]), subset(t, node)
      PROVE  Covered(k, keys)
  <2>1. PICK selector \in ToSet(Allowed[k]) :
          selector # <<>> /\ \E u \in Terms(selector, Len(selector)) : t = sort(u)
    BY <1>2
  <2>2. PICK u \in Terms(selector, Len(selector)) : t = sort(u)
    BY <2>1
  <2>3. \A m \in 1 .. Len(selector) :
          /\ selector[m].key \in ToSet(keys)
          /\ labels[selector[m].key] \in ToSet(selector[m].values)
    BY <1>3, <1>4, <2>2 DEF Terms, Term
  <2>4. \A e \in ToSet(selector) : \E m \in 1 .. Len(selector) : e = selector[m]
    BY Selectors DEF ToSet
  <2>. QED
    BY <2>1, <2>3, <2>4 DEF Covered
<1>5. ASSUME Covered(k, keys)
      PROVE  \E t \in flatten(Allowed[k]) : subset(t, node)
  <2>1. PICK selector \in ToSet(Allowed[k]) :
          /\ selector # <<>>
          /\ \A e \in ToSet(selector) :
               e.key \in ToSet(keys) /\ labels[e.key] \in ToSet(e.values)
    BY <1>5 DEF Covered
  <2>. DEFINE n == Len(selector)
              u == [m \in 1 .. n |-> <<selector[m].key, labels[selector[m].key]>>]
  <2>2. selector \in Seq(Expression) /\ n \in Nat
    BY Selectors
  <2>3. ASSUME NEW m \in 1 .. n
        PROVE  /\ selector[m].key \in ToSet(keys)
               /\ labels[selector[m].key] \in ToSet(selector[m].values)
               /\ <<selector[m].key, labels[selector[m].key]>> \in Segment
    <3>1. selector[m] \in ToSet(selector) /\ selector[m] \in Expression
      BY <2>2, Element DEF ToSet
    <3>2. /\ selector[m].key \in ToSet(keys)
          /\ labels[selector[m].key] \in ToSet(selector[m].values)
      BY <2>1, <3>1
    <3>. QED
      BY <3>1, <3>2, SegmentOf
  <2>4. u \in Terms(selector, n)
    <3>1. u \in Seq(Segment) /\ Len(u) = n
          /\ \A m \in 1 .. n : u[m] = <<selector[m].key, labels[selector[m].key]>>
      <4>. HIDE DEF n
      <4>1. u \in [1 .. n -> Segment]
        BY <2>3
      <4>2. \A m \in 1 .. n : u[m] = <<selector[m].key, labels[selector[m].key]>>
        OBVIOUS
      <4>. HIDE DEF u
      <4>. QED
        BY <2>2, <4>1, <4>2
    <3>. HIDE DEF u
    <3>2. ASSUME NEW m \in 1 .. n
          PROVE  u[m][1] = selector[m].key /\ u[m][2] \in ToSet(selector[m].values)
      <4>1. u[m][1] = selector[m].key /\ u[m][2] = labels[selector[m].key]
        BY <3>1
      <4>. QED
        BY <2>3, <4>1
    <3>. QED
      BY <3>1, <3>2 DEF Terms, Term
  <2>5. subset(sort(u), node)
    <3>1. \A m \in 1 .. n : u[m][2] = labels[selector[m].key]
      OBVIOUS
    <3>. HIDE DEF u
    <3>. QED
      BY <1>3, <2>3, <2>4, <3>1
  <2>6. sort(u) \in flatten(Allowed[k])
    <3>. HIDE DEF u
    <3>. QED
      BY <1>2, <2>1, <2>4
  <2>. QED
    BY <2>5, <2>6
<1>6. (\E t \in flatten(Allowed[k]) : subset(t, node)) <=> Covered(k, keys)
  BY <1>4, <1>5
<1>. QED
  BY <1>6 DEF node

-----------------------------------------------------------------------------
(* The choice of a class *)

LEMMA MinExists ==
  ASSUME NEW n \in Nat, NEW S \in SUBSET (1 .. n), S # {}
  PROVE  Min(S) \in S /\ \A i \in S : Min(S) <= i
<1>1. S \in SUBSET Nat
  OBVIOUS
<1>2. \E x \in S : \A y \in S : x <= y
  BY <1>1, Smallest
<1>. QED
  BY <1>2 DEF Min

LEMMA RegisteredKeys ==
  ASSUME TypeOK, csiNode # None, NEW k \in Known
  PROVE  /\ getTopologyKeys(Driver[k]) \in Seq(Keys)
         /\ csiNode[Driver[k]] = None => getTopologyKeys(Driver[k]) = <<>>
         /\ csiNode[Driver[k]] # None => getTopologyKeys(Driver[k]) = csiNode[Driver[k]]
<1>1. Driver[k] \in Drivers
  BY DEF Drivers
<1>2. csiNode[Driver[k]] \in KeyLists \cup {None} /\ KeyLists \subseteq Seq(Keys)
  BY <1>1, SelectionAssumption DEF TypeOK
<1>. QED
  BY <1>2 DEF getTopologyKeys

\* What the comparison of the terms decides, with or without registered keys.
LEMMA AcceptsExact ==
  ASSUME TypeOK, csiNode # None, NEW k \in Known
  PROVE  TopologyAccepts(k) <=>
           \/ Allowed[k] = <<>>
           \/ /\ ~isMissingKey(getTopologyKeys(Driver[k]))
              /\ Covered(k, getTopologyKeys(Driver[k]))
<1>1. getTopologyKeys(Driver[k]) \in Seq(Keys) /\ labels \in [Keys -> Values \cup {None}]
  BY RegisteredKeys DEF TypeOK
<1>. QED
  BY <1>1, TopologyDecided DEF TopologyAccepts

LEMMA NothingCovered ==
  ASSUME NEW k \in Known
  PROVE  ~Covered(k, <<>>)
<1>1. ASSUME NEW selector \in ToSet(Allowed[k]), selector # <<>>
      PROVE  \E e \in ToSet(selector) : e.key \notin ToSet(<<>>)
  <2>1. selector \in Seq(Expression)
    BY Selectors
  <2>2. 1 \in DOMAIN selector
    BY <1>1, <2>1
  <2>3. selector[1] \in ToSet(selector)
    BY <2>2 DEF ToSet
  <2>4. ToSet(<<>>) = {}
    BY DEF ToSet
  <2>. QED
    BY <2>3, <2>4
<1>. QED
  BY <1>1 DEF Covered

LEMMA ServedAccepts ==
  ASSUME TypeOK, csiNode # None, NEW k \in Known, csiNode[Driver[k]] # None
  PROVE  TopologyAccepts(k) <=> Served(k)
<1>1. getTopologyKeys(Driver[k]) = csiNode[Driver[k]]
  BY RegisteredKeys
<1>2. TopologyAccepts(k) <=>
        \/ Allowed[k] = <<>>
        \/ ~isMissingKey(csiNode[Driver[k]]) /\ Covered(k, csiNode[Driver[k]])
  BY <1>1, AcceptsExact
<1>. QED
  BY <1>2 DEF Served, Covered, isMissingKey

LEMMA AcceptsLocated ==
  ASSUME TypeOK, csiNode # None, NEW k \in Known, TopologyAccepts(k)
  PROVE  Located(k)
BY AcceptsExact DEF Located, Covered

\* The type invariant.
LEMMA TypeInit == Init => TypeOK
BY DEF Init, TypeOK

LEMMA TypeStep == TypeOK /\ [Next]_vars => TypeOK'
<1>. SUFFICES ASSUME TypeOK, [Next]_vars PROVE TypeOK'
  OBVIOUS
<1>1. ASSUME NEW k \in Known, ToggleClass(k) PROVE TypeOK'
  BY <1>1 DEF ToggleClass, TypeOK
<1>2. ASSUME NEW d \in Drivers, ToggleCSIDriver(d) PROVE TypeOK'
  BY <1>2 DEF ToggleCSIDriver, TypeOK
<1>3. ASSUME NEW d \in Drivers, Unregister(d) PROVE TypeOK'
  BY <1>3 DEF Unregister, TypeOK
<1>4. ASSUME NEW x \in Keys, NEW y \in Values \cup {None}, SetLabel(x, y) PROVE TypeOK'
  BY <1>4 DEF SetLabel, TypeOK
<1>5. CASE CreateCSINode
  BY <1>5 DEF CreateCSINode, TypeOK
<1>6. CASE DeleteCSINode
  BY <1>6 DEF DeleteCSINode, TypeOK
<1>7. ASSUME NEW d \in Drivers, NEW keys \in KeyLists, Register(d, keys) PROVE TypeOK'
  BY <1>7 DEF Register, TypeOK
<1>8. CASE UNCHANGED vars
  BY <1>8 DEF vars, TypeOK
<1>. QED
  BY <1>1, <1>2, <1>3, <1>4, <1>5, <1>6, <1>7, <1>8 DEF Next

\* The variables range over the objects the API server can hold.
LEMMA SelectionTypeCorrect == Spec => []TypeOK
BY TypeInit, TypeStep, PTL DEF Spec

\* topology.go: with the driver registered, flattening, sorting and the one-pass
\* comparison accept the node exactly when its labels agree with some term.
THEOREM TopologyDecidesService == Spec => []TopologyExact
<1>1. TypeOK => TopologyExact
  BY ServedAccepts DEF TopologyExact
<1>. QED
  BY <1>1, SelectionTypeCorrect, PTL

Good == {i \in DOMAIN Names : csiNode # None /\ Accepts(Names[i])}

LEMMA NamesKnown ==
  /\ Len(Names) \in Nat /\ DOMAIN Names = 1 .. Len(Names)
  /\ \A i \in DOMAIN Names : Names[i] \in Known /\ Names[i] # None
<1>1. Names \in Seq(Known) /\ None \notin Known
  BY SelectionAssumption
<1>. QED
  BY <1>1, Element

LEMMA Chosen ==
  /\ Good = {} => getStorageClassFromNode = None
  /\ Good # {} => /\ Min(Good) \in Good /\ \A i \in Good : Min(Good) <= i
                  /\ getStorageClassFromNode = Names[Min(Good)]
                  /\ getStorageClassFromNode # None
<1>1. Good \in SUBSET (1 .. Len(Names))
  BY NamesKnown DEF Good
<1>2. getStorageClassFromNode = IF Good = {} THEN None ELSE Names[Min(Good)]
  BY DEF getStorageClassFromNode, Good
<1>3. Good # {} => Min(Good) \in Good /\ \A i \in Good : Min(Good) <= i
  BY <1>1, NamesKnown, MinExists
<1>4. \A i \in Good : Names[i] # None
  BY <1>1, NamesKnown
<1>. QED
  BY <1>2, <1>3, <1>4

\* README.md:54: no class before the chosen one could have served the node, and the
\* chosen one can be had there.
THEOREM FirstServingClassChosen == Spec => []FirstServingClass
<1>1. ASSUME TypeOK, csiNode # None
      PROVE  LET r == getStorageClassFromNode IN
             /\ \A i \in DOMAIN Names :
                  Names[i] \in classes /\ Served(Names[i]) => \E j \in 1 .. i : Names[j] = r
             /\ r # None => /\ r \in classes
                            /\ Located(r)
                            /\ Driver[r] \in csiDrivers => csiNode[Driver[r]] # None
  <2>1. ASSUME NEW i \in DOMAIN Names, Names[i] \in classes, Served(Names[i])
        PROVE  \E j \in 1 .. i : Names[j] = getStorageClassFromNode
    <3>1. Names[i] \in Known /\ csiNode[Driver[Names[i]]] # None
      BY <2>1, NamesKnown DEF Served
    <3>2. TopologyAccepts(Names[i])
      BY <1>1, <2>1, <3>1, ServedAccepts
    <3>3. i \in Good
      BY <1>1, <2>1, <3>1, <3>2 DEF Good, Accepts, DriverAccepts
    <3>4. Min(Good) \in Good /\ Min(Good) <= i /\ getStorageClassFromNode = Names[Min(Good)]
      BY <3>3, Chosen
    <3>5. Min(Good) \in 1 .. Len(Names) /\ i \in 1 .. Len(Names)
      BY <3>3, <3>4, NamesKnown DEF Good
    <3>. QED
      BY <3>4, <3>5, NamesKnown
  <2>2. ASSUME getStorageClassFromNode # None
        PROVE  /\ getStorageClassFromNode \in classes
               /\ Located(getStorageClassFromNode)
               /\ Driver[getStorageClassFromNode] \in csiDrivers =>
                    csiNode[Driver[getStorageClassFromNode]] # None
    <3>1. PICK i \in Good : getStorageClassFromNode = Names[i]
      BY <2>2, Chosen
    <3>2. Names[i] \in Known /\ Accepts(Names[i])
      BY NamesKnown DEF Good
    <3>3. Located(Names[i])
      BY <1>1, <3>2, AcceptsLocated DEF Accepts
    <3>. QED
      BY <3>1, <3>2, <3>3 DEF Accepts, DriverAccepts
  <2>. QED
    BY <2>1, <2>2
<1>2. TypeOK => FirstServingClass
  BY <1>1 DEF FirstServingClass
<1>. QED
  BY <1>2, SelectionTypeCorrect, PTL

\* A step that only registers keys for a driver leaves every accepted class accepted.
LEMMA RegisterKeeps ==
  ASSUME TypeOK, TypeOK', NEW d \in Drivers, NEW keys \in KeyLists, Register(d, keys),
         NEW k \in Known, Accepts(k)
  PROVE  csiNode' # None /\ Accepts(k)'
<1>1. /\ csiNode # None /\ csiNode[d] = None /\ csiNode \in [Drivers -> KeyLists \cup {None}]
      /\ csiNode' = [csiNode EXCEPT ![d] = keys]
      /\ classes' = classes /\ csiDrivers' = csiDrivers /\ labels' = labels
      /\ keys # None /\ Driver[k] \in Drivers
  BY SelectionAssumption DEF Register, TypeOK, Drivers
<1>2. csiNode' \in [Drivers -> KeyLists \cup {None}] /\ csiNode' # None
  <2>1. csiNode' \in [Drivers -> KeyLists \cup {None}]
    BY <1>1
  <2>. QED
    BY <2>1, SelectionAssumption
<1>3. csiNode'[Driver[k]] = IF Driver[k] = d THEN keys ELSE csiNode[Driver[k]]
  BY <1>1
<1>4. TopologyAccepts(k)'
  <2>1. CASE Driver[k] = d
    <3>1. getTopologyKeys(Driver[k]) = <<>>
      BY <1>1, <2>1, RegisteredKeys
    <3>2. Allowed[k] = <<>>
      BY <1>1, <3>1, AcceptsExact, NothingCovered DEF Accepts
    <3>. QED
      BY <3>2 DEF TopologyAccepts
  <2>2. CASE Driver[k] # d
    <3>1. csiNode'[Driver[k]] = csiNode[Driver[k]]
      BY <1>3, <2>2
    <3>2. TopologyAccepts(k)
      BY DEF Accepts
    <3>. QED
      BY <1>1, <3>1, <3>2 DEF TopologyAccepts, getTopologyKeys, isMissingKey, getTopologyFromNode
  <2>. QED
    BY <2>1, <2>2
<1>5. DriverAccepts(k)'
  BY <1>1, <1>3 DEF Accepts, DriverAccepts
<1>. QED
  BY <1>1, <1>2, <1>4, <1>5 DEF Accepts

\* A driver that comes up keeps the choice or moves it to an earlier class.
THEOREM RegistrationsImprove == Spec => RegistrationImproves
<1>1. ASSUME TypeOK, TypeOK', NEW d \in Drivers, NEW keys \in KeyLists, Register(d, keys),
             getStorageClassFromNode # None
      PROVE  \E i, j \in DOMAIN Names : /\ i <= j
                                        /\ Names[i] = getStorageClassFromNode'
                                        /\ Names[j] = getStorageClassFromNode
  <2>1. Good \subseteq Good'
    BY <1>1, NamesKnown, RegisterKeeps DEF Good
  <2>2. Good # {} /\ Min(Good) \in Good /\ getStorageClassFromNode = Names[Min(Good)]
    BY <1>1, Chosen
  <2>3. Good' # {} => /\ Min(Good') \in Good' /\ \A i \in Good' : Min(Good') <= i
                      /\ getStorageClassFromNode' = Names[Min(Good')]
    <3>1. Good' \in SUBSET (1 .. Len(Names))
      BY NamesKnown DEF Good
    <3>2. getStorageClassFromNode' = IF Good' = {} THEN None ELSE Names[Min(Good')]
      BY DEF getStorageClassFromNode, Good
    <3>. QED
      BY <3>1, <3>2, NamesKnown, MinExists
  <2>4. Min(Good) \in DOMAIN Names /\ Min(Good') \in DOMAIN Names /\ Min(Good') <= Min(Good)
    BY <2>1, <2>2, <2>3 DEF Good
  <2>. QED
    BY <2>1, <2>2, <2>3, <2>4
<1>2. TypeOK /\ TypeOK' =>
        (\A d \in Drivers, keys \in KeyLists :
           Register(d, keys) /\ getStorageClassFromNode # None =>
             \E i, j \in DOMAIN Names : /\ i <= j
                                        /\ Names[i] = getStorageClassFromNode'
                                        /\ Names[j] = getStorageClassFromNode)
  BY <1>1
<1>. QED
  BY <1>2, SelectionTypeCorrect, PTL DEF RegistrationImproves

=============================================================================
