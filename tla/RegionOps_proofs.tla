-------------------------- MODULE RegionOps_proofs --------------------------
(***************************************************************************)
(* What the operations of RegionOps do to the pixels of a region, for      *)
(* every region, and what holds of the region after any sequence of them.  *)
(*                                                                         *)
(* Every loop of DesktopRegion is a function that calls itself on the next *)
(* state.  The module first proves that such a loop exists and keeps an    *)
(* invariant when a measure falls at every turn (LoopExists,               *)
(* LoopInvariant), then, loop by loop, what a turn does to the spans, the  *)
(* rows or the rectangles, and with it the effect of the operation as an   *)
(* equivalence on pixels (the theorems named ...Exact).  The specification *)
(* is proved from those, one operation at a time.                          *)
(***************************************************************************)
EXTENDS RegionOps, SequenceTheorems, WellFoundedInduction, TLAPS

\* Every non-empty set of natural numbers has a least element: what induction is
\* made of below.
LEMMA LeastNat ==
  ASSUME NEW T \in SUBSET Nat, T # {}
  PROVE  \E n \in T : \A m \in T : n <= m
<1>1. PICK x \in T : \A y \in T : ~ (<<y, x>> \in OpToRel(<, Nat))
  BY NatLessThanWellFounded, WFMin, Zenon
<1>2. \A y \in T : ~ (y < x)
  BY <1>1 DEF OpToRel
<1> QED BY <1>2

Chain(S, F, s0) == {g \in [Nat -> S] : g[0] = s0 /\ \A n \in Nat : g[n + 1] = F[g[n]]}

\* A function can be iterated.
LEMMA Iterates ==
  ASSUME NEW S, NEW F \in [S -> S], NEW s0 \in S
  PROVE  Chain(S, F, s0) # {}
<1> DEFINE G(n) == {g \in [0 .. n -> S] : g[0] = s0 /\ \A k \in 0 .. n - 1 : g[k + 1] = F[g[k]]}
           Bad == {n \in Nat : G(n) = {}}
<1>1. Bad = {}
  <2> SUFFICES ASSUME Bad # {} PROVE FALSE OBVIOUS
  <2>1. PICK n \in Bad : \A m \in Bad : n <= m
    BY LeastNat
  <2>2. [k \in 0 .. 0 |-> s0] \in G(0)
    OBVIOUS
  <2>3. n # 0
    BY <2>2
  <2>4. n - 1 \in Nat /\ n - 1 \notin Bad
    BY <2>1, <2>3
  <2>5. PICK g \in G(n - 1) : TRUE
    BY <2>4
  <2> DEFINE h == [k \in 0 .. n |-> IF k = n THEN F[g[n - 1]] ELSE g[k]]
  <2>6. h \in [0 .. n -> S] BY <2>4, <2>5
  <2>7. h[0] = s0 BY <2>3, <2>5
  <2>8. ASSUME NEW k \in 0 .. n - 1 PROVE h[k + 1] = F[h[k]]
    <3>1. CASE k = n - 1 BY <3>1, <2>4
    <3>2. CASE k < n - 1 BY <3>2, <2>4, <2>5
    <3> QED BY <3>1, <3>2, <2>4
  <2>9. h \in G(n) BY <2>6, <2>7, <2>8
  <2> QED BY <2>1, <2>9
<1>2. \A n \in Nat : G(n) # {} BY <1>1
<1> DEFINE the(n) == CHOOSE g \in G(n) : TRUE
           run == [n \in Nat |-> the(n)[n]]
<1>3. ASSUME NEW n \in Nat PROVE the(n) \in G(n)
  BY <1>2, Zenon
<1>4. ASSUME NEW n \in Nat, NEW k \in 0 .. n PROVE the(n + 1)[k] = the(n)[k]
  <2> DEFINE Off == {j \in 0 .. n : the(n + 1)[j] # the(n)[j]}
  <2>1. /\ the(n)[0] = s0 /\ \A j \in 0 .. n - 1 : the(n)[j + 1] = F[the(n)[j]]
        /\ the(n + 1)[0] = s0 /\ \A j \in 0 .. n : the(n + 1)[j + 1] = F[the(n + 1)[j]]
    <3>1. n + 1 \in Nat OBVIOUS
    <3>2. the(n) \in G(n) /\ the(n + 1) \in G(n + 1) BY <1>3, <3>1, Zenon
    <3> HIDE DEF the
    <3>3. (n + 1) - 1 = n OBVIOUS
    <3> QED BY <3>2, <3>3
  <2> HIDE DEF the
  <2> SUFFICES ASSUME Off # {} PROVE FALSE OBVIOUS
  <2>2. PICK j \in Off : \A m \in Off : j <= m
    <3>1. Off \in SUBSET Nat OBVIOUS
    <3> HIDE DEF Off
    <3> QED BY <3>1, LeastNat
  <2>3. j # 0 BY <2>1, <2>2
  <2>4. j - 1 \in 0 .. n /\ j - 1 \notin Off BY <2>2, <2>3
  <2>5. the(n + 1)[j - 1] = the(n)[j - 1] BY <2>4
  <2>6. j - 1 \in 0 .. n - 1 /\ j = (j - 1) + 1 BY <2>3, <2>2
  <2>7. the(n + 1)[j] = F[the(n + 1)[j - 1]] /\ the(n)[j] = F[the(n)[j - 1]]
    BY <2>1, <2>6, <2>4
  <2> QED BY <2>5, <2>7, <2>2
<1>5. run \in [Nat -> S]
  <2> SUFFICES ASSUME NEW n \in Nat PROVE the(n)[n] \in S OBVIOUS
  <2>1. the(n) \in G(n) BY <1>3
  <2> HIDE DEF the
  <2> QED BY <2>1
<1>6. run[0] = s0
  <2>1. the(0) \in G(0)
    <3>1. 0 \in Nat OBVIOUS
    <3> QED BY <1>3, <3>1, Zenon
  <2> HIDE DEF the
  <2> QED BY <2>1
<1>7. ASSUME NEW n \in Nat PROVE run[n + 1] = F[run[n]]
  <2>1. the(n + 1) \in G(n + 1)
    <3>1. n + 1 \in Nat OBVIOUS
    <3> QED BY <1>3, <3>1, Zenon
  <2>2. the(n + 1)[n] = the(n)[n]
    <3>1. n \in 0 .. n OBVIOUS
    <3> QED BY <1>4, <3>1, Zenon
  <2> HIDE DEF the
  <2>3. the(n + 1)[n + 1] = F[the(n + 1)[n]] BY <2>1
  <2> QED BY <2>2, <2>3
<1> HIDE DEF run
<1> QED BY <1>5, <1>6, <1>7 DEF Chain

IsLoop(r, S, D, R, F) == r = [s \in S |-> IF s \in D THEN R[s] ELSE r[F[s]]]

\* A loop that runs with F until it is in D and hands out R then is a function.
LEMMA LoopExists ==
  ASSUME NEW S, NEW D, NEW R, NEW F \in [S -> S]
  PROVE  \E r : IsLoop(r, S, D, R, F)
<1> DEFINE Run(s) == Chain(S, F, s)
           Stops(g, n) == g[n] \in D /\ \A m \in 0 .. n - 1 : g[m] \notin D
           End(s) == {t \in S : \E g \in Run(s), n \in Nat : t = g[n] /\ Stops(g, n)}
           r == [s \in S |-> R[CHOOSE t : t \in End(s)]]
<1>1. ASSUME NEW s \in S, s \in D PROVE End(s) = {s}
  <2>1. PICK g : g \in Run(s)
    <3>1. Chain(S, F, s) # {} BY Iterates, Zenon
    <3> QED BY <3>1
  <2>2. Stops(g, 0) BY <1>1, <2>1 DEF Chain
  <2>3. s \in End(s) BY <2>1, <2>2 DEF Chain
  <2>4. ASSUME NEW t \in End(s) PROVE t = s
    <3>1. PICK h \in Run(s), n \in Nat : t = h[n] /\ Stops(h, n) OBVIOUS
    <3>2. n = 0
      <4> SUFFICES ASSUME n # 0 PROVE FALSE OBVIOUS
      <4>1. 0 \in 0 .. n - 1 OBVIOUS
      <4> QED BY <4>1, <3>1, <1>1 DEF Chain
    <3> QED BY <3>1, <3>2 DEF Chain
  <2> QED BY <2>3, <2>4
<1>2. ASSUME NEW s \in S, s \notin D PROVE End(s) = End(F[s])
  <2>1. ASSUME NEW t \in End(s) PROVE t \in End(F[s])
    <3>1. PICK g \in Run(s), n \in Nat : t = g[n] /\ Stops(g, n) OBVIOUS
    <3>2. n # 0 BY <1>2, <3>1 DEF Chain
    <3> DEFINE h == [k \in Nat |-> g[k + 1]]
    <3>3. h \in Run(F[s])
      <4>1. h \in [Nat -> S] BY <3>1 DEF Chain
      <4>2. h[0] = F[s] BY <3>1 DEF Chain
      <4>3. \A k \in Nat : h[k + 1] = F[h[k]] BY <3>1 DEF Chain
      <4> HIDE DEF h
      <4> QED BY <4>1, <4>2, <4>3 DEF Chain
    <3>4. n - 1 \in Nat /\ t = h[n - 1] /\ Stops(h, n - 1) BY <3>1, <3>2 DEF Chain
    <3> HIDE DEF h
    <3> QED BY <3>3, <3>4
  <2>2. ASSUME NEW t \in End(F[s]) PROVE t \in End(s)
    <3>1. PICK g \in Run(F[s]), n \in Nat : t = g[n] /\ Stops(g, n) OBVIOUS
    <3> DEFINE h == [k \in Nat |-> IF k = 0 THEN s ELSE g[k - 1]]
    <3>3. h \in Run(s)
      <4>1. h \in [Nat -> S] BY <3>1 DEF Chain
      <4>2. h[0] = s OBVIOUS
      <4>3. ASSUME NEW k \in Nat PROVE h[k + 1] = F[h[k]]
        <5>1. CASE k = 0 BY <3>1, <5>1 DEF Chain
        <5>2. CASE k # 0
          <6>1. k - 1 \in Nat /\ (k - 1) + 1 = k /\ (k + 1) - 1 = k BY <5>2
          <6>2. g[(k - 1) + 1] = F[g[k - 1]] BY <3>1, <6>1 DEF Chain
          <6>3. h[k + 1] = g[k] /\ h[k] = g[k - 1] BY <5>2, <6>1
          <6> QED BY <6>1, <6>2, <6>3
        <5> QED BY <5>1, <5>2
      <4> HIDE DEF h
      <4> QED BY <4>1, <4>2, <4>3 DEF Chain
    <3>4. n + 1 \in Nat /\ t = h[n + 1] /\ Stops(h, n + 1) BY <3>1, <1>2 DEF Chain
    <3> HIDE DEF h
    <3> QED BY <3>3, <3>4
  <2> QED BY <2>1, <2>2
<1>3. ASSUME NEW s \in S PROVE r[s] = IF s \in D THEN R[s] ELSE r[F[s]]
  <2> HIDE DEF End
  <2>1. CASE s \in D BY <2>1, <1>1
  <2>2. CASE s \notin D
    <3>1. F[s] \in S OBVIOUS
    <3>2. End(s) = End(F[s]) BY <2>2, <1>2, Zenon
    <3>3. r[s] = R[CHOOSE t : t \in End(s)] OBVIOUS
    <3>4. r[F[s]] = R[CHOOSE t : t \in End(F[s])] BY <3>1
    <3> QED BY <2>2, <3>2, <3>3, <3>4, Zenon
  <2> QED BY <2>1, <2>2
<1>4. r = [s \in S |-> IF s \in D THEN R[s] ELSE r[F[s]]]
  <2>1. r = [s \in S |-> r[s]] OBVIOUS
  <2> HIDE DEF r
  <2> QED BY <1>3, <2>1
<1> HIDE DEF r
<1> QED BY <1>4, Zenon DEF IsLoop

\* I holds of nothing but states, a turn that is not the last keeps it and makes m less,
\* and what the last one hands out is in P.
Keeps(S, D, R, F, I, m, P) ==
  /\ I \in SUBSET S /\ m \in [S -> Nat]
  /\ \A s \in I : s \in D => R[s] \in P
  /\ \A s \in I : s \notin D => F[s] \in I /\ m[F[s]] < m[s]

\* The invariant rule: from a state of I the loop hands out something in P.
LEMMA LoopInvariant ==
  ASSUME NEW S, NEW D, NEW R, NEW F, NEW r, IsLoop(r, S, D, R, F),
         NEW I, NEW m, NEW P, Keeps(S, D, R, F, I, m, P)
  PROVE  \A s \in I : r[s] \in P
<1> USE DEF Keeps
<1> DEFINE Bad == {n \in Nat : \E s \in I : m[s] = n /\ r[s] \notin P}
<1> SUFFICES ASSUME Bad # {} PROVE FALSE
  <2>1. \A s \in I : m[s] \in Nat OBVIOUS
  <2> QED BY <2>1
<1>1. PICK n \in Bad : \A k \in Bad : n <= k
  <2>1. Bad \in SUBSET Nat OBVIOUS
  <2> HIDE DEF Bad
  <2> QED BY <2>1, LeastNat
<1>2. PICK s \in I : m[s] = n /\ r[s] \notin P OBVIOUS
<1>3. r[s] = IF s \in D THEN R[s] ELSE r[F[s]]
  <2>1. s \in S OBVIOUS
  <2> QED BY <2>1 DEF IsLoop
<1>4. s \notin D BY <1>2, <1>3
<1>5. F[s] \in I /\ m[F[s]] < n /\ m[F[s]] \in Nat BY <1>2, <1>4
<1>6. r[F[s]] \notin P BY <1>2, <1>3, <1>4
<1>7. m[F[s]] \in Bad BY <1>5, <1>6
<1> QED BY <1>1, <1>5, <1>7

-----------------------------------------------------------------------------
\* Sequences, element by element.

\* What is left without the head.
LEMMA TailFacts ==
  ASSUME NEW S, NEW s \in Seq(S), s # <<>>
  PROVE  /\ Len(s) \in Nat \ {0} /\ Head(s) = s[1] /\ Head(s) \in S
         /\ Tail(s) \in Seq(S) /\ Len(Tail(s)) = Len(s) - 1
         /\ \A k \in 1 .. Len(s) - 1 : Tail(s)[k] = s[k + 1]
BY HeadTailProperties

\* One element more.
LEMMA AppendFacts ==
  ASSUME NEW S, NEW s \in Seq(S), NEW e \in S
  PROVE  /\ Append(s, e) \in Seq(S) /\ Append(s, e) # <<>>
         /\ Len(s) \in Nat /\ Len(Append(s, e)) = Len(s) + 1
         /\ \A k \in 1 .. Len(s) : Append(s, e)[k] = s[k]
         /\ Append(s, e)[Len(s) + 1] = e
BY AppendProperties

\* Two sequences, one after the other.
LEMMA ConcatFacts ==
  ASSUME NEW S, NEW s \in Seq(S), NEW t \in Seq(S)
  PROVE  /\ s \o t \in Seq(S)
         /\ Len(s) \in Nat /\ Len(t) \in Nat /\ Len(s \o t) = Len(s) + Len(t)
         /\ \A k \in 1 .. Len(s) : (s \o t)[k] = s[k]
         /\ \A k \in 1 .. Len(t) : (s \o t)[Len(s) + k] = t[k]
BY ConcatProperties

\* The elements from i to j.
LEMMA SubSeqFacts ==
  ASSUME NEW S, NEW s \in Seq(S), NEW i \in 1 .. Len(s) + 1, NEW j \in 0 .. Len(s), i <= j + 1
  PROVE  /\ SubSeq(s, i, j) \in Seq(S) /\ Len(SubSeq(s, i, j)) = j - i + 1
         /\ \A k \in 1 .. j - i + 1 : SubSeq(s, i, j)[k] = s[i + k - 1]
<1>1. \A k \in i .. j : s[k] \in S OBVIOUS
<1> QED BY <1>1, SubSeqProperties

\* The lesser and the greater of two numbers.
LEMMA MinMaxFacts ==
  ASSUME NEW x \in Int, NEW y \in Int
  PROVE  /\ Min({x, y}) = IF x <= y THEN x ELSE y
         /\ Max({x, y}) = IF x >= y THEN x ELSE y
BY DEF Min, Max

\* The least of some natural numbers.
LEMMA MinNat ==
  ASSUME NEW T \in SUBSET Nat, T # {}
  PROVE  Min(T) \in T /\ \A n \in T : Min(T) <= n
<1>1. \E n \in T : \A m \in T : n <= m BY LeastNat
<1> QED BY <1>1, Zenon DEF Min

-----------------------------------------------------------------------------
\* Spans.

Has(spans, x) == \E k \in 1 .. Len(spans) : spans[k].left <= x /\ x < spans[k].right
InSpan(span, x) == span.left <= x /\ x < span.right
LeftOf(spans, x) == \A k \in 1 .. Len(spans) : spans[k].right < x
RightOf(spans, x) == \A k \in 1 .. Len(spans) : spans[k].left > x

\* What spans are made of.
LEMMA SpansType ==
  ASSUME NEW a \in Spans
  PROVE  /\ Len(a) \in Nat /\ DOMAIN a = 1 .. Len(a)
         /\ \A k \in 1 .. Len(a) : /\ a[k] \in Span /\ a[k].left \in Int /\ a[k].right \in Int
                                   /\ a[k] = [left |-> a[k].left, right |-> a[k].right]
<1>1. Len(a) \in Nat /\ DOMAIN a = 1 .. Len(a) /\ \A k \in 1 .. Len(a) : a[k] \in Span
  BY DEF Spans
<1> QED BY <1>1 DEF Span

\* Nothing lies in no spans.
LEMMA NoSpans ==
  /\ <<>> \in Spans /\ InOrder(<<>>)
  /\ \A x \in Int : ~Has(<<>>, x) /\ LeftOf(<<>>, x) /\ RightOf(<<>>, x)
BY DEF Spans, InOrder, Has, LeftOf, RightOf

\* The first span and the others.
LEMMA SpansTail ==
  ASSUME NEW a \in Spans, a # <<>>
  PROVE  /\ Head(a) \in Span /\ Tail(a) \in Spans /\ Len(Tail(a)) = Len(a) - 1
         /\ \A x \in Int : Has(a, x) <=> InSpan(Head(a), x) \/ Has(Tail(a), x)
         /\ InOrder(a) => /\ Head(a).left < Head(a).right
                          /\ InOrder(Tail(a)) /\ RightOf(Tail(a), Head(a).right)
<1> USE TailFacts DEF Spans
<1>1. /\ Head(a) \in Span /\ Tail(a) \in Spans /\ Len(Tail(a)) = Len(a) - 1 OBVIOUS
<1>2. ASSUME NEW x \in Int, Has(a, x) PROVE InSpan(Head(a), x) \/ Has(Tail(a), x)
  <2>1. PICK k \in 1 .. Len(a) : a[k].left <= x /\ x < a[k].right BY <1>2 DEF Has
  <2>2. CASE k = 1 BY <2>1, <2>2 DEF InSpan
  <2>3. CASE k # 1
    <3>1. k - 1 \in 1 .. Len(a) - 1 /\ Tail(a)[k - 1] = a[k] BY <2>3
    <3> QED BY <2>1, <3>1 DEF Has
  <2> QED BY <2>2, <2>3
<1>3. ASSUME NEW x \in Int, InSpan(Head(a), x) \/ Has(Tail(a), x) PROVE Has(a, x)
  <2>1. CASE InSpan(Head(a), x) BY <2>1 DEF Has, InSpan
  <2>2. CASE Has(Tail(a), x)
    <3>1. PICK k \in 1 .. Len(a) - 1 : a[k + 1].left <= x /\ x < a[k + 1].right
      BY <2>2 DEF Has
    <3>2. k + 1 \in 1 .. Len(a) OBVIOUS
    <3> QED BY <3>1, <3>2 DEF Has
  <2> QED BY <1>3, <2>1, <2>2
<1>4. ASSUME InOrder(a)
      PROVE  Head(a).left < Head(a).right /\ InOrder(Tail(a)) /\ RightOf(Tail(a), Head(a).right)
  <2>1. \A k \in 1 .. Len(a) : a[k].left < a[k].right BY <1>4 DEF InOrder
  <2>2. \A j, k \in 1 .. Len(a) : j < k => a[j].right < a[k].left BY <1>4 DEF InOrder
  <2>3. InOrder(Tail(a))
    <3>1. \A k \in 1 .. Len(a) - 1 : Tail(a)[k].left < Tail(a)[k].right BY <2>1
    <3>2. ASSUME NEW j \in 1 .. Len(a) - 1, NEW k \in 1 .. Len(a) - 1, j < k
          PROVE  Tail(a)[j].right < Tail(a)[k].left
      <4>1. j + 1 \in 1 .. Len(a) /\ k + 1 \in 1 .. Len(a) /\ j + 1 < k + 1 BY <3>2
      <4> QED BY <4>1, <2>2
    <3> QED BY <3>1, <3>2 DEF InOrder
  <2> QED BY <2>1, <2>2, <2>3 DEF RightOf, Span
<1> QED BY <1>1, <1>2, <1>3, <1>4

\* A span to the right of all others.
LEMMA SpansAppend ==
  ASSUME NEW out \in Spans, NEW l \in Int, NEW r \in Int
  PROVE  LET new == Append(out, [left |-> l, right |-> r]) IN
         /\ new \in Spans /\ new # <<>>
         /\ \A x \in Int : Has(new, x) <=> Has(out, x) \/ (l <= x /\ x < r)
         /\ InOrder(out) /\ LeftOf(out, l) /\ l < r => InOrder(new)
         /\ \A x \in Int : LeftOf(out, l) /\ l <= r /\ r < x => LeftOf(new, x)
<1> DEFINE new == Append(out, [left |-> l, right |-> r])
<1>1. [left |-> l, right |-> r] \in Span BY DEF Span
<1>2. /\ new \in Spans /\ new # <<>> /\ Len(out) \in Nat /\ Len(new) = Len(out) + 1
      /\ \A k \in 1 .. Len(out) : new[k] = out[k]
      /\ new[Len(out) + 1] = [left |-> l, right |-> r]
  BY <1>1, AppendFacts DEF Spans
<1> HIDE DEF new
<1>3. \A x \in Int : Has(new, x) <=> Has(out, x) \/ (l <= x /\ x < r)
  BY <1>2 DEF Has
<1>4. \A k \in 1 .. Len(out) : out[k].left \in Int /\ out[k].right \in Int BY SpansType
<1>5. ASSUME InOrder(out), LeftOf(out, l), l < r PROVE InOrder(new)
  <2>1. /\ \A k \in 1 .. Len(out) : out[k].left < out[k].right /\ out[k].right < l
        /\ \A j, k \in 1 .. Len(out) : j < k => out[j].right < out[k].left
    BY <1>5 DEF InOrder, LeftOf
  <2>2. DOMAIN new = 1 .. Len(out) + 1 BY <1>2 DEF Spans
  <2>3. \A k \in 1 .. Len(out) + 1 : new[k].left < new[k].right BY <1>2, <1>5, <2>1
  <2>4. ASSUME NEW j \in 1 .. Len(out) + 1, NEW k \in 1 .. Len(out) + 1, j < k
        PROVE  new[j].right < new[k].left
    <3>1. j \in 1 .. Len(out) /\ new[j] = out[j] BY <2>4, <1>2
    <3>2. CASE k = Len(out) + 1 BY <3>1, <3>2, <1>2, <2>1
    <3>3. CASE k # Len(out) + 1 BY <3>1, <3>3, <1>2, <2>1, <2>4
    <3> QED BY <3>2, <3>3
  <2> QED BY <2>2, <2>3, <2>4 DEF InOrder
<1>6. ASSUME NEW x \in Int, LeftOf(out, l), l <= r, r < x PROVE LeftOf(new, x)
  <2>1. \A k \in 1 .. Len(out) : new[k].right < x BY <1>2, <1>4, <1>6 DEF LeftOf
  <2>2. new[Len(out) + 1].right < x BY <1>2, <1>6
  <2> QED BY <1>2, <2>1, <2>2 DEF LeftOf
<1> QED BY <1>2, <1>3, <1>5, <1>6 DEF new

-----------------------------------------------------------------------------
\* intersect_rows

\* The set whose first span begins first, the other one, where the first of them ends.
LeftMost(s) == IF Head(s.b).left < Head(s.a).left THEN s.b ELSE s.a
Other(s) == IF Head(s.b).left < Head(s.a).left THEN s.a ELSE s.b
NextRight(s) == IF Head(LeftMost(s)).right <= Head(Other(s)).right THEN Head(LeftMost(s)).right
                ELSE Head(Other(s)).right

\* One turn in these terms.
LEMMA IntersectSpansTurn ==
  ASSUME NEW s \in SpanWalk, s.a # <<>>, s.b # <<>>
  PROVE  /\ \/ LeftMost(s) = s.a /\ Other(s) = s.b
            \/ LeftMost(s) = s.b /\ Other(s) = s.a
         /\ LeftMost(s) \in Spans /\ Other(s) \in Spans /\ LeftMost(s) # <<>> /\ Other(s) # <<>>
         /\ Head(LeftMost(s)).left \in Int /\ Head(Other(s)).left \in Int
         /\ Head(LeftMost(s)).right \in Int /\ Head(Other(s)).right \in Int
         /\ Head(LeftMost(s)).left <= Head(Other(s)).left
         /\ Head(LeftMost(s)).right <= Head(Other(s)).left =>
              IntersectSpans(s) = [a |-> Tail(LeftMost(s)), b |-> Other(s), out |-> s.out]
         /\ ~(Head(LeftMost(s)).right <= Head(Other(s)).left) =>
              IntersectSpans(s) =
                [a |-> RestOf(LeftMost(s), NextRight(s)), b |-> RestOf(Other(s), NextRight(s)),
                 out |-> Append(s.out, [left |-> Head(Other(s)).left, right |-> NextRight(s)])]
<1>1. /\ s.a \in Spans /\ s.b \in Spans /\ s.out \in Spans BY DEF SpanWalk
<1>2. /\ Head(s.a).left \in Int /\ Head(s.a).right \in Int
      /\ Head(s.b).left \in Int /\ Head(s.b).right \in Int
  BY <1>1, SpansTail DEF Span
<1>3. /\ \/ LeftMost(s) = s.a /\ Other(s) = s.b
         \/ LeftMost(s) = s.b /\ Other(s) = s.a
      /\ Head(LeftMost(s)).left <= Head(Other(s)).left
  BY <1>2 DEF LeftMost, Other
<1>4. /\ Head(LeftMost(s)).left \in Int /\ Head(Other(s)).left \in Int
      /\ Head(LeftMost(s)).right \in Int /\ Head(Other(s)).right \in Int
  BY <1>2, <1>3
<1>5. Min({Head(LeftMost(s)).right, Head(Other(s)).right}) = NextRight(s)
  BY <1>4, MinMaxFacts DEF NextRight
<1>6. IntersectSpans(s) =
        IF Head(LeftMost(s)).right <= Head(Other(s)).left
        THEN [a |-> Tail(LeftMost(s)), b |-> Other(s), out |-> s.out]
        ELSE [a |-> RestOf(LeftMost(s), Min({Head(LeftMost(s)).right, Head(Other(s)).right})),
              b |-> RestOf(Other(s), Min({Head(LeftMost(s)).right, Head(Other(s)).right})),
              out |-> Append(s.out, [left |-> Head(Other(s)).left,
                                     right |-> Min({Head(LeftMost(s)).right, Head(Other(s)).right})])]
  BY DEF IntersectSpans, LeftMost, Other
<1> QED BY <1>1, <1>3, <1>4, <1>5, <1>6

\* How much is left of the two sets.
SpansAhead(s) == Len(s.a) + Len(s.b)

\* The fields of a walk.
LEMMA SpanWalkFields ==
  ASSUME NEW s \in SpanWalk
  PROVE  s.a \in Spans /\ s.b \in Spans /\ s.out \in Spans /\ SpansAhead(s) \in Nat
<1>1. s.a \in Spans /\ s.b \in Spans /\ s.out \in Spans BY DEF SpanWalk
<1>2. ASSUME NEW a \in Spans, NEW b \in Spans PROVE Len(a) + Len(b) \in Nat BY SpansType
<1>3. Len(s.a) + Len(s.b) \in Nat BY <1>1, <1>2, Zenon
<1> QED BY <1>1, <1>3 DEF SpansAhead

\* A walk from its fields.
LEMMA SpanWalkOf ==
  ASSUME NEW a \in Spans, NEW b \in Spans, NEW out \in Spans
  PROVE  LET s == [a |-> a, b |-> b, out |-> out] IN
         /\ s \in SpanWalk /\ s.a = a /\ s.b = b /\ s.out = out
         /\ SpansAhead(s) = Len(a) + Len(b)
<1> DEFINE s == [a |-> a, b |-> b, out |-> out]
<1>1. s \in SpanWalk /\ s.a = a /\ s.b = b /\ s.out = out BY DEF SpanWalk
<1> HIDE DEF s
<1>2. SpansAhead(s) = Len(a) + Len(b) BY <1>1, Zenon DEF SpansAhead
<1> QED BY <1>1, <1>2 DEF s

\* Every turn leaves a walk with less before it.
LEMMA IntersectSpansLess ==
  ASSUME NEW s \in SpanWalk, s.a # <<>>, s.b # <<>>
  PROVE  IntersectSpans(s) \in SpanWalk /\ SpansAhead(IntersectSpans(s)) < SpansAhead(s)
<1> DEFINE a == s.a
           b == s.b
           out == s.out
           x == LeftMost(s)
           y == Other(s)
           r == NextRight(s)
           t == IntersectSpans(s)
<1>1. (x = a /\ y = b) \/ (x = b /\ y = a) BY IntersectSpansTurn
<1>2. x \in Spans /\ y \in Spans /\ x # <<>> /\ y # <<>> BY IntersectSpansTurn
<1>3. Head(y).left \in Int /\ Head(x).right \in Int /\ Head(y).right \in Int BY IntersectSpansTurn
<1>4. Head(x).right <= Head(y).left => t = [a |-> Tail(x), b |-> y, out |-> out]
  BY IntersectSpansTurn
<1>5. ~(Head(x).right <= Head(y).left) =>
              t = [a |-> RestOf(x, r), b |-> RestOf(y, r),
                                   out |-> Append(out, [left |-> Head(y).left, right |-> r])]
  BY IntersectSpansTurn
<1>6. r = IF Head(x).right <= Head(y).right THEN Head(x).right ELSE Head(y).right BY DEF NextRight
<1>7. a \in Spans /\ b \in Spans /\ out \in Spans BY SpanWalkFields
<1>8. SpansAhead(s) = Len(a) + Len(b) BY DEF SpansAhead
<1>9. SpansAhead(s) = SpansAhead(s) /\ IntersectSpans(s) = t OBVIOUS
<1> HIDE DEF a, b, out, x, y, r, t
<1>10. Len(x) \in Nat /\ Len(y) \in Nat BY <1>2, SpansType
<1>11. SpansAhead(s) = Len(x) + Len(y) BY <1>1, <1>8, <1>10
<1>12. /\ Tail(x) \in Spans /\ Len(Tail(x)) = Len(x) - 1
       /\ Tail(y) \in Spans /\ Len(Tail(y)) = Len(y) - 1
  BY <1>2, SpansTail
<1>13. CASE Head(x).right <= Head(y).left
  <2>1. t = [a |-> Tail(x), b |-> y, out |-> out] BY <1>4, <1>13
  <2>2. t \in SpanWalk /\ SpansAhead(t) = Len(Tail(x)) + Len(y)
    <3> DEFINE tx == Tail(x)
    <3>1. tx \in Spans BY <1>12
    <3> HIDE DEF tx
    <3>2. LET w == [a |-> tx, b |-> y, out |-> out] IN
          w \in SpanWalk /\ SpansAhead(w) = Len(tx) + Len(y)
      BY <3>1, <1>2, <1>7, SpanWalkOf
    <3> QED BY <3>2, <2>1 DEF tx
  <2>3. SpansAhead(t) < SpansAhead(s)
    <3> DEFINE lx == Len(x)
               ly == Len(y)
               p == SpansAhead(t)
               q == SpansAhead(s)
    <3>1. p = Len(Tail(x)) + ly /\ Len(Tail(x)) = lx - 1 /\ lx \in Nat /\ ly \in Nat /\ q = lx + ly
      BY <2>2, <1>10, <1>11, <1>12
    <3> HIDE DEF lx, ly, p, q
    <3>2. p < q BY <3>1
    <3> QED BY <3>2 DEF p, q
  <2> QED BY <2>2, <2>3, <1>9
<1>14. CASE ~(Head(x).right <= Head(y).left)
  <2>1. Append(out, [left |-> Head(y).left, right |-> r]) \in Spans
    BY <1>3, <1>6, <1>7, SpansAppend
  <2>2. r = Head(x).right \/ r = Head(y).right BY <1>6
  <2>3. RestOf(x, r) \in Spans /\ RestOf(y, r) \in Spans
    BY <1>2, <1>12 DEF RestOf
  <2>4. t = [a |-> RestOf(x, r), b |-> RestOf(y, r),
             out |-> Append(out, [left |-> Head(y).left, right |-> r])]
    BY <1>5, <1>14
  <2> DEFINE xx == RestOf(x, r)
             yy == RestOf(y, r)
             oo == Append(out, [left |-> Head(y).left, right |-> r])
             lx == Len(x)
             ly == Len(y)
             p == SpansAhead(t)
             q == SpansAhead(s)
  <2>5. /\ Len(xx) = IF Head(x).right = r THEN lx - 1 ELSE lx
        /\ Len(yy) = IF Head(y).right = r THEN ly - 1 ELSE ly
    BY <1>12 DEF RestOf
  <2>6. t \in SpanWalk /\ p = Len(xx) + Len(yy)
    <3>1. xx \in Spans /\ yy \in Spans /\ oo \in Spans BY <2>1, <2>3
    <3>2. t = [a |-> xx, b |-> yy, out |-> oo] BY <2>4
    <3> HIDE DEF xx, yy, oo
    <3>3. LET w == [a |-> xx, b |-> yy, out |-> oo] IN
          w \in SpanWalk /\ SpansAhead(w) = Len(xx) + Len(yy)
      BY <3>1, SpanWalkOf
    <3> QED BY <3>2, <3>3
  <2>7. p < q
    <3>1. lx \in Nat /\ ly \in Nat /\ q = lx + ly BY <1>10, <1>11
    <3> DEFINE hx == Head(x).right
               hy == Head(y).right
               m == Len(xx)
               n == Len(yy)
    <3>2. /\ m = IF hx = r THEN lx - 1 ELSE lx
          /\ n = IF hy = r THEN ly - 1 ELSE ly
          /\ (r = hx \/ r = hy) /\ p = m + n
      BY <2>2, <2>5, <2>6
    <3> HIDE DEF lx, ly, p, q, hx, hy, m, n
    <3> QED BY <3>1, <3>2
  <2> QED BY <1>9, <2>6, <2>7
<1> QED BY <1>13, <1>14

\* The loop unfolds.
LEMMA IntersectingSpansLoop ==
  IsLoop(IntersectingSpans, SpanWalk, {s \in SpanWalk : s.a = <<>> \/ s.b = <<>>},
         [s \in SpanWalk |-> s.out],
         [s \in SpanWalk |-> IF s.a = <<>> \/ s.b = <<>> THEN s ELSE IntersectSpans(s)])
<1> DEFINE D == {s \in SpanWalk : s.a = <<>> \/ s.b = <<>>}
           R == [s \in SpanWalk |-> s.out]
           F == [s \in SpanWalk |-> IF s.a = <<>> \/ s.b = <<>> THEN s ELSE IntersectSpans(s)]
           Turn(r) == [s \in SpanWalk |-> IF s.a = <<>> \/ s.b = <<>> THEN s.out
                                          ELSE r[IntersectSpans(s)]]
<1>1. F \in [SpanWalk -> SpanWalk] BY IntersectSpansLess
<1>2. \A r : IsLoop(r, SpanWalk, D, R, F) <=> r = Turn(r) BY DEF IsLoop
<1>3. \E r : IsLoop(r, SpanWalk, D, R, F)
  <2> HIDE DEF D, R, F
  <2> QED BY <1>1, LoopExists, Zenon
<1>4. IntersectingSpans = Turn(IntersectingSpans)
  <2>1. \E r : r = Turn(r) BY <1>2, <1>3, Zenon
  <2> QED BY <2>1, Zenon DEF IntersectingSpans, SpanWalk
<1> QED BY <1>2, <1>4, Zenon

\* The invariant rule for it.
LEMMA IntersectingSpansInvariant ==
  ASSUME NEW I \in SUBSET SpanWalk, NEW P,
         \A s \in I : s.a = <<>> \/ s.b = <<>> => s.out \in P,
         \A s \in I : s.a # <<>> /\ s.b # <<>> => IntersectSpans(s) \in I
  PROVE  \A s \in I : IntersectingSpans[s] \in P
<1> DEFINE D == {s \in SpanWalk : s.a = <<>> \/ s.b = <<>>}
           R == [s \in SpanWalk |-> s.out]
           F == [s \in SpanWalk |-> IF s.a = <<>> \/ s.b = <<>> THEN s ELSE IntersectSpans(s)]
           m == [s \in SpanWalk |-> SpansAhead(s)]
<1>1. IsLoop(IntersectingSpans, SpanWalk, D, R, F) BY IntersectingSpansLoop
<1>2. Keeps(SpanWalk, D, R, F, I, m, P)
  <2>1. m \in [SpanWalk -> Nat] BY SpanWalkFields
  <2>2. \A s \in I : s \in D => R[s] \in P OBVIOUS
  <2>3. \A s \in I : s \notin D => F[s] \in I /\ m[F[s]] < m[s] BY IntersectSpansLess
  <2> HIDE DEF D, R, F, m
  <2> QED BY <2>1, <2>2, <2>3 DEF Keeps
<1> HIDE DEF D, R, F, m
<1> QED BY <1>1, <1>2, LoopInvariant, Zenon

\* No pixel lies before the first span, and one right of all spans' bound lies on none.
LEMMA HasFrom ==
  ASSUME NEW a \in Spans, InOrder(a), NEW x \in Int, Has(a, x)
  PROVE  a # <<>> /\ Head(a).left <= x
<1>1. a # <<>> BY NoSpans
<1>2. Head(a) \in Span /\ Tail(a) \in Spans BY <1>1, SpansTail
<1>3. Head(a).left < Head(a).right /\ RightOf(Tail(a), Head(a).right) BY <1>1, SpansTail
<1>4. InSpan(Head(a), x) \/ Has(Tail(a), x) BY <1>1, SpansTail
<1>5. ASSUME Has(Tail(a), x) PROVE Head(a).right < x
  <2>1. PICK k \in 1 .. Len(Tail(a)) : Tail(a)[k].left <= x BY <1>5 DEF Has
  <2>2. Tail(a)[k].left > Head(a).right BY <2>1, <1>3 DEF RightOf
  <2>3. Tail(a)[k].left \in Int BY <1>2, SpansType
  <2> QED BY <1>2, <2>1, <2>2, <2>3 DEF Span
<1> QED BY <1>1, <1>2, <1>3, <1>4, <1>5 DEF Span, InSpan

\* The first of spans that lie right of x does.
LEMMA RightOfHead ==
  ASSUME NEW a \in Spans, a # <<>>, NEW x \in Int, RightOf(a, x)
  PROVE  x < Head(a).left
<1>1. Len(a) \in Nat \ {0} /\ Head(a) = a[1] BY TailFacts DEF Spans
<1>2. 1 \in 1 .. Len(a) BY <1>1
<1>3. a[1].left > x /\ a[1].left \in Int BY <1>2, SpansType DEF RightOf
<1> QED BY <1>1, <1>3

\* A pixel on spans that lie right of y does.
LEMMA HasRightOf ==
  ASSUME NEW a \in Spans, NEW y \in Int, RightOf(a, y), NEW x \in Int, Has(a, x)
  PROVE  y < x
<1>1. PICK k \in 1 .. Len(a) : a[k].left <= x BY DEF Has
<1>2. a[k].left > y /\ a[k].left \in Int BY SpansType DEF RightOf
<1> QED BY <1>1, <1>2

\* What is left of spans right of r, when no more than the first of them ends there.
LEMMA RestOfFacts ==
  ASSUME NEW a \in Spans, a # <<>>, InOrder(a), NEW r \in Int, r <= Head(a).right
  PROVE  /\ RestOf(a, r) \in Spans /\ InOrder(RestOf(a, r))
         /\ Head(a).right = r /\ RestOf(a, r) # <<>> => r < Head(RestOf(a, r)).left
         /\ \A x \in Int : Has(RestOf(a, r), x) => Has(a, x)
         /\ \A x \in Int : Has(a, x) /\ r <= x => Has(RestOf(a, r), x)
<1>1. Tail(a) \in Spans /\ InOrder(Tail(a)) /\ RightOf(Tail(a), Head(a).right) BY SpansTail
<1>2. \A x \in Int : Has(a, x) <=> InSpan(Head(a), x) \/ Has(Tail(a), x) BY SpansTail
<1>3. CASE Head(a).right = r
  <2>1. RestOf(a, r) = Tail(a) BY <1>3 DEF RestOf
  <2>2. Tail(a) # <<>> => r < Head(Tail(a)).left BY <1>1, <1>3, RightOfHead
  <2> QED BY <1>1, <1>2, <1>3, <2>1, <2>2 DEF InSpan
<1>4. CASE Head(a).right # r
  <2>1. RestOf(a, r) = a BY <1>4 DEF RestOf
  <2> QED BY <1>4, <2>1
<1> QED BY <1>3, <1>4

\* A bound further right.
LEMMA LeftOfMore ==
  ASSUME NEW out \in Spans, NEW x \in Int, NEW y \in Int, x <= y, LeftOf(out, x)
  PROVE  LeftOf(out, y)
<1>1. \A k \in 1 .. Len(out) : out[k].right \in Int BY SpansType
<1> QED BY <1>1 DEF LeftOf

\* The walk of intersect_rows: everything is in order, and the spans handed out lie
\* left of one of the two sets that are left.
SpansInOrder(a, b, out) ==
  /\ InOrder(a) /\ InOrder(b) /\ InOrder(out)
  /\ a # <<>> /\ b # <<>> => LeftOf(out, Head(a).left) \/ LeftOf(out, Head(b).left)
Common(a, b, out, x) == Has(out, x) \/ (Has(a, x) /\ Has(b, x))

\* A turn that drops a span which ends before the other one begins.
LEMMA DropSpan ==
  ASSUME NEW x \in Spans, NEW y \in Spans, NEW out \in Spans, x # <<>>, y # <<>>,
         SpansInOrder(x, y, out), Head(x).left <= Head(y).left, Head(x).right <= Head(y).left
  PROVE  /\ SpansInOrder(Tail(x), y, out)
         /\ \A v \in Int : Common(Tail(x), y, out, v) <=> Common(x, y, out, v)
<1>1. Head(x) \in Span /\ Tail(x) \in Spans /\ InOrder(Tail(x)) BY SpansTail DEF SpansInOrder
<1>2. Head(y) \in Span BY SpansTail
<1>3. /\ Head(x).left \in Int /\ Head(x).right \in Int /\ Head(y).left \in Int
  BY <1>1, <1>2 DEF Span
<1>4. LeftOf(out, Head(y).left) BY <1>3, LeftOfMore DEF SpansInOrder
<1>5. SpansInOrder(Tail(x), y, out) BY <1>1, <1>4 DEF SpansInOrder
<1>6. ASSUME NEW v \in Int PROVE Common(Tail(x), y, out, v) <=> Common(x, y, out, v)
  <2>1. Has(x, v) <=> InSpan(Head(x), v) \/ Has(Tail(x), v) BY SpansTail
  <2>2. Has(y, v) => Head(y).left <= v BY HasFrom DEF SpansInOrder
  <2>3. ~(InSpan(Head(x), v) /\ Has(y, v)) BY <1>3, <2>2 DEF InSpan
  <2> QED BY <2>1, <2>3 DEF Common
<1> QED BY <1>5, <1>6

\* A turn that hands out what two spans have in common.
LEMMA CutSpan ==
  ASSUME NEW x \in Spans, NEW y \in Spans, NEW out \in Spans, x # <<>>, y # <<>>,
         SpansInOrder(x, y, out), Head(x).left <= Head(y).left, Head(y).left < Head(x).right,
         NEW r \in Int, r = Head(x).right \/ r = Head(y).right,
         r <= Head(x).right, r <= Head(y).right
  PROVE  LET new == Append(out, [left |-> Head(y).left, right |-> r]) IN
         /\ new \in Spans /\ SpansInOrder(RestOf(x, r), RestOf(y, r), new)
         /\ \A v \in Int : Common(RestOf(x, r), RestOf(y, r), new, v) <=> Common(x, y, out, v)
<1> DEFINE l == Head(y).left
           new == Append(out, [left |-> l, right |-> r])
           xx == RestOf(x, r)
           yy == RestOf(y, r)
<1>0. InOrder(x) /\ InOrder(y) /\ InOrder(out) BY DEF SpansInOrder
<1>1. /\ Head(x).left \in Int /\ Head(x).right \in Int /\ l \in Int /\ Head(y).right \in Int
      /\ l < Head(y).right
  BY <1>0, SpansTail DEF Span
<1>2. LeftOf(out, l) BY <1>1, LeftOfMore DEF SpansInOrder
<1>3. l < r BY <1>1
<1>4. /\ xx \in Spans /\ InOrder(xx)
      /\ Head(x).right = r /\ xx # <<>> => r < Head(xx).left
      /\ \A v \in Int : Has(xx, v) => Has(x, v)
      /\ \A v \in Int : Has(x, v) /\ r <= v => Has(xx, v)
  BY <1>0, RestOfFacts
<1>5. /\ yy \in Spans /\ InOrder(yy)
      /\ Head(y).right = r /\ yy # <<>> => r < Head(yy).left
      /\ \A v \in Int : Has(yy, v) => Has(y, v)
      /\ \A v \in Int : Has(y, v) /\ r <= v => Has(yy, v)
  BY <1>0, RestOfFacts
<1>6. /\ new \in Spans /\ InOrder(new)
      /\ \A v \in Int : Has(new, v) <=> Has(out, v) \/ (l <= v /\ v < r)
      /\ \A v \in Int : r < v => LeftOf(new, v)
  BY <1>0, <1>1, <1>2, <1>3, SpansAppend
<1>7. /\ xx # <<>> => Head(xx).left \in Int
      /\ yy # <<>> => Head(yy).left \in Int
  <2> HIDE DEF xx, yy
  <2> QED BY <1>4, <1>5, SpansTail DEF Span
<1>8. \A v \in Int : Has(y, v) => l <= v BY <1>0, HasFrom
<1>9. \A v \in Int : l <= v /\ v < r => Has(x, v) /\ Has(y, v)
  <2> SUFFICES ASSUME NEW v \in Int, l <= v, v < r PROVE Has(x, v) /\ Has(y, v) OBVIOUS
  <2>1. InSpan(Head(x), v) /\ InSpan(Head(y), v) BY <1>1 DEF InSpan
  <2> QED BY <2>1, SpansTail
<1> HIDE DEF xx, yy, new, l
<1>10. SpansInOrder(xx, yy, new)
  <2>1. xx # <<>> /\ yy # <<>> => LeftOf(new, Head(xx).left) \/ LeftOf(new, Head(yy).left)
    BY <1>4, <1>5, <1>6, <1>7
  <2> QED BY <2>1, <1>4, <1>5, <1>6, Zenon DEF SpansInOrder
<1>11. \A v \in Int : Common(xx, yy, new, v) <=> Common(x, y, out, v)
  <2> SUFFICES ASSUME NEW v \in Int PROVE Common(xx, yy, new, v) <=> Common(x, y, out, v)
    OBVIOUS
  <2>1. CASE v < r BY <2>1, <1>1, <1>4, <1>5, <1>6, <1>8, <1>9 DEF Common
  <2>2. CASE r <= v BY <2>2, <1>1, <1>4, <1>5, <1>6, <1>8, <1>9 DEF Common
  <2> QED BY <2>1, <2>2
<1> QED BY <1>6, <1>10, <1>11 DEF xx, yy, new, l

\* intersect_rows hands out, in order, the pixels that lie on both sets of spans.
THEOREM IntersectRowsExact ==
  ASSUME NEW a \in Spans, NEW b \in Spans, InOrder(a), InOrder(b)
  PROVE  /\ intersect_rows(a, b) \in Spans /\ InOrder(intersect_rows(a, b))
         /\ \A x \in Int : Has(intersect_rows(a, b), x) <=> Has(a, x) /\ Has(b, x)
<1> DEFINE Inv(p, q, out) == /\ SpansInOrder(p, q, out)
                             /\ \A x \in Int : Common(p, q, out, x) <=> Has(a, x) /\ Has(b, x)
           I == {s \in SpanWalk : Inv(s.a, s.b, s.out)}
           P == {out \in Spans : /\ InOrder(out)
                                 /\ \A x \in Int : Has(out, x) <=> Has(a, x) /\ Has(b, x)}
           s0 == [a |-> a, b |-> b, out |-> <<>>]
<1>0. \A p, q, out : Inv(p, q, out) <=> Inv(q, p, out) BY DEF SpansInOrder, Common
<1>1. s0 \in I
  <2>1. s0 \in SpanWalk /\ s0.a = a /\ s0.b = b /\ s0.out = <<>> BY NoSpans DEF SpanWalk
  <2>2. SpansInOrder(a, b, <<>>)
    <3>1. a # <<>> => Head(a).left \in Int BY SpansTail DEF Span
    <3> QED BY <3>1, NoSpans DEF SpansInOrder
  <2>3. \A x \in Int : Common(a, b, <<>>, x) <=> Has(a, x) /\ Has(b, x) BY NoSpans DEF Common
  <2> HIDE DEF s0
  <2> QED BY <2>1, <2>2, <2>3
<1>2. ASSUME NEW s \in I, s.a = <<>> \/ s.b = <<>> PROVE s.out \in P
  <2>1. s \in SpanWalk /\ Inv(s.a, s.b, s.out) OBVIOUS
  <2>2. s.out \in Spans BY <2>1, SpanWalkFields
  <2>3. \A x \in Int : ~Has(s.a, x) \/ ~Has(s.b, x) BY <1>2, NoSpans
  <2> QED BY <2>1, <2>2, <2>3 DEF SpansInOrder, Common
<1>3. ASSUME NEW s \in I, s.a # <<>>, s.b # <<>> PROVE IntersectSpans(s) \in I
  <2> DEFINE x == LeftMost(s)
             y == Other(s)
             r == NextRight(s)
             out == s.out
             t == IntersectSpans(s)
  <2>1. s \in SpanWalk /\ Inv(s.a, s.b, out) OBVIOUS
  <2>2. out \in Spans BY <2>1, SpanWalkFields
  <2>3. (x = s.a /\ y = s.b) \/ (x = s.b /\ y = s.a) BY <1>3, <2>1, IntersectSpansTurn
  <2>4. x \in Spans /\ y \in Spans /\ x # <<>> /\ y # <<>> BY <1>3, <2>1, IntersectSpansTurn
  <2>5. /\ Head(x).left \in Int /\ Head(x).right \in Int
        /\ Head(y).left \in Int /\ Head(y).right \in Int /\ Head(x).left <= Head(y).left
    BY <1>3, <2>1, IntersectSpansTurn
  <2>6. Head(x).right <= Head(y).left => t = [a |-> Tail(x), b |-> y, out |-> out]
    BY <1>3, <2>1, IntersectSpansTurn
  <2>7. ~(Head(x).right <= Head(y).left) =>
              t = [a |-> RestOf(x, r), b |-> RestOf(y, r),
                                   out |-> Append(out, [left |-> Head(y).left, right |-> r])]
    BY <1>3, <2>1, IntersectSpansTurn
  <2>8. r = IF Head(x).right <= Head(y).right THEN Head(x).right ELSE Head(y).right
    BY DEF NextRight
  <2>9. Inv(x, y, out) BY <1>0, <2>1, <2>3
  <2>10. t \in SpanWalk BY <1>3, <2>1, IntersectSpansLess
  <2> HIDE DEF x, y, r, out
  <2>11. CASE Head(x).right <= Head(y).left
    <3>1. Inv(Tail(x), y, out) BY <2>2, <2>4, <2>5, <2>9, <2>11, DropSpan
    <3>2. t.a = Tail(x) /\ t.b = y /\ t.out = out BY <2>6, <2>11
    <3> HIDE DEF t, Inv
    <3>3. Inv(t.a, t.b, t.out) BY <3>1, <3>2
    <3> QED BY <3>3, <2>10 DEF t
  <2>12. CASE ~(Head(x).right <= Head(y).left)
    <3> DEFINE new == Append(out, [left |-> Head(y).left, right |-> r])
               xx == RestOf(x, r)
               yy == RestOf(y, r)
    <3>1. Inv(xx, yy, new)
      <4>1. SpansInOrder(x, y, out) /\ Head(y).left < Head(x).right BY <2>9, <2>12, <2>5
      <4>2. r \in Int /\ (r = Head(x).right \/ r = Head(y).right) BY <2>8, <2>5
      <4>3. r <= Head(x).right /\ r <= Head(y).right BY <2>8, <2>5
      <4>4. /\ SpansInOrder(xx, yy, new)
            /\ \A v \in Int : Common(xx, yy, new, v) <=> Common(x, y, out, v)
        BY <2>2, <2>4, <2>5, <4>1, <4>2, <4>3, CutSpan
      <4> HIDE DEF xx, yy, new
      <4> QED BY <4>4, <2>9
    <3>2. t.a = xx /\ t.b = yy /\ t.out = new BY <2>7, <2>12
    <3> HIDE DEF t, Inv, xx, yy, new
    <3>3. Inv(t.a, t.b, t.out) BY <3>1, <3>2
    <3> QED BY <3>3, <2>10 DEF t
  <2> QED BY <2>11, <2>12
<1>4. IntersectingSpans[s0] \in P
  <2>1. I \in SUBSET SpanWalk OBVIOUS
  <2> HIDE DEF I, P, s0
  <2> QED BY <1>1, <1>2, <1>3, <2>1, IntersectingSpansInvariant, Zenon
<1> QED BY <1>4 DEF intersect_rows

\* Spans make spans, in order or not.
LEMMA IntersectRowsType ==
  ASSUME NEW a \in Spans, NEW b \in Spans
  PROVE  intersect_rows(a, b) \in Spans
<1> DEFINE s0 == [a |-> a, b |-> b, out |-> <<>>]
<1>1. s0 \in SpanWalk BY NoSpans DEF SpanWalk
<1>2. \A s \in SpanWalk : s.out \in Spans BY SpanWalkFields
<1>3. \A s \in SpanWalk : s.a # <<>> /\ s.b # <<>> => IntersectSpans(s) \in SpanWalk
  BY IntersectSpansLess
<1>4. SpanWalk \in SUBSET SpanWalk OBVIOUS
<1>5. \A s \in SpanWalk : IntersectingSpans[s] \in Spans
  BY <1>2, <1>3, <1>4, IntersectingSpansInvariant, Zenon
<1> QED BY <1>1, <1>5 DEF intersect_rows

-----------------------------------------------------------------------------
\* subtract_rows

\* The first span from pos on.
LEMMA TrimmedSpans ==
  ASSUME NEW a \in Spans, a # <<>>, NEW pos \in Int
  PROVE  LET t == [a EXCEPT ![1].left = pos] IN
         /\ t \in Spans /\ t # <<>> /\ Len(t) = Len(a)
         /\ Head(t) = [left |-> pos, right |-> Head(a).right] /\ Tail(t) = Tail(a)
         /\ \A x \in Int : Has(t, x) <=> (pos <= x /\ x < Head(a).right) \/ Has(Tail(a), x)
         /\ InOrder(a) /\ pos < Head(a).right => InOrder(t)
<1> DEFINE t == [a EXCEPT ![1].left = pos]
<1>1. Len(a) \in Nat \ {0} /\ DOMAIN a = 1 .. Len(a) /\ Head(a) = a[1]
  BY TailFacts, SpansType DEF Spans
<1>2. \A k \in 1 .. Len(a) : a[k] \in Span BY SpansType
<1>3. [a[1] EXCEPT !.left = pos] = [left |-> pos, right |-> a[1].right] BY <1>1, <1>2 DEF Span
<1>4. t[1] = [a[1] EXCEPT !.left = pos] BY <1>1
<1>5. \A k \in 1 .. Len(a) : t[k] = IF k = 1 THEN [left |-> pos, right |-> a[1].right] ELSE a[k]
  <2>1. ASSUME NEW k \in 1 .. Len(a), k # 1 PROVE t[k] = a[k] BY <1>1, <2>1
  <2>2. t[1] = [left |-> pos, right |-> a[1].right] BY <1>3, <1>4, Zenon
  <2> HIDE DEF t
  <2> QED BY <2>1, <2>2
<1>6. [left |-> pos, right |-> a[1].right] \in Span BY <1>1, <1>2 DEF Span
<1>7. DOMAIN t = 1 .. Len(a) BY <1>1
<1>8. t = [k \in 1 .. Len(a) |-> t[k]] BY <1>1
<1> HIDE DEF t
<1>9. t \in [1 .. Len(a) -> Span] BY <1>2, <1>5, <1>6, <1>8
<1>10. t \in Spans /\ Len(t) = Len(a) /\ t # <<>> BY <1>1, <1>9 DEF Spans
<1>11. /\ Head(t) = t[1] /\ Tail(t) \in Spans /\ Len(Tail(t)) = Len(a) - 1
       /\ \A k \in 1 .. Len(a) - 1 : Tail(t)[k] = t[k + 1]
  BY <1>10, TailFacts DEF Spans
<1>12. /\ Tail(a) \in Spans /\ Len(Tail(a)) = Len(a) - 1
       /\ \A k \in 1 .. Len(a) - 1 : Tail(a)[k] = a[k + 1]
  BY TailFacts DEF Spans
<1>13. Tail(t) = Tail(a)
  <2>1. \A k \in 1 .. Len(Tail(t)) : Tail(t)[k] = Tail(a)[k] BY <1>1, <1>5, <1>11, <1>12
  <2>2. Tail(t) \in Seq(Span) /\ Tail(a) \in Seq(Span) /\ Len(Tail(t)) = Len(Tail(a))
    BY <1>11, <1>12 DEF Spans
  <2> QED BY <2>1, <2>2, SeqEqual
<1>14. Head(t) = [left |-> pos, right |-> Head(a).right] BY <1>1, <1>5, <1>11
<1>15. \A x \in Int : Has(t, x) <=> (pos <= x /\ x < Head(a).right) \/ Has(Tail(a), x)
  <2>1. \A x \in Int : Has(t, x) <=> InSpan(Head(t), x) \/ Has(Tail(t), x)
    BY <1>10, SpansTail
  <2>2. Head(t).left = pos /\ Head(t).right = Head(a).right BY <1>14
  <2> QED BY <2>1, <2>2, <1>13 DEF InSpan
<1>16. ASSUME InOrder(a), pos < Head(a).right PROVE InOrder(t)
  <2>1. \A k \in 1 .. Len(a) : a[k].left < a[k].right BY <1>1, <1>16 DEF InOrder
  <2>2. \A j, k \in 1 .. Len(a) : j < k => a[j].right < a[k].left BY <1>1, <1>16 DEF InOrder
  <2>3. \A k \in 1 .. Len(a) : t[k].left < t[k].right BY <1>1, <1>5, <1>16, <2>1
  <2>4. \A k \in 1 .. Len(a) : t[k].right = a[k].right BY <1>5
  <2>5. \A k \in 1 .. Len(a) : k # 1 => t[k].left = a[k].left BY <1>5
  <2>6. ASSUME NEW j \in 1 .. Len(a), NEW k \in 1 .. Len(a), j < k PROVE t[j].right < t[k].left
    BY <2>2, <2>4, <2>5, <2>6, <1>1
  <2> QED BY <1>7, <2>3, <2>6 DEF InOrder
<1> QED BY <1>10, <1>13, <1>14, <1>15, <1>16 DEF t

\* The walk of subtract_rows: everything is in order, and the spans handed out lie
\* left of what is left to walk.
MinusInOrder(a, b, out) ==
  /\ InOrder(a) /\ InOrder(b) /\ InOrder(out)
  /\ a # <<>> => LeftOf(out, Head(a).left)
Difference(a, b, out, x) == Has(out, x) \/ (Has(a, x) /\ ~Has(b, x))

\* What the first span of b leaves of the first span before it.
BeforeNext(a, b, out) ==
  IF Head(b).left > Head(a).left
  THEN Append(out, [left |-> Head(a).left, right |-> Head(b).left]) ELSE out
GoesOnAt(a, b) == IF Head(a).left >= Head(b).right THEN Head(a).left ELSE Head(b).right

\* A turn that hands out a whole span.
LEMMA PassSpan ==
  ASSUME NEW a \in Spans, NEW b \in Spans, NEW out \in Spans, a # <<>>, MinusInOrder(a, b, out),
         b = <<>> \/ Head(b).left >= Head(a).right
  PROVE  /\ Append(out, Head(a)) \in Spans /\ Tail(a) \in Spans
         /\ MinusInOrder(Tail(a), b, Append(out, Head(a)))
         /\ \A x \in Int : Difference(Tail(a), b, Append(out, Head(a)), x) <=> Difference(a, b, out, x)
<1> DEFINE l == Head(a).left
           r == Head(a).right
           new == Append(out, Head(a))
<1>0. InOrder(a) /\ InOrder(b) /\ InOrder(out) /\ LeftOf(out, l) BY DEF MinusInOrder
<1>1. /\ l \in Int /\ r \in Int /\ l < r /\ Head(a) = [left |-> l, right |-> r]
      /\ Tail(a) \in Spans /\ InOrder(Tail(a)) /\ RightOf(Tail(a), r)
  BY <1>0, SpansTail DEF Span
<1>2. /\ new \in Spans /\ InOrder(new)
      /\ \A x \in Int : Has(new, x) <=> Has(out, x) \/ (l <= x /\ x < r)
      /\ \A x \in Int : r < x => LeftOf(new, x)
  <2>1. new = Append(out, [left |-> l, right |-> r]) BY <1>1
  <2> HIDE DEF new, l, r
  <2> QED BY <1>0, <1>1, <2>1, SpansAppend
<1>3. Tail(a) # <<>> => r < Head(Tail(a)).left /\ Head(Tail(a)).left \in Int
  BY <1>1, RightOfHead, SpansTail DEF Span
<1>4. MinusInOrder(Tail(a), b, new) BY <1>0, <1>1, <1>2, <1>3 DEF MinusInOrder
<1>5. ASSUME NEW x \in Int PROVE Difference(Tail(a), b, new, x) <=> Difference(a, b, out, x)
  <2>1. Has(a, x) <=> (l <= x /\ x < r) \/ Has(Tail(a), x) BY SpansTail DEF InSpan
  <2>2. Has(b, x) => b # <<>> /\ Head(b).left <= x BY <1>0, HasFrom
  <2>3. b # <<>> => Head(b).left \in Int BY SpansTail DEF Span
  <2>4. ~(Has(b, x) /\ l <= x /\ x < r) BY <1>1, <2>2, <2>3
  <2> HIDE DEF l, r, new
  <2> QED BY <1>2, <2>1, <2>4 DEF Difference
<1> QED BY <1>1, <1>2, <1>4, <1>5

\* What a turn hands out of a span which the first of b covers in part.
LEMMA BeforeNextFacts ==
  ASSUME NEW a \in Spans, NEW b \in Spans, NEW out \in Spans, a # <<>>, b # <<>>,
         InOrder(out), LeftOf(out, Head(a).left)
  PROVE  /\ BeforeNext(a, b, out) \in Spans /\ InOrder(BeforeNext(a, b, out))
         /\ \A x \in Int : Has(BeforeNext(a, b, out), x) <=>
                             Has(out, x) \/ (Head(a).left <= x /\ x < Head(b).left)
         /\ \A x \in Int : Head(a).left <= x /\ Head(b).left < x => LeftOf(BeforeNext(a, b, out), x)
<1>1. Head(a).left \in Int /\ Head(b).left \in Int BY SpansTail DEF Span
<1>2. CASE Head(b).left > Head(a).left
  <2>1. BeforeNext(a, b, out) = Append(out, [left |-> Head(a).left, right |-> Head(b).left])
    BY <1>2 DEF BeforeNext
  <2> QED BY <1>1, <1>2, <2>1, SpansAppend
<1>3. CASE ~(Head(b).left > Head(a).left)
  <2>1. BeforeNext(a, b, out) = out BY <1>3 DEF BeforeNext
  <2>2. \A x \in Int : Head(a).left <= x => LeftOf(out, x) BY <1>1, LeftOfMore
  <2> QED BY <1>1, <1>3, <2>1, <2>2
<1> QED BY <1>2, <1>3

\* A turn that ends a span in the first of b.
LEMMA EatSpan ==
  ASSUME NEW a \in Spans, NEW b \in Spans, NEW out \in Spans, a # <<>>, b # <<>>,
         MinusInOrder(a, b, out), Head(b).left < Head(a).right, GoesOnAt(a, b) >= Head(a).right
  PROVE  /\ BeforeNext(a, b, out) \in Spans /\ Tail(a) \in Spans
         /\ MinusInOrder(Tail(a), b, BeforeNext(a, b, out))
         /\ \A x \in Int : Difference(Tail(a), b, BeforeNext(a, b, out), x) <=> Difference(a, b, out, x)
<1> DEFINE l == Head(a).left
           r == Head(a).right
           bl == Head(b).left
           br == Head(b).right
           new == BeforeNext(a, b, out)
<1>0. InOrder(a) /\ InOrder(b) /\ InOrder(out) /\ LeftOf(out, l) BY DEF MinusInOrder
<1>1. /\ l \in Int /\ r \in Int /\ l < r
      /\ Tail(a) \in Spans /\ InOrder(Tail(a)) /\ RightOf(Tail(a), r)
  BY <1>0, SpansTail DEF Span
<1>2. bl \in Int /\ br \in Int /\ bl < br BY <1>0, SpansTail DEF Span
<1>3. r <= br BY <1>1, <1>2 DEF GoesOnAt
<1>4. /\ new \in Spans /\ InOrder(new)
      /\ \A x \in Int : Has(new, x) <=> Has(out, x) \/ (l <= x /\ x < bl)
      /\ \A x \in Int : l <= x /\ bl < x => LeftOf(new, x)
  BY <1>0, BeforeNextFacts
<1>5. Tail(a) # <<>> => r < Head(Tail(a)).left /\ Head(Tail(a)).left \in Int
  BY <1>1, RightOfHead, SpansTail DEF Span
<1>6. Tail(a) # <<>> => LeftOf(new, Head(Tail(a)).left) BY <1>1, <1>2, <1>4, <1>5
<1>7. MinusInOrder(Tail(a), b, new) BY <1>0, <1>1, <1>4, <1>6 DEF MinusInOrder
<1>8. ASSUME NEW x \in Int PROVE Difference(Tail(a), b, new, x) <=> Difference(a, b, out, x)
  <2>1. Has(a, x) <=> (l <= x /\ x < r) \/ Has(Tail(a), x) BY SpansTail DEF InSpan
  <2>2. Has(b, x) => bl <= x BY <1>0, HasFrom
  <2>3. bl <= x /\ x < br => Has(b, x) BY SpansTail DEF InSpan
  <2> HIDE DEF l, r, bl, br, new
  <2>4. l <= x /\ x < r => (~Has(b, x) <=> x < bl) BY <1>1, <1>2, <1>3, <2>2, <2>3
  <2>5. bl < r BY DEF bl, r
  <2> QED BY <1>1, <1>2, <1>4, <2>1, <2>4, <2>5 DEF Difference
<1> QED BY <1>1, <1>4, <1>7, <1>8

\* A turn that goes on in the same span behind the first of b.
LEMMA TrimSpan ==
  ASSUME NEW a \in Spans, NEW b \in Spans, NEW out \in Spans, a # <<>>, b # <<>>,
         MinusInOrder(a, b, out), GoesOnAt(a, b) < Head(a).right
  PROVE  LET t == [a EXCEPT ![1].left = GoesOnAt(a, b)] IN
         /\ BeforeNext(a, b, out) \in Spans /\ t \in Spans /\ Len(t) = Len(a)
         /\ MinusInOrder(t, Tail(b), BeforeNext(a, b, out))
         /\ \A x \in Int : Difference(t, Tail(b), BeforeNext(a, b, out), x) <=> Difference(a, b, out, x)
<1> DEFINE l == Head(a).left
           r == Head(a).right
           bl == Head(b).left
           br == Head(b).right
           new == BeforeNext(a, b, out)
           pos == GoesOnAt(a, b)
           t == [a EXCEPT ![1].left = pos]
<1>0. InOrder(a) /\ InOrder(b) /\ InOrder(out) /\ LeftOf(out, l) BY DEF MinusInOrder
<1>1. /\ l \in Int /\ r \in Int /\ l < r
      /\ Tail(a) \in Spans /\ InOrder(Tail(a)) /\ RightOf(Tail(a), r)
  BY <1>0, SpansTail DEF Span
<1>2. /\ bl \in Int /\ br \in Int /\ bl < br
      /\ Tail(b) \in Spans /\ InOrder(Tail(b)) /\ RightOf(Tail(b), br)
  BY <1>0, SpansTail DEF Span
<1>3. pos = IF l >= br THEN l ELSE br BY DEF GoesOnAt
<1>4. pos \in Int /\ l <= pos /\ br <= pos /\ pos < r BY <1>1, <1>2, <1>3
<1>5. /\ new \in Spans /\ InOrder(new)
      /\ \A x \in Int : Has(new, x) <=> Has(out, x) \/ (l <= x /\ x < bl)
      /\ \A x \in Int : l <= x /\ bl < x => LeftOf(new, x)
  BY <1>0, BeforeNextFacts
<1>6. /\ t \in Spans /\ Len(t) = Len(a) /\ Head(t).left = pos /\ InOrder(t)
      /\ \A x \in Int : Has(t, x) <=> (pos <= x /\ x < r) \/ Has(Tail(a), x)
  <2>1. t \in Spans /\ Len(t) = Len(a) /\ InOrder(t) BY <1>0, <1>4, TrimmedSpans
  <2>2. Head(t) = [left |-> pos, right |-> r] BY <1>4, TrimmedSpans
  <2>3. \A x \in Int : Has(t, x) <=> (pos <= x /\ x < r) \/ Has(Tail(a), x)
    BY <1>4, TrimmedSpans
  <2> HIDE DEF l, r, bl, br, new, pos, t
  <2> QED BY <2>1, <2>2, <2>3
<1>7. LeftOf(new, pos) BY <1>2, <1>4, <1>5
<1> HIDE DEF l, r, bl, br, new, pos, t
<1>8. MinusInOrder(t, Tail(b), new) BY <1>2, <1>5, <1>6, <1>7 DEF MinusInOrder
<1>9. ASSUME NEW x \in Int PROVE Difference(t, Tail(b), new, x) <=> Difference(a, b, out, x)
  <2>1. Has(a, x) <=> (l <= x /\ x < r) \/ Has(Tail(a), x) BY SpansTail DEF InSpan, l, r
  <2>2. Has(b, x) <=> (bl <= x /\ x < br) \/ Has(Tail(b), x) BY SpansTail DEF InSpan, bl, br
  <2>3. Has(Tail(a), x) => r < x BY <1>1, HasRightOf
  <2>4. Has(Tail(b), x) => br < x BY <1>2, HasRightOf
  <2>5. Has(new, x) <=> Has(out, x) \/ (l <= x /\ x < bl) BY <1>5
  <2>6. Has(t, x) <=> (pos <= x /\ x < r) \/ Has(Tail(a), x) BY <1>6
  <2> QED BY <1>1, <1>2, <1>3, <1>4, <2>1, <2>2, <2>3, <2>4, <2>5, <2>6 DEF Difference
<1> QED BY <1>5, <1>6, <1>8, <1>9 DEF t, new, pos

\* One turn in these terms.
LEMMA SubtractSpanTurn ==
  ASSUME NEW s \in SpanWalk, s.a # <<>>
  PROVE  /\ s.b = <<>> \/ Head(s.b).left >= Head(s.a).right =>
              SubtractSpan(s) = [a |-> Tail(s.a), b |-> s.b, out |-> Append(s.out, Head(s.a))]
         /\ ~(s.b = <<>> \/ Head(s.b).left >= Head(s.a).right) /\ GoesOnAt(s.a, s.b) >= Head(s.a).right =>
              SubtractSpan(s) = [a |-> Tail(s.a), b |-> s.b, out |-> BeforeNext(s.a, s.b, s.out)]
         /\ ~(s.b = <<>> \/ Head(s.b).left >= Head(s.a).right) /\ ~(GoesOnAt(s.a, s.b) >= Head(s.a).right) =>
              SubtractSpan(s) = [a |-> [s.a EXCEPT ![1].left = GoesOnAt(s.a, s.b)], b |-> Tail(s.b),
                                 out |-> BeforeNext(s.a, s.b, s.out)]
<1>1. s.b # <<>> => Max({Head(s.a).left, Head(s.b).right}) = GoesOnAt(s.a, s.b)
  <2>1. s.a \in Spans /\ s.b \in Spans BY SpanWalkFields
  <2>2. Head(s.a).left \in Int /\ (s.b # <<>> => Head(s.b).right \in Int) BY <2>1, SpansTail DEF Span
  <2> QED BY <2>2, MinMaxFacts DEF GoesOnAt
<1>2. SubtractSpan(s) =
        IF s.b = <<>> \/ Head(s.b).left >= Head(s.a).right
        THEN [a |-> Tail(s.a), b |-> s.b, out |-> Append(s.out, Head(s.a))]
        ELSE IF Max({Head(s.a).left, Head(s.b).right}) >= Head(s.a).right
        THEN [a |-> Tail(s.a), b |-> s.b, out |-> BeforeNext(s.a, s.b, s.out)]
        ELSE [a |-> [s.a EXCEPT ![1].left = Max({Head(s.a).left, Head(s.b).right})], b |-> Tail(s.b),
              out |-> BeforeNext(s.a, s.b, s.out)]
  BY DEF SubtractSpan, BeforeNext
<1> QED BY <1>1, <1>2

\* Every turn leaves a walk with less before it.
LEMMA SubtractSpanLess ==
  ASSUME NEW s \in SpanWalk, s.a # <<>>
  PROVE  SubtractSpan(s) \in SpanWalk /\ SpansAhead(SubtractSpan(s)) < SpansAhead(s)
<1> DEFINE a == s.a
           b == s.b
           out == s.out
           t == SubtractSpan(s)
           before == BeforeNext(a, b, out)
           trimmed == [a EXCEPT ![1].left = GoesOnAt(a, b)]
<1>1. b = <<>> \/ Head(b).left >= Head(a).right => t = [a |-> Tail(a), b |-> b, out |-> Append(out, Head(a))]
  BY SubtractSpanTurn
<1>2. ~(b = <<>> \/ Head(b).left >= Head(a).right) =>
        t = [a |-> Tail(a), b |-> b, out |-> before] \/ t = [a |-> trimmed, b |-> Tail(b), out |-> before]
  BY SubtractSpanTurn
<1>3. a \in Spans /\ b \in Spans /\ out \in Spans BY SpanWalkFields
<1>4. SpansAhead(s) = Len(a) + Len(b) /\ a # <<>> BY DEF SpansAhead
<1>5. SubtractSpan(s) = t OBVIOUS
<1> HIDE DEF a, b, out, t, before, trimmed
<1>6. Head(a) \in Span /\ Tail(a) \in Spans /\ Len(Tail(a)) = Len(a) - 1 BY <1>3, <1>4, SpansTail
<1>7. Append(out, Head(a)) \in Spans BY <1>3, <1>6, AppendFacts DEF Spans
<1>8. ASSUME b # <<>>
      PROVE  /\ before \in Spans /\ trimmed \in Spans /\ Len(trimmed) = Len(a)
             /\ Tail(b) \in Spans /\ Len(Tail(b)) = Len(b) - 1
  <2>1. /\ Head(b) \in Span /\ Tail(b) \in Spans /\ Len(Tail(b)) = Len(b) - 1 BY <1>3, <1>8, SpansTail
  <2>2. /\ Head(a).left \in Int /\ Head(b).left \in Int /\ Head(b).right \in Int
    BY <1>6, <2>1 DEF Span
  <2>3. before \in Spans BY <1>3, <2>2, SpansAppend DEF before, BeforeNext
  <2>4. GoesOnAt(a, b) \in Int BY <2>2 DEF GoesOnAt
  <2>5. trimmed \in Spans /\ Len(trimmed) = Len(a) BY <1>3, <1>4, <2>4, TrimmedSpans DEF trimmed
  <2> QED BY <2>1, <2>3, <2>5
<1>9. ASSUME NEW p \in Spans, NEW q \in Spans, NEW o \in Spans, t = [a |-> p, b |-> q, out |-> o],
             Len(p) + Len(q) < Len(a) + Len(b)
      PROVE  t \in SpanWalk /\ SpansAhead(t) < SpansAhead(s)
  <2>1. t \in SpanWalk /\ SpansAhead(t) = Len(p) + Len(q)
    <3>1. LET w == [a |-> p, b |-> q, out |-> o] IN w \in SpanWalk /\ SpansAhead(w) = Len(p) + Len(q)
      BY SpanWalkOf
    <3> QED BY <3>1, <1>9
  <2> DEFINE m == Len(p) + Len(q)
             n == Len(a) + Len(b)
             mm == SpansAhead(t)
             nn == SpansAhead(s)
  <2>2. m < n /\ mm = m /\ nn = n BY <1>4, <1>9, <2>1
  <2> HIDE DEF m, n, mm, nn
  <2>3. mm < nn BY <2>2
  <2> QED BY <2>1, <2>3 DEF mm, nn
<1>10. Len(a) \in Nat /\ Len(b) \in Nat BY <1>3, SpansType
<1>11. CASE b = <<>> \/ Head(b).left >= Head(a).right
  <2>1. Len(Tail(a)) + Len(b) < Len(a) + Len(b) BY <1>6, <1>10
  <2> HIDE <1>4
  <2> QED BY <1>1, <1>3, <1>5, <1>6, <1>7, <1>9, <1>11, <2>1
<1>12. CASE ~(b = <<>> \/ Head(b).left >= Head(a).right)
  <2>1. /\ before \in Spans /\ trimmed \in Spans /\ Tail(b) \in Spans BY <1>8, <1>12
  <2>2. Len(trimmed) = Len(a) /\ Len(Tail(b)) = Len(b) - 1 BY <1>8, <1>12
  <2>3. Len(Tail(a)) + Len(b) < Len(a) + Len(b) BY <1>6, <1>10
  <2>4. Len(trimmed) + Len(Tail(b)) < Len(a) + Len(b)
    <3> DEFINE la == Len(a)
               lb == Len(b)
               lt == Len(trimmed)
               lu == Len(Tail(b))
    <3>1. lt = la /\ lu = lb - 1 /\ la \in Nat /\ lb \in Nat BY <2>2, <1>10
    <3> HIDE DEF la, lb, lt, lu
    <3>2. lt + lu < la + lb BY <3>1
    <3> QED BY <3>2 DEF la, lb, lt, lu
  <2>5. CASE t = [a |-> Tail(a), b |-> b, out |-> before]
    BY <1>3, <1>5, <1>6, <1>9, <2>1, <2>3, <2>5
  <2>6. CASE t = [a |-> trimmed, b |-> Tail(b), out |-> before]
    BY <1>3, <1>5, <1>6, <1>9, <2>1, <2>4, <2>6
  <2> QED BY <1>2, <1>12, <2>5, <2>6
<1> QED BY <1>11, <1>12

\* The loop unfolds.
LEMMA SubtractingSpansLoop ==
  IsLoop(SubtractingSpans, SpanWalk, {s \in SpanWalk : s.a = <<>>}, [s \in SpanWalk |-> s.out],
         [s \in SpanWalk |-> IF s.a = <<>> THEN s ELSE SubtractSpan(s)])
<1> DEFINE D == {s \in SpanWalk : s.a = <<>>}
           R == [s \in SpanWalk |-> s.out]
           F == [s \in SpanWalk |-> IF s.a = <<>> THEN s ELSE SubtractSpan(s)]
           Turn(r) == [s \in SpanWalk |-> IF s.a = <<>> THEN s.out ELSE r[SubtractSpan(s)]]
<1>1. F \in [SpanWalk -> SpanWalk] BY SubtractSpanLess
<1>2. \A r : IsLoop(r, SpanWalk, D, R, F) <=> r = Turn(r) BY DEF IsLoop
<1>3. \E r : IsLoop(r, SpanWalk, D, R, F)
  <2> HIDE DEF D, R, F
  <2> QED BY <1>1, LoopExists, Zenon
<1>4. SubtractingSpans = Turn(SubtractingSpans)
  <2>1. \E r : r = Turn(r) BY <1>2, <1>3, Zenon
  <2> QED BY <2>1, Zenon DEF SubtractingSpans, SpanWalk
<1> QED BY <1>2, <1>4, Zenon

\* The invariant rule for it.
LEMMA SubtractingSpansInvariant ==
  ASSUME NEW I \in SUBSET SpanWalk, NEW P,
         \A s \in I : s.a = <<>> => s.out \in P,
         \A s \in I : s.a # <<>> => SubtractSpan(s) \in I
  PROVE  \A s \in I : SubtractingSpans[s] \in P
<1> DEFINE D == {s \in SpanWalk : s.a = <<>>}
           R == [s \in SpanWalk |-> s.out]
           F == [s \in SpanWalk |-> IF s.a = <<>> THEN s ELSE SubtractSpan(s)]
           m == [s \in SpanWalk |-> SpansAhead(s)]
<1>1. IsLoop(SubtractingSpans, SpanWalk, D, R, F) BY SubtractingSpansLoop
<1>2. Keeps(SpanWalk, D, R, F, I, m, P)
  <2>1. m \in [SpanWalk -> Nat] BY SpanWalkFields
  <2>2. \A s \in I : s \in D => R[s] \in P OBVIOUS
  <2>3. \A s \in I : s \notin D => F[s] \in I /\ m[F[s]] < m[s] BY SubtractSpanLess
  <2> HIDE DEF D, R, F, m
  <2> QED BY <2>1, <2>2, <2>3 DEF Keeps
<1> HIDE DEF D, R, F, m
<1> QED BY <1>1, <1>2, LoopInvariant, Zenon

\* subtract_rows hands out, in order, the pixels that lie on the first set of spans and
\* not on the second.
THEOREM SubtractRowsExact ==
  ASSUME NEW a \in Spans, NEW b \in Spans, InOrder(a), InOrder(b)
  PROVE  /\ subtract_rows(a, b) \in Spans /\ InOrder(subtract_rows(a, b))
         /\ \A x \in Int : Has(subtract_rows(a, b), x) <=> Has(a, x) /\ ~Has(b, x)
<1> DEFINE Inv(p, q, out) == /\ MinusInOrder(p, q, out)
                             /\ \A x \in Int : Difference(p, q, out, x) <=> Has(a, x) /\ ~Has(b, x)
           I == {s \in SpanWalk : Inv(s.a, s.b, s.out)}
           P == {out \in Spans : /\ InOrder(out)
                                 /\ \A x \in Int : Has(out, x) <=> Has(a, x) /\ ~Has(b, x)}
           s0 == [a |-> a, b |-> b, out |-> <<>>]
<1>1. s0 \in I
  <2>1. s0 \in SpanWalk /\ s0.a = a /\ s0.b = b /\ s0.out = <<>> BY NoSpans DEF SpanWalk
  <2>2. MinusInOrder(a, b, <<>>)
    <3>1. a # <<>> => Head(a).left \in Int BY SpansTail DEF Span
    <3> QED BY <3>1, NoSpans DEF MinusInOrder
  <2>3. \A x \in Int : Difference(a, b, <<>>, x) <=> Has(a, x) /\ ~Has(b, x)
    BY NoSpans DEF Difference
  <2> HIDE DEF s0
  <2> QED BY <2>1, <2>2, <2>3
<1>2. ASSUME NEW s \in I, s.a = <<>> PROVE s.out \in P
  <2>1. s \in SpanWalk /\ Inv(s.a, s.b, s.out) OBVIOUS
  <2>2. s.out \in Spans BY <2>1, SpanWalkFields
  <2>3. \A x \in Int : ~Has(s.a, x) BY <1>2, NoSpans
  <2> QED BY <2>1, <2>2, <2>3 DEF MinusInOrder, Difference
<1>3. ASSUME NEW s \in I, s.a # <<>> PROVE SubtractSpan(s) \in I
  <2> DEFINE p == s.a
             q == s.b
             out == s.out
             t == SubtractSpan(s)
  <2>1. s \in SpanWalk /\ Inv(p, q, out) OBVIOUS
  <2>2. p \in Spans /\ q \in Spans /\ out \in Spans /\ p # <<>> BY <1>3, <2>1, SpanWalkFields
  <2>3. q = <<>> \/ Head(q).left >= Head(p).right =>
          t = [a |-> Tail(p), b |-> q, out |-> Append(out, Head(p))]
    BY <1>3, <2>1, SubtractSpanTurn
  <2>4. ~(q = <<>> \/ Head(q).left >= Head(p).right) /\ GoesOnAt(p, q) >= Head(p).right =>
          t = [a |-> Tail(p), b |-> q, out |-> BeforeNext(p, q, out)]
    BY <1>3, <2>1, SubtractSpanTurn
  <2>5. ~(q = <<>> \/ Head(q).left >= Head(p).right) /\ ~(GoesOnAt(p, q) >= Head(p).right) =>
          t = [a |-> [p EXCEPT ![1].left = GoesOnAt(p, q)], b |-> Tail(q), out |-> BeforeNext(p, q, out)]
    BY <1>3, <2>1, SubtractSpanTurn
  <2>6. t \in SpanWalk BY <1>3, <2>1, SubtractSpanLess
  <2>7. Head(p).left \in Int /\ Head(p).right \in Int BY <2>2, SpansTail DEF Span
  <2>8. q # <<>> => Head(q).left \in Int /\ Head(q).right \in Int BY <2>2, SpansTail DEF Span
  <2> HIDE DEF p, q, out
  <2>9. CASE q = <<>> \/ Head(q).left >= Head(p).right
    <3> DEFINE new == Append(out, Head(p))
    <3>1. Inv(Tail(p), q, new) BY <2>1, <2>2, <2>9, PassSpan
    <3>2. t.a = Tail(p) /\ t.b = q /\ t.out = new BY <2>3, <2>9
    <3> HIDE DEF t, Inv, new
    <3>3. Inv(t.a, t.b, t.out) BY <3>1, <3>2
    <3> QED BY <3>3, <2>6 DEF t
  <2>10. CASE ~(q = <<>> \/ Head(q).left >= Head(p).right) /\ GoesOnAt(p, q) >= Head(p).right
    <3> DEFINE new == BeforeNext(p, q, out)
    <3>1. Inv(Tail(p), q, new) BY <2>1, <2>2, <2>7, <2>8, <2>10, EatSpan
    <3>2. t.a = Tail(p) /\ t.b = q /\ t.out = new BY <2>4, <2>10
    <3> HIDE DEF t, Inv, new
    <3>3. Inv(t.a, t.b, t.out) BY <3>1, <3>2
    <3> QED BY <3>3, <2>6 DEF t
  <2>11. CASE ~(q = <<>> \/ Head(q).left >= Head(p).right) /\ ~(GoesOnAt(p, q) >= Head(p).right)
    <3> DEFINE new == BeforeNext(p, q, out)
               trimmed == [p EXCEPT ![1].left = GoesOnAt(p, q)]
    <3>0. GoesOnAt(p, q) < Head(p).right /\ q # <<>> BY <2>7, <2>8, <2>11 DEF GoesOnAt
    <3>1. Inv(trimmed, Tail(q), new) BY <2>1, <2>2, <3>0, TrimSpan
    <3>2. t.a = trimmed /\ t.b = Tail(q) /\ t.out = new BY <2>5, <2>11
    <3> HIDE DEF t, Inv, new, trimmed
    <3>3. Inv(t.a, t.b, t.out) BY <3>1, <3>2
    <3> QED BY <3>3, <2>6 DEF t
  <2> QED BY <2>9, <2>10, <2>11
<1>4. SubtractingSpans[s0] \in P
  <2>1. I \in SUBSET SpanWalk OBVIOUS
  <2> HIDE DEF I, P, s0
  <2> QED BY <1>1, <1>2, <1>3, <2>1, SubtractingSpansInvariant, Zenon
<1> QED BY <1>4 DEF subtract_rows

\* Spans make spans, in order or not.
LEMMA SubtractRowsType ==
  ASSUME NEW a \in Spans, NEW b \in Spans
  PROVE  subtract_rows(a, b) \in Spans
<1> DEFINE s0 == [a |-> a, b |-> b, out |-> <<>>]
<1>1. s0 \in SpanWalk BY NoSpans DEF SpanWalk
<1>2. \A s \in SpanWalk : s.out \in Spans BY SpanWalkFields
<1>3. \A s \in SpanWalk : s.a # <<>> => SubtractSpan(s) \in SpanWalk
  BY SubtractSpanLess
<1>4. SpanWalk \in SUBSET SpanWalk OBVIOUS
<1>5. \A s \in SpanWalk : SubtractingSpans[s] \in Spans
  BY <1>2, <1>3, <1>4, SubtractingSpansInvariant, Zenon
<1> QED BY <1>1, <1>5 DEF subtract_rows

-----------------------------------------------------------------------------
\* add_span_to_row

\* The first span that ends at x or right of it.
LEMMA FirstRightFrom ==
  ASSUME NEW a \in Spans, NEW x \in Int
  PROVE  LET n == LowerBound(a, 1, LAMBDA s : s.right >= x) IN
         /\ n \in 1 .. Len(a) + 1
         /\ \A k \in 1 .. Len(a) : k < n => a[k].right < x
         /\ n <= Len(a) => a[n].right >= x
<1> DEFINE T == {k \in 1 .. Len(a) : a[k].right >= x} \cup {Len(a) + 1}
           n == LowerBound(a, 1, LAMBDA s : s.right >= x)
<1>1. n = Min(T) BY DEF LowerBound
<1>2. Len(a) \in Nat /\ \A k \in 1 .. Len(a) : a[k].right \in Int BY SpansType
<1>3. T \in SUBSET Nat /\ T # {} BY <1>2
<1>4. Min(T) \in T /\ \A k \in T : Min(T) <= k
  <2> HIDE DEF T
  <2> QED BY <1>3, MinNat
<1> HIDE DEF n
<1>5. n \in T /\ \A k \in T : n <= k BY <1>1, <1>4, Zenon
<1>6. n \in 1 .. Len(a) + 1 BY <1>2, <1>5
<1>7. ASSUME NEW k \in 1 .. Len(a), k < n PROVE a[k].right < x
  <2>1. k \notin T BY <1>5, <1>6, <1>7
  <2> QED BY <1>2, <2>1
<1>8. n <= Len(a) => a[n].right >= x BY <1>2, <1>5
<1> QED BY <1>6, <1>7, <1>8 DEF n

\* The first span from the i-th on that begins at x or right of it.
LEMMA FirstLeftFrom ==
  ASSUME NEW a \in Spans, NEW x \in Int, NEW i \in 1 .. Len(a) + 1
  PROVE  LET n == LowerBound(a, i, LAMBDA s : s.left >= x) IN
         /\ n \in i .. Len(a) + 1
         /\ \A k \in i .. Len(a) : k < n => a[k].left < x
         /\ n <= Len(a) => a[n].left >= x
<1> DEFINE T == {k \in i .. Len(a) : a[k].left >= x} \cup {Len(a) + 1}
           n == LowerBound(a, i, LAMBDA s : s.left >= x)
<1>1. n = Min(T) BY DEF LowerBound
<1>2. Len(a) \in Nat /\ \A k \in 1 .. Len(a) : a[k].left \in Int BY SpansType
<1>3. T \in SUBSET Nat /\ T # {} BY <1>2
<1>4. Min(T) \in T /\ \A k \in T : Min(T) <= k
  <2> HIDE DEF T
  <2> QED BY <1>3, MinNat
<1> HIDE DEF n
<1>5. n \in T /\ \A k \in T : n <= k BY <1>1, <1>4, Zenon
<1>6. n \in i .. Len(a) + 1 BY <1>2, <1>5
<1>7. ASSUME NEW k \in i .. Len(a), k < n PROVE a[k].left < x
  <2>1. k \notin T BY <1>5, <1>6, <1>7
  <2> QED BY <1>2, <2>1
<1>8. n <= Len(a) => a[n].left >= x BY <1>2, <1>5
<1> QED BY <1>6, <1>7, <1>8 DEF n

Replaced(a, i, j, e) == SubSeq(a, 1, i - 1) \o <<e>> \o SubSeq(a, j, Len(a))

\* Spans of which those from i to before j are replaced by one.
LEMMA ReplaceSpans ==
  ASSUME NEW a \in Spans, NEW i \in 1 .. Len(a) + 1, NEW j \in i .. Len(a) + 1, NEW e \in Span
  PROVE  LET new == Replaced(a, i, j, e) IN
         /\ new \in Spans /\ Len(new) = Len(a) + 1 + i - j
         /\ \A k \in 1 .. Len(new) : new[k] = IF k < i THEN a[k] ELSE IF k = i THEN e ELSE a[k + j - i - 1]
<1> DEFINE p == SubSeq(a, 1, i - 1)
           q == SubSeq(a, j, Len(a))
           h == p \o <<e>>
           new == h \o q
<1>1. Len(a) \in Nat /\ a \in Seq(Span) BY SpansType DEF Spans
<1>2. p \in Seq(Span) /\ Len(p) = i - 1 /\ \A k \in 1 .. i - 1 : p[k] = a[k]
  <2>1. 1 \in 1 .. Len(a) + 1 /\ i - 1 \in 0 .. Len(a) /\ 1 <= (i - 1) + 1 BY <1>1
  <2>2. p \in Seq(Span) /\ Len(p) = (i - 1) - 1 + 1 /\ \A k \in 1 .. (i - 1) - 1 + 1 : p[k] = a[1 + k - 1]
    BY <1>1, <2>1, SubSeqFacts
  <2> HIDE DEF p
  <2> QED BY <1>1, <2>2
<1>3. q \in Seq(Span) /\ Len(q) = Len(a) - j + 1 /\ \A k \in 1 .. Len(a) - j + 1 : q[k] = a[j + k - 1]
  BY <1>1, SubSeqFacts
<1> HIDE DEF p, q
<1>4. <<e>> \in Seq(Span) /\ Len(<<e>>) = 1 /\ <<e>>[1] = e OBVIOUS
<1>5. h \in Seq(Span) /\ Len(h) = i /\ (\A k \in 1 .. i - 1 : h[k] = a[k]) /\ h[i] = e
  <2>1. /\ h \in Seq(Span) /\ Len(h) = Len(p) + 1
        /\ \A k \in 1 .. Len(p) : h[k] = p[k]
        /\ \A k \in 1 .. 1 : h[Len(p) + k] = <<e>>[k]
    BY <1>2, <1>4, ConcatFacts
  <2> HIDE DEF h
  <2>2. h[Len(p) + 1] = e BY <2>1, <1>4
  <2> QED BY <1>1, <1>2, <2>1, <2>2
<1>6. /\ new \in Seq(Span) /\ Len(new) = Len(h) + Len(q)
      /\ \A k \in 1 .. Len(h) : new[k] = h[k]
      /\ \A k \in 1 .. Len(q) : new[Len(h) + k] = q[k]
  <2>1. h \in Seq(Span) /\ q \in Seq(Span) BY <1>3, <1>5
  <2> HIDE DEF h
  <2>2. LET w == h \o q IN
        /\ w \in Seq(Span) /\ Len(w) = Len(h) + Len(q)
        /\ \A k \in 1 .. Len(h) : w[k] = h[k]
        /\ \A k \in 1 .. Len(q) : w[Len(h) + k] = q[k]
    BY <2>1, ConcatFacts
  <2> QED BY <2>2
<1> HIDE DEF h, new
<1>7. new \in Spans /\ Len(new) = Len(a) + 1 + i - j BY <1>1, <1>3, <1>5, <1>6 DEF Spans
<1>8. ASSUME NEW k \in 1 .. Len(new)
      PROVE  new[k] = IF k < i THEN a[k] ELSE IF k = i THEN e ELSE a[k + j - i - 1]
  <2>1. CASE k < i BY <1>1, <1>5, <1>6, <2>1
  <2>2. CASE k = i BY <1>1, <1>5, <1>6, <2>2
  <2>3. CASE k > i
    <3>1. k - i \in 1 .. Len(q) BY <1>1, <1>3, <1>7, <2>3
    <3>2. new[i + (k - i)] = q[k - i] BY <1>5, <1>6, <3>1
    <3>3. q[k - i] = a[j + (k - i) - 1] BY <1>1, <1>3, <3>1
    <3>4. i + (k - i) = k /\ j + (k - i) - 1 = k + j - i - 1 BY <1>1, <1>7
    <3> QED BY <2>3, <3>2, <3>3, <3>4
  <2> QED BY <1>7, <1>1, <2>1, <2>2, <2>3
<1> QED BY <1>7, <1>8 DEF new, h, p, q, Replaced

\* add_span_to_row adds the pixels of the span and keeps the spans in order, also where
\* it closes gaps between them.
THEOREM AddSpanExact ==
  ASSUME NEW a \in Spans, InOrder(a), NEW left \in Int, NEW right \in Int, left < right
  PROVE  /\ add_span_to_row(a, left, right) \in Spans /\ InOrder(add_span_to_row(a, left, right))
         /\ add_span_to_row(a, left, right) # <<>>
         /\ \A x \in Int : Has(add_span_to_row(a, left, right), x) <=>
                             Has(a, x) \/ (left <= x /\ x < right)
<1> DEFINE i == LowerBound(a, 1, LAMBDA s : s.right >= left)
           j == LowerBound(a, i, LAMBDA s : s.left >= right + 1)
           e == IF j = i THEN [left |-> left, right |-> right]
                ELSE [left |-> Min({left, a[i].left}), right |-> Max({right, a[j - 1].right})]
           new == Replaced(a, i, j, e)
           n == Len(a)
<1>1. add_span_to_row(a, left, right) = new BY DEF add_span_to_row, Join, Replaced
<1>2. n \in Nat /\ DOMAIN a = 1 .. n /\ \A k \in 1 .. n : a[k].left \in Int /\ a[k].right \in Int
  BY SpansType
<1>3. /\ \A k \in 1 .. n : a[k].left < a[k].right
      /\ \A k, m \in 1 .. n : k < m => a[k].right < a[m].left
  BY <1>2 DEF InOrder
<1>4. /\ i \in 1 .. n + 1
      /\ \A k \in 1 .. n : k < i => a[k].right < left
      /\ i <= n => a[i].right >= left
  BY FirstRightFrom
<1>5. /\ j \in i .. n + 1
      /\ \A k \in i .. n : k < j => a[k].left < right + 1
      /\ j <= n => a[j].left >= right + 1
  <2>1. i \in 1 .. Len(a) + 1 /\ right + 1 \in Int BY <1>4
  <2> HIDE DEF i
  <2> QED BY <2>1, FirstLeftFrom
<1> HIDE DEF i, j
<1> DEFINE el == e.left
           er == e.right
<1>6. /\ el = IF j = i \/ left <= a[i].left THEN left ELSE a[i].left
      /\ er = IF j = i \/ right >= a[j - 1].right THEN right ELSE a[j - 1].right
      /\ e \in Span
  <2>1. CASE j = i BY <2>1 DEF Span
  <2>2. CASE j # i
    <3>1. a[i].left \in Int /\ a[j - 1].right \in Int BY <1>2, <1>4, <1>5, <2>2
    <3>2. /\ Min({left, a[i].left}) = IF left <= a[i].left THEN left ELSE a[i].left
          /\ Max({right, a[j - 1].right}) = IF right >= a[j - 1].right THEN right ELSE a[j - 1].right
      BY <3>1, MinMaxFacts
    <3>3. el = Min({left, a[i].left}) /\ er = Max({right, a[j - 1].right}) /\ e = [left |-> el, right |-> er]
      BY <2>2
    <3>4. el \in Int /\ er \in Int BY <3>1, <3>2, <3>3
    <3>5. e \in Span
      <4> HIDE DEF el, er, e
      <4> QED BY <3>3, <3>4 DEF Span
    <3> HIDE DEF el, er, e
    <3> QED BY <2>2, <3>2, <3>3, <3>5
  <2> QED BY <2>1, <2>2
<1>7. /\ new \in Spans /\ Len(new) = n + 1 + i - j
      /\ \A k \in 1 .. Len(new) : new[k] = IF k < i THEN a[k] ELSE IF k = i THEN e ELSE a[k + j - i - 1]
  <2>1. i \in 1 .. Len(a) + 1 /\ j \in i .. Len(a) + 1 /\ e \in Span BY <1>4, <1>5, <1>6
  <2> HIDE DEF e
  <2>2. /\ new \in Spans /\ Len(new) = Len(a) + 1 + i - j
        /\ \A k \in 1 .. Len(new) :
             new[k] = IF k < i THEN a[k] ELSE IF k = i THEN e ELSE a[k + j - i - 1]
    BY <2>1, ReplaceSpans
  <2> HIDE DEF new
  <2> QED BY <2>2
<1> HIDE DEF new, e, n
<1>8. el \in Int /\ er \in Int /\ el <= left /\ right <= er
  BY <1>2, <1>4, <1>5, <1>6
<1> HIDE DEF el, er
<1> DEFINE m == n + 1 + i - j
<1>9. m \in Nat \ {0} /\ i <= m BY <1>2, <1>4, <1>5
<1>10. /\ \A k \in 1 .. m : k < i => new[k] = a[k]
       /\ new[i] = e
       /\ \A k \in 1 .. m : k > i => new[k] = a[k + j - i - 1]
  BY <1>2, <1>4, <1>5, <1>7, <1>9
<1>11. e.left = el /\ e.right = er BY DEF el, er
<1>12. /\ \A k \in 1 .. n : k < i => a[k].right < el
       /\ \A k \in 1 .. n : k >= j => er < a[k].left
  <2>1. \A k \in 1 .. n : k < i => a[k].right < el
    <3> SUFFICES ASSUME NEW k \in 1 .. n, k < i PROVE a[k].right < el OBVIOUS
    <3>1. CASE j = i BY <3>1, <1>4, <1>6
    <3>2. CASE j # i
      <4>1. i \in 1 .. n BY <3>2, <1>2, <1>4, <1>5
      <4> QED BY <4>1, <3>2, <1>3, <1>4, <1>6
    <3> QED BY <3>1, <3>2
  <2>2. \A k \in 1 .. n : k >= j => er < a[k].left
    <3> SUFFICES ASSUME NEW k \in 1 .. n, k >= j PROVE er < a[k].left OBVIOUS
    <3>1. j \in 1 .. n /\ a[j].left >= right + 1 BY <1>2, <1>4, <1>5
    <3>2. a[j].left <= a[k].left
      <4>1. CASE k = j BY <4>1, <1>2
      <4>2. CASE k # j
        <5>1. a[j].right < a[k].left /\ a[j].left < a[j].right BY <4>2, <3>1, <1>2, <1>3
        <5> QED BY <5>1, <3>1, <1>2
      <4> QED BY <4>1, <4>2
    <3>3. CASE er = right BY <3>1, <3>2, <3>3, <1>2
    <3>4. CASE er # right
      <4>1. j # i /\ er = a[j - 1].right BY <3>4, <1>6
      <4>2. j - 1 \in 1 .. n /\ j - 1 < k BY <4>1, <3>1, <1>2, <1>4, <1>5
      <4> QED BY <4>1, <4>2, <1>3
    <3> QED BY <3>3, <3>4
  <2> QED BY <2>1, <2>2
<1>13. InOrder(new)
  <2>1. DOMAIN new = 1 .. m BY <1>7 DEF Spans
  <2>2. \A k \in 1 .. m : new[k].left < new[k].right
    <3> SUFFICES ASSUME NEW k \in 1 .. m PROVE new[k].left < new[k].right OBVIOUS
    <3>1. CASE k < i BY <3>1, <1>2, <1>3, <1>4, <1>10
    <3>2. CASE k = i BY <3>2, <1>8, <1>10, <1>11
    <3>3. CASE k > i
      <4>1. k + j - i - 1 \in 1 .. n BY <3>3, <1>2, <1>4, <1>5
      <4>2. new[k] = a[k + j - i - 1] BY <3>3, <1>10
      <4> QED BY <4>1, <4>2, <1>3
    <3> QED BY <3>1, <3>2, <3>3, <1>2, <1>4, <1>5
  <2>3. ASSUME NEW k \in 1 .. m, NEW l \in 1 .. m, k < l PROVE new[k].right < new[l].left
    <3> DEFINE kk == k + j - i - 1
               ll == l + j - i - 1
    <3>1. CASE l < i BY <3>1, <2>3, <1>2, <1>3, <1>4, <1>10
    <3>2. CASE l = i
      <4>1. k \in 1 .. n /\ new[k] = a[k] /\ new[l] = e BY <3>2, <2>3, <1>2, <1>4, <1>10
      <4> QED BY <3>2, <4>1, <2>3, <1>11, <1>12
    <3>3. CASE l > i
      <4>1. ll \in 1 .. n /\ ll >= j /\ new[l] = a[ll] BY <3>3, <1>2, <1>4, <1>5, <1>10
      <4>2. CASE k < i
        <5>1. k \in 1 .. n /\ k < ll /\ new[k] = a[k] BY <4>1, <4>2, <1>2, <1>4, <1>5, <1>10
        <5> QED BY <4>1, <5>1, <1>3
      <4>3. CASE k = i
        <5>1. new[k] = e BY <4>3, <1>10
        <5> HIDE DEF ll
        <5> QED BY <4>1, <5>1, <1>11, <1>12
      <4>4. CASE k > i
        <5>1. kk \in 1 .. n /\ kk < ll /\ new[k] = a[kk] BY <4>1, <4>4, <2>3, <1>2, <1>4, <1>5, <1>10
        <5> QED BY <4>1, <5>1, <1>3
      <4> QED BY <4>2, <4>3, <4>4, <1>2, <1>4, <1>5
    <3> QED BY <3>1, <3>2, <3>3, <1>2, <1>4, <1>5
  <2> QED BY <2>1, <2>2, <2>3 DEF InOrder
<1>14. ASSUME NEW x \in Int, Has(new, x) PROVE Has(a, x) \/ (left <= x /\ x < right)
  <2>1. PICK k \in 1 .. m : new[k].left <= x /\ x < new[k].right BY <1>7, <1>14 DEF Has
  <2>2. CASE k < i
    <3>1. k \in 1 .. n /\ new[k] = a[k] BY <2>2, <1>2, <1>4, <1>10
    <3> QED BY <2>1, <3>1 DEF Has, n
  <2>3. CASE k > i
    <3>1. k + j - i - 1 \in 1 .. n /\ new[k] = a[k + j - i - 1] BY <2>3, <1>2, <1>4, <1>5, <1>10
    <3> QED BY <2>1, <3>1 DEF Has, n
  <2>4. CASE k = i
    <3>1. el <= x /\ x < er BY <2>1, <2>4, <1>10, <1>11
    <3>2. CASE x < left
      <4>1. j # i /\ el = a[i].left BY <3>1, <3>2, <1>6, <1>8
      <4>2. i \in 1 .. n BY <4>1, <1>2, <1>4, <1>5
      <4>3. a[i].left <= x /\ x < a[i].right BY <3>1, <3>2, <4>1, <4>2, <1>2, <1>4
      <4> QED BY <4>2, <4>3 DEF Has, n
    <3>3. CASE x >= right
      <4>1. j # i /\ er = a[j - 1].right BY <3>1, <3>3, <1>6, <1>8
      <4>2. j - 1 \in i .. n /\ j - 1 < j BY <4>1, <1>2, <1>4, <1>5
      <4>3. j - 1 \in 1 .. n BY <4>2, <1>2, <1>4
      <4>4. a[j - 1].left <= x /\ x < a[j - 1].right BY <3>1, <3>3, <4>1, <4>2, <4>3, <1>2, <1>5
      <4> QED BY <4>3, <4>4 DEF Has, n
    <3> QED BY <3>2, <3>3
  <2> QED BY <2>2, <2>3, <2>4, <1>2, <1>4, <1>5
<1>15. ASSUME NEW x \in Int, Has(a, x) \/ (left <= x /\ x < right) PROVE Has(new, x)
  <2>1. ASSUME el <= x, x < er PROVE Has(new, x)
    <3>1. i \in 1 .. m /\ new[i] = e BY <1>2, <1>4, <1>9, <1>10
    <3>2. i \in 1 .. Len(new) BY <3>1, <1>7
    <3> QED BY <2>1, <3>1, <3>2, <1>11 DEF Has
  <2>2. CASE left <= x /\ x < right BY <2>1, <2>2, <1>8
  <2>3. CASE Has(a, x)
    <3>1. PICK k \in 1 .. n : a[k].left <= x /\ x < a[k].right BY <2>3 DEF Has, n
    <3>2. CASE k < i
      <4>1. k \in 1 .. Len(new) /\ new[k] = a[k] BY <3>2, <1>2, <1>4, <1>5, <1>7, <1>10
      <4> QED BY <3>1, <4>1 DEF Has
    <3>3. CASE k >= j
      <4> DEFINE kk == k + i + 1 - j
      <4>1. kk \in 1 .. m /\ kk > i /\ kk + j - i - 1 = k BY <3>3, <1>2, <1>4, <1>5
      <4>2. new[kk] = a[k] BY <4>1, <1>10
      <4>3. kk \in 1 .. Len(new) BY <4>1, <1>7
      <4> HIDE DEF kk
      <4> QED BY <3>1, <4>2, <4>3 DEF Has
    <3>4. CASE i <= k /\ k < j
      <4>1. j # i /\ i \in 1 .. n /\ j - 1 \in 1 .. n BY <3>4, <1>2, <1>4, <1>5
      <4>2. a[i].left <= a[k].left
        <5>1. CASE i = k BY <5>1, <1>2
        <5>2. CASE i < k
          <6>1. a[i].right < a[k].left /\ a[i].left < a[i].right BY <4>1, <5>2, <1>3
          <6> QED BY <4>1, <6>1, <1>2
        <5> QED BY <3>4, <5>1, <5>2, <1>2, <1>4
      <4>3. a[k].right <= a[j - 1].right
        <5>1. CASE j - 1 = k BY <5>1, <1>2
        <5>2. CASE k < j - 1
          <6>1. a[k].right < a[j - 1].left /\ a[j - 1].left < a[j - 1].right BY <4>1, <5>2, <1>3
          <6> QED BY <4>1, <6>1, <1>2
        <5> QED BY <3>4, <5>1, <5>2, <1>2, <1>4, <1>5
      <4>4. el <= a[i].left /\ a[j - 1].right <= er BY <4>1, <1>2, <1>6
      <4> QED BY <2>1, <3>1, <4>1, <4>2, <4>3, <4>4, <1>2, <1>8
    <3> QED BY <3>2, <3>3, <3>4, <1>2, <1>4, <1>5
  <2> QED BY <1>15, <2>2, <2>3
<1>16. new # <<>> BY <1>7, <1>9
<1> QED BY <1>1, <1>7, <1>13, <1>14, <1>15, <1>16

\* Spans make spans, in order or not.
LEMMA AddSpanType ==
  ASSUME NEW a \in Spans, NEW left \in Int, NEW right \in Int
  PROVE  add_span_to_row(a, left, right) \in Spans
<1> DEFINE i == LowerBound(a, 1, LAMBDA s : s.right >= left)
           j == LowerBound(a, i, LAMBDA s : s.left >= right + 1)
           e == IF j = i THEN [left |-> left, right |-> right]
                ELSE [left |-> Min({left, a[i].left}), right |-> Max({right, a[j - 1].right})]
<1>1. add_span_to_row(a, left, right) = Replaced(a, i, j, e) BY DEF add_span_to_row, Join, Replaced
<1>2. /\ Len(a) \in Nat /\ \A k \in 1 .. Len(a) : a[k].left \in Int /\ a[k].right \in Int
  BY SpansType
<1>3. i \in 1 .. Len(a) + 1 BY FirstRightFrom
<1>4. j \in i .. Len(a) + 1
  <2>1. right + 1 \in Int OBVIOUS
  <2> HIDE DEF i
  <2> QED BY <1>3, <2>1, FirstLeftFrom
<1> HIDE DEF i, j
<1>5. e \in Span
  <2>1. CASE j = i BY <2>1 DEF Span
  <2>2. CASE j # i
    <3>1. a[i].left \in Int /\ a[j - 1].right \in Int BY <1>2, <1>3, <1>4, <2>2
    <3>2. Min({left, a[i].left}) \in Int /\ Max({right, a[j - 1].right}) \in Int
      BY <3>1, MinMaxFacts
    <3> QED BY <2>2, <3>2 DEF Span
  <2> QED BY <2>1, <2>2
<1> HIDE DEF e
<1> QED BY <1>1, <1>3, <1>4, <1>5, ReplaceSpans

-----------------------------------------------------------------------------
\* Rows.

InRow(row, x, y) == row.top <= y /\ y < row.bottom /\ Has(row.spans, x)
On(rows, x, y) == \E i \in 1 .. Len(rows) : InRow(rows[i], x, y)
EndsBy(rows, y) == \A i \in 1 .. Len(rows) : rows[i].bottom <= y
BeginsFrom(rows, y) == \A i \in 1 .. Len(rows) : y <= rows[i].top
Before(a, b) == \A i \in 1 .. Len(a), j \in 1 .. Len(b) : a[i].bottom <= b[j].top

\* What rows are made of.
LEMMA RowsType ==
  ASSUME NEW a \in Rows
  PROVE  /\ Len(a) \in Nat /\ DOMAIN a = 1 .. Len(a)
         /\ \A i \in 1 .. Len(a) : /\ a[i] \in Row /\ a[i].top \in Int /\ a[i].bottom \in Int
                                   /\ a[i].spans \in Spans
<1>1. Len(a) \in Nat /\ DOMAIN a = 1 .. Len(a) /\ \A i \in 1 .. Len(a) : a[i] \in Row
  BY DEF Rows
<1> QED BY <1>1 DEF Row

\* A region, row by row.
LEMMA RegionRows ==
  ASSUME NEW a, IsRegion(a)
  PROVE  /\ a \in Rows
         /\ \A i \in 1 .. Len(a) : /\ IsRow(a[i]) /\ a[i].top < a[i].bottom
                                   /\ a[i].spans # <<>> /\ InOrder(a[i].spans)
         /\ \A i, j \in 1 .. Len(a) : i < j => a[i].bottom <= a[j].top
<1>1. a \in Rows BY DEF IsRegion
<1>2. DOMAIN a = 1 .. Len(a) BY <1>1, RowsType
<1>3. /\ \A i \in 1 .. Len(a) : IsRow(a[i])
      /\ \A i, j \in 1 .. Len(a) : i < j => a[i].bottom <= a[j].top
  BY <1>2 DEF IsRegion
<1> QED BY <1>1, <1>3 DEF IsRow

\* A row from its fields.
LEMMA RowOf ==
  ASSUME NEW t \in Int, NEW b \in Int, NEW spans \in Spans
  PROVE  LET row == [top |-> t, bottom |-> b, spans |-> spans] IN
         row \in Row /\ row.top = t /\ row.bottom = b /\ row.spans = spans
BY DEF Row

\* Nothing lies on no rows.
LEMMA NoRows ==
  /\ <<>> \in Rows /\ IsRegion(<<>>)
  /\ \A x, y \in Int : ~On(<<>>, x, y)
  /\ \A y \in Int : EndsBy(<<>>, y) /\ BeginsFrom(<<>>, y)
  /\ \A a : Before(<<>>, a) /\ Before(a, <<>>)
BY DEF Rows, IsRegion, On, EndsBy, BeginsFrom, Before

\* The first row and the others.
LEMMA RowsTail ==
  ASSUME NEW a \in Rows, a # <<>>
  PROVE  /\ Head(a) \in Row /\ Tail(a) \in Rows /\ Len(Tail(a)) = Len(a) - 1
         /\ \A x, y \in Int : On(a, x, y) <=> InRow(Head(a), x, y) \/ On(Tail(a), x, y)
         /\ IsRegion(a) => /\ IsRow(Head(a)) /\ IsRegion(Tail(a))
                           /\ BeginsFrom(Tail(a), Head(a).bottom)
<1> USE TailFacts DEF Rows
<1>1. /\ Head(a) \in Row /\ Tail(a) \in Rows /\ Len(Tail(a)) = Len(a) - 1 OBVIOUS
<1>2. ASSUME NEW x \in Int, NEW y \in Int, On(a, x, y)
      PROVE  InRow(Head(a), x, y) \/ On(Tail(a), x, y)
  <2>1. PICK i \in 1 .. Len(a) : InRow(a[i], x, y) BY <1>2 DEF On
  <2>2. CASE i = 1 BY <2>1, <2>2
  <2>3. CASE i # 1
    <3>1. i - 1 \in 1 .. Len(a) - 1 /\ Tail(a)[i - 1] = a[i] BY <2>3
    <3> QED BY <2>1, <3>1 DEF On
  <2> QED BY <2>2, <2>3
<1>3. ASSUME NEW x \in Int, NEW y \in Int, InRow(Head(a), x, y) \/ On(Tail(a), x, y)
      PROVE  On(a, x, y)
  <2>1. CASE InRow(Head(a), x, y) BY <2>1 DEF On
  <2>2. CASE On(Tail(a), x, y)
    <3>1. PICK i \in 1 .. Len(a) - 1 : InRow(a[i + 1], x, y) BY <2>2 DEF On
    <3>2. i + 1 \in 1 .. Len(a) OBVIOUS
    <3> QED BY <3>1, <3>2 DEF On
  <2> QED BY <1>3, <2>1, <2>2
<1>4. ASSUME IsRegion(a)
      PROVE  IsRow(Head(a)) /\ IsRegion(Tail(a)) /\ BeginsFrom(Tail(a), Head(a).bottom)
  <2>1. /\ \A i \in 1 .. Len(a) : IsRow(a[i])
        /\ \A i, j \in 1 .. Len(a) : i < j => a[i].bottom <= a[j].top
    BY <1>4, RegionRows
  <2>2. IsRegion(Tail(a))
    <3>1. \A i \in 1 .. Len(a) - 1 : IsRow(Tail(a)[i]) BY <2>1
    <3>2. ASSUME NEW i \in 1 .. Len(a) - 1, NEW j \in 1 .. Len(a) - 1, i < j
          PROVE  Tail(a)[i].bottom <= Tail(a)[j].top
      <4>1. i + 1 \in 1 .. Len(a) /\ j + 1 \in 1 .. Len(a) /\ i + 1 < j + 1 BY <3>2
      <4> QED BY <4>1, <2>1
    <3>3. DOMAIN Tail(a) = 1 .. Len(a) - 1 BY <1>1
    <3> QED BY <1>1, <3>1, <3>2, <3>3 DEF IsRegion
  <2>3. BeginsFrom(Tail(a), Head(a).bottom)
    <3> SUFFICES ASSUME NEW i \in 1 .. Len(a) - 1 PROVE Head(a).bottom <= Tail(a)[i].top
      BY DEF BeginsFrom
    <3>1. i + 1 \in 1 .. Len(a) /\ 1 \in 1 .. Len(a) /\ 1 < i + 1 OBVIOUS
    <3> QED BY <2>1, <3>1
  <2> QED BY <2>1, <2>2, <2>3
<1> QED BY <1>1, <1>2, <1>3, <1>4

\* The fields of a row.
LEMMA RowFields ==
  ASSUME NEW row \in Row
  PROVE  /\ row.top \in Int /\ row.bottom \in Int /\ row.spans \in Spans
         /\ row = [top |-> row.top, bottom |-> row.bottom, spans |-> row.spans]
         /\ IsRow(row) => row.top < row.bottom /\ row.spans # <<>> /\ InOrder(row.spans)
BY DEF Row, IsRow

\* Rows one after the other.
LEMMA RowsConcat ==
  ASSUME NEW a \in Rows, NEW b \in Rows
  PROVE  /\ a \o b \in Rows /\ Len(a \o b) = Len(a) + Len(b)
         /\ \A x, y \in Int : On(a \o b, x, y) <=> On(a, x, y) \/ On(b, x, y)
         /\ IsRegion(a) /\ IsRegion(b) /\ Before(a, b) => IsRegion(a \o b)
         /\ \A y \in Int : EndsBy(a \o b, y) <=> EndsBy(a, y) /\ EndsBy(b, y)
         /\ \A y \in Int : BeginsFrom(a \o b, y) <=> BeginsFrom(a, y) /\ BeginsFrom(b, y)
<1> DEFINE c == a \o b
           m == Len(a)
           n == Len(b)
<1>1. /\ c \in Rows /\ m \in Nat /\ n \in Nat /\ Len(c) = m + n
      /\ \A i \in 1 .. m : c[i] = a[i]
      /\ \A i \in 1 .. n : c[m + i] = b[i]
  BY ConcatFacts DEF Rows
<1> HIDE DEF c
<1>2. \A i \in 1 .. m + n : \/ i \in 1 .. m /\ c[i] = a[i]
                            \/ i - m \in 1 .. n /\ c[i] = b[i - m]
  <2> SUFFICES ASSUME NEW i \in 1 .. m + n, i > m PROVE i - m \in 1 .. n /\ c[i] = b[i - m]
    BY <1>1
  <2>1. i - m \in 1 .. n /\ m + (i - m) = i BY <1>1
  <2> QED BY <1>1, <2>1
<1>3. (\A i \in 1 .. m : i \in 1 .. m + n) /\ (\A i \in 1 .. n : m + i \in 1 .. m + n) BY <1>1
<1> HIDE DEF m, n
<1>4. \A x, y \in Int : On(c, x, y) <=> On(a, x, y) \/ On(b, x, y)
  <2> TAKE x \in Int, y \in Int
  <2>1. ASSUME On(c, x, y) PROVE On(a, x, y) \/ On(b, x, y)
    <3>1. PICK i \in 1 .. m + n : InRow(c[i], x, y) BY <2>1, <1>1 DEF On
    <3> QED BY <3>1, <1>2 DEF On, m, n
  <2>2. ASSUME On(a, x, y) PROVE On(c, x, y)
    <3>1. PICK i \in 1 .. m : InRow(a[i], x, y) BY <2>2 DEF On, m
    <3>2. i \in 1 .. Len(c) /\ c[i] = a[i] BY <1>1, <1>3
    <3> QED BY <3>1, <3>2 DEF On
  <2>3. ASSUME On(b, x, y) PROVE On(c, x, y)
    <3>1. PICK i \in 1 .. n : InRow(b[i], x, y) BY <2>3 DEF On, n
    <3>2. m + i \in 1 .. Len(c) /\ c[m + i] = b[i] BY <1>1, <1>3
    <3> QED BY <3>1, <3>2 DEF On
  <2> QED BY <2>1, <2>2, <2>3
<1>5. ASSUME IsRegion(a), IsRegion(b), Before(a, b) PROVE IsRegion(c)
  <2>1. DOMAIN c = 1 .. m + n BY <1>1, RowsType
  <2>2. /\ \A i \in 1 .. m : IsRow(a[i])
        /\ \A i, j \in 1 .. m : i < j => a[i].bottom <= a[j].top
    BY <1>5, RegionRows DEF m
  <2>3. /\ \A i \in 1 .. n : IsRow(b[i])
        /\ \A i, j \in 1 .. n : i < j => b[i].bottom <= b[j].top
    BY <1>5, RegionRows DEF n
  <2>4. \A i \in 1 .. m, j \in 1 .. n : a[i].bottom <= b[j].top BY <1>5 DEF Before, m, n
  <2>5. \A i \in 1 .. m + n : IsRow(c[i]) BY <1>2, <2>2, <2>3
  <2>6. ASSUME NEW i \in 1 .. m + n, NEW j \in 1 .. m + n, i < j PROVE c[i].bottom <= c[j].top
    <3>1. CASE j \in 1 .. m
      <4>1. i \in 1 .. m BY <3>1, <2>6, <1>1
      <4> QED BY <3>1, <4>1, <2>2, <2>6, <1>1
    <3>2. CASE j - m \in 1 .. n /\ c[j] = b[j - m]
      <4>1. CASE i \in 1 .. m /\ c[i] = a[i] BY <3>2, <4>1, <2>4
      <4>2. CASE i - m \in 1 .. n /\ c[i] = b[i - m]
        <5>1. i - m < j - m BY <2>6, <1>1
        <5> QED BY <3>2, <4>2, <5>1, <2>3
      <4> QED BY <4>1, <4>2, <1>2
    <3> QED BY <3>1, <3>2, <1>2
  <2> QED BY <1>1, <2>1, <2>5, <2>6 DEF IsRegion
<1>6. \A y \in Int : EndsBy(c, y) <=> EndsBy(a, y) /\ EndsBy(b, y)
  BY <1>1, <1>2, <1>3 DEF EndsBy, m, n
<1>7. \A y \in Int : BeginsFrom(c, y) <=> BeginsFrom(a, y) /\ BeginsFrom(b, y)
  BY <1>1, <1>2, <1>3 DEF BeginsFrom, m, n
<1> QED BY <1>1, <1>4, <1>5, <1>6, <1>7 DEF c, m, n

\* One row.
LEMMA OneRow ==
  ASSUME NEW row \in Row
  PROVE  /\ <<row>> \in Rows /\ Len(<<row>>) = 1
         /\ \A x, y \in Int : On(<<row>>, x, y) <=> InRow(row, x, y)
         /\ IsRow(row) => IsRegion(<<row>>)
         /\ \A y \in Int : EndsBy(<<row>>, y) <=> row.bottom <= y
         /\ \A y \in Int : BeginsFrom(<<row>>, y) <=> y <= row.top
<1>1. <<row>> \in Rows /\ Len(<<row>>) = 1 /\ <<row>>[1] = row /\ DOMAIN <<row>> = 1 .. 1
  BY DEF Rows
<1> DEFINE one == <<row>>
<1> HIDE DEF one
<1>2. \A i \in 1 .. 1 : i = 1 OBVIOUS
<1>3. 1 \in 1 .. 1 OBVIOUS
<1>4. one \in Rows /\ Len(one) = 1 /\ one[1] = row /\ DOMAIN one = 1 .. 1 BY <1>1 DEF one
<1>5. IsRow(row) => IsRegion(one) BY <1>2, <1>4 DEF IsRegion
<1>6. \A x, y \in Int : On(one, x, y) <=> InRow(row, x, y) BY <1>2, <1>3, <1>4 DEF On
<1>7. \A y \in Int : EndsBy(one, y) <=> row.bottom <= y BY <1>2, <1>3, <1>4 DEF EndsBy
<1>8. \A y \in Int : BeginsFrom(one, y) <=> y <= row.top BY <1>2, <1>3, <1>4 DEF BeginsFrom
<1> QED BY <1>4, <1>5, <1>6, <1>7, <1>8 DEF one

\* What ends by y and what begins from y on.
LEMMA BeforeAt ==
  ASSUME NEW a \in Rows, NEW b \in Rows
  PROVE  /\ \A y \in Int : EndsBy(a, y) /\ BeginsFrom(b, y) => Before(a, b)
         /\ b # <<>> /\ Before(a, b) => EndsBy(a, Head(b).top)
         /\ \A y, z \in Int : EndsBy(a, y) /\ y <= z => EndsBy(a, z)
         /\ \A y, z \in Int : BeginsFrom(b, z) /\ y <= z => BeginsFrom(b, y)
         /\ b # <<>> /\ IsRegion(b) => BeginsFrom(b, Head(b).top)
<1>1. \A i \in 1 .. Len(a) : a[i].bottom \in Int BY RowsType
<1>2. \A i \in 1 .. Len(b) : b[i].top \in Int /\ b[i].bottom \in Int BY RowsType
<1>3. b # <<>> => Len(b) \in Nat \ {0} /\ Head(b) = b[1] BY TailFacts DEF Rows
<1>4. \A y \in Int : EndsBy(a, y) /\ BeginsFrom(b, y) => Before(a, b)
  BY <1>1, <1>2 DEF EndsBy, BeginsFrom, Before
<1>5. b # <<>> /\ Before(a, b) => EndsBy(a, Head(b).top)
  <2>1. b # <<>> => 1 \in 1 .. Len(b) BY <1>3
  <2> QED BY <1>3, <2>1 DEF Before, EndsBy
<1>6. \A y, z \in Int : EndsBy(a, y) /\ y <= z => EndsBy(a, z) BY <1>1 DEF EndsBy
<1>7. \A y, z \in Int : BeginsFrom(b, z) /\ y <= z => BeginsFrom(b, y) BY <1>2 DEF BeginsFrom
<1>8. ASSUME b # <<>>, IsRegion(b) PROVE BeginsFrom(b, Head(b).top)
  <2>1. \A i, j \in 1 .. Len(b) : i < j => b[i].bottom <= b[j].top BY <1>8, RegionRows
  <2>2. \A i \in 1 .. Len(b) : b[i].top < b[i].bottom BY <1>8, RegionRows
  <2>3. 1 \in 1 .. Len(b) BY <1>3, <1>8
  <2>4. ASSUME NEW i \in 1 .. Len(b) PROVE b[1].top <= b[i].top
    <3>1. CASE i = 1 BY <1>2, <3>1
    <3>2. CASE i # 1
      <4>1. b[1].bottom <= b[i].top /\ b[1].top < b[1].bottom BY <2>1, <2>2, <2>3, <3>2
      <4> QED BY <1>2, <2>3, <4>1
    <3> QED BY <3>1, <3>2
  <2> QED BY <1>3, <1>8, <2>4 DEF BeginsFrom
<1> QED BY <1>4, <1>5, <1>6, <1>7, <1>8

\* Pixels of rows that end by y or begin from y on.
LEMMA OnSide ==
  ASSUME NEW a \in Rows, NEW x \in Int, NEW y \in Int, NEW z \in Int, On(a, x, y)
  PROVE  /\ EndsBy(a, z) => y < z
         /\ BeginsFrom(a, z) => z <= y
<1>1. PICK i \in 1 .. Len(a) : InRow(a[i], x, y) BY DEF On
<1>2. a[i].top \in Int /\ a[i].bottom \in Int BY RowsType
<1> QED BY <1>1, <1>2 DEF InRow, EndsBy, BeginsFrom

\* A row after the others.
LEMMA RowsAppend ==
  ASSUME NEW a \in Rows, NEW row \in Row
  PROVE  /\ Append(a, row) \in Rows /\ Append(a, row) # <<>> /\ Append(a, row) = a \o <<row>>
         /\ \A x, y \in Int : On(Append(a, row), x, y) <=> On(a, x, y) \/ InRow(row, x, y)
         /\ IsRegion(a) /\ IsRow(row) /\ EndsBy(a, row.top) => IsRegion(Append(a, row))
         /\ \A y \in Int : EndsBy(Append(a, row), y) <=> EndsBy(a, y) /\ row.bottom <= y
<1>1. Append(a, row) = a \o <<row>> BY AppendIsConcat DEF Rows
<1>2. Append(a, row) # <<>> BY AppendFacts DEF Rows
<1>3. row.top \in Int BY RowFields
<1>4. /\ <<row>> \in Rows /\ (\A x, y \in Int : On(<<row>>, x, y) <=> InRow(row, x, y))
      /\ IsRow(row) => IsRegion(<<row>>)
      /\ \A y \in Int : EndsBy(<<row>>, y) <=> row.bottom <= y
      /\ BeginsFrom(<<row>>, row.top)
  BY <1>3, OneRow
<1>5. EndsBy(a, row.top) => Before(a, <<row>>) BY <1>3, <1>4, BeforeAt
<1> DEFINE one == <<row>>
           c == a \o one
<1> HIDE DEF one
<1>6. /\ c \in Rows
      /\ \A x, y \in Int : On(c, x, y) <=> On(a, x, y) \/ On(one, x, y)
      /\ IsRegion(a) /\ IsRegion(one) /\ Before(a, one) => IsRegion(c)
      /\ \A y \in Int : EndsBy(c, y) <=> EndsBy(a, y) /\ EndsBy(one, y)
  BY <1>4, RowsConcat DEF one
<1> HIDE DEF c
<1> QED BY <1>1, <1>2, <1>4, <1>5, <1>6 DEF one, c
-----------------------------------------------------------------------------
\* The steps of a walk along rows.

\* A row that goes on where the last one ends.
LEMMA Lengthened ==
  ASSUME NEW a \in Rows, a # <<>>, NEW b \in Int
  PROVE  LET new == [a EXCEPT ![Len(a)].bottom = b] IN
         /\ new \in Rows /\ new # <<>> /\ Len(new) = Len(a) /\ Len(a) \in Nat \ {0}
         /\ \A i \in 1 .. Len(a) : i # Len(a) => new[i] = a[i]
         /\ new[Len(a)].top = a[Len(a)].top /\ new[Len(a)].bottom = b
         /\ new[Len(a)].spans = a[Len(a)].spans
<1> DEFINE n == Len(a)
           new == [a EXCEPT ![n].bottom = b]
           last == [a[n] EXCEPT !.bottom = b]
<1>1. n \in Nat \ {0} /\ DOMAIN a = 1 .. n /\ \A i \in 1 .. n : a[i] \in Row
  BY TailFacts, RowsType DEF Rows
<1>2. a[n] \in Row BY <1>1
<1>3. last \in Row /\ last.top = a[n].top /\ last.bottom = b /\ last.spans = a[n].spans
  BY <1>2 DEF Row
<1>4. new[n] = last BY <1>1
<1>5. \A i \in 1 .. n : i # n => new[i] = a[i] BY <1>1
<1>6. DOMAIN new = 1 .. n /\ new = [i \in 1 .. n |-> new[i]] BY <1>1
<1> HIDE DEF new, last
<1>7. \A i \in 1 .. n : new[i] \in Row BY <1>1, <1>3, <1>4, <1>5
<1>8. new \in [1 .. n -> Row] BY <1>6, <1>7
<1>9. new \in Rows /\ Len(new) = n /\ new # <<>>
  <2> HIDE DEF n
  <2> QED BY <1>1, <1>8 DEF Rows
<1> QED BY <1>1, <1>3, <1>4, <1>5, <1>9 DEF new

\* merge_with_preceding_row and the step to the next row: the row is added, whether it
\* lengthens the one before or not.
LEMMA PushFacts ==
  ASSUME NEW a \in Rows, NEW row \in Row
  PROVE  /\ Push(a, row) \in Rows /\ Push(a, row) # <<>>
         /\ IsRegion(a) /\ IsRow(row) /\ EndsBy(a, row.top) =>
              /\ IsRegion(Push(a, row)) /\ EndsBy(Push(a, row), row.bottom)
              /\ \A x, y \in Int : On(Push(a, row), x, y) <=> On(a, x, y) \/ InRow(row, x, y)
<1>1. /\ row.top \in Int /\ row.bottom \in Int /\ row.spans \in Spans
      /\ IsRow(row) => row.top < row.bottom /\ row.spans # <<>> /\ InOrder(row.spans)
  BY RowFields
<1>2. CASE ~(a # <<>> /\ Last(a).bottom = row.top /\ Last(a).spans = row.spans)
  <2>1. Push(a, row) = Append(a, row) BY <1>2, Zenon DEF Push
  <2> DEFINE new == Append(a, row)
  <2>2. /\ new \in Rows /\ new # <<>>
        /\ \A x, y \in Int : On(new, x, y) <=> On(a, x, y) \/ InRow(row, x, y)
        /\ IsRegion(a) /\ IsRow(row) /\ EndsBy(a, row.top) => IsRegion(new)
        /\ \A y \in Int : EndsBy(new, y) <=> EndsBy(a, y) /\ row.bottom <= y
    BY RowsAppend
  <2> HIDE DEF new
  <2>3. IsRow(row) /\ EndsBy(a, row.top) => EndsBy(a, row.bottom)
    <3>1. \A y, z \in Int : EndsBy(a, y) /\ y <= z => EndsBy(a, z) BY BeforeAt
    <3> QED BY <1>1, <3>1
  <2>4. IsRow(row) /\ EndsBy(a, row.top) => EndsBy(new, row.bottom) BY <1>1, <2>2, <2>3
  <2>5. Push(a, row) = new BY <2>1 DEF new
  <2> QED BY <2>2, <2>4, <2>5
<1>3. CASE a # <<>> /\ Last(a).bottom = row.top /\ Last(a).spans = row.spans
  <2> DEFINE n == Len(a)
             new == [a EXCEPT ![n].bottom = row.bottom]
  <2>1. Push(a, row) = new BY <1>3 DEF Push
  <2>2. a[n].bottom = row.top /\ a[n].spans = row.spans BY <1>3 DEF Last
  <2>3. /\ new \in Rows /\ new # <<>> /\ Len(new) = n /\ n \in Nat \ {0}
        /\ \A i \in 1 .. n : i # n => new[i] = a[i]
        /\ new[n].top = a[n].top /\ new[n].bottom = row.bottom
        /\ new[n].spans = a[n].spans
    BY <1>1, <1>3, Lengthened
  <2> HIDE DEF new
  <2>4. \A i \in 1 .. n : a[i].top \in Int /\ a[i].bottom \in Int BY RowsType
  <2>5. ASSUME IsRegion(a), IsRow(row), EndsBy(a, row.top)
        PROVE  /\ IsRegion(new) /\ EndsBy(new, row.bottom)
               /\ \A x, y \in Int : On(new, x, y) <=> On(a, x, y) \/ InRow(row, x, y)
    <3>1. /\ \A i \in 1 .. n : IsRow(a[i]) /\ a[i].top < a[i].bottom
          /\ \A i, j \in 1 .. n : i < j => a[i].bottom <= a[j].top
      BY <2>5, RegionRows
    <3>2. row.top < row.bottom /\ row.spans # <<>> /\ InOrder(row.spans) BY <1>1, <2>5
    <3> HIDE DEF n
    <3>3. n \in 1 .. n /\ a[n].top < a[n].bottom BY <2>3, <3>1
    <3>4. IsRow(new[n]) BY <1>1, <2>2, <2>3, <2>4, <3>2, <3>3 DEF IsRow
    <3>5. \A i \in 1 .. n : IsRow(new[i]) BY <2>3, <3>1, <3>4
    <3>6. ASSUME NEW i \in 1 .. n, NEW j \in 1 .. n, i < j PROVE new[i].bottom <= new[j].top
      <4>1. i # n /\ new[i] = a[i] BY <2>3, <3>6
      <4>2. new[j].top = a[j].top BY <2>3
      <4> QED BY <4>1, <4>2, <3>1, <3>6
    <3>7. DOMAIN new = 1 .. n BY <2>3, RowsType
    <3>8. IsRegion(new) BY <2>3, <3>5, <3>6, <3>7 DEF IsRegion
    <3>9. EndsBy(new, row.bottom)
      <4>1. \A i \in 1 .. n : new[i].bottom <= row.bottom
        <5> SUFFICES ASSUME NEW i \in 1 .. n PROVE new[i].bottom <= row.bottom OBVIOUS
        <5>1. CASE i = n BY <5>1, <1>1, <2>3
        <5>2. CASE i # n
          <6>1. a[i].bottom <= a[n].top BY <3>1, <3>3, <5>2, <2>3
          <6> QED BY <6>1, <5>2, <2>2, <2>3, <2>4, <3>2, <3>3, <1>1
        <5> QED BY <5>1, <5>2
      <4> QED BY <4>1, <2>3 DEF EndsBy
    <3>10. ASSUME NEW x \in Int, NEW y \in Int
           PROVE  On(new, x, y) <=> On(a, x, y) \/ InRow(row, x, y)
      <4>1. InRow(new[n], x, y) <=> InRow(a[n], x, y) \/ InRow(row, x, y)
        <5>1. InRow(new[n], x, y) <=> a[n].top <= y /\ y < row.bottom /\ Has(row.spans, x)
          BY <2>2, <2>3 DEF InRow
        <5>2. InRow(a[n], x, y) <=> a[n].top <= y /\ y < row.top /\ Has(row.spans, x)
          BY <2>2 DEF InRow
        <5> QED BY <5>1, <5>2, <1>1, <2>2, <2>4, <3>2, <3>3 DEF InRow
      <4>2. ASSUME On(new, x, y) PROVE On(a, x, y) \/ InRow(row, x, y)
        <5>1. PICK i \in 1 .. n : InRow(new[i], x, y) BY <4>2, <2>3 DEF On
        <5>2. CASE i = n BY <5>1, <5>2, <4>1, <3>3 DEF On, n
        <5>3. CASE i # n BY <5>1, <5>3, <2>3 DEF On, n
        <5> QED BY <5>2, <5>3
      <4>3. ASSUME InRow(row, x, y) PROVE On(new, x, y) BY <4>1, <4>3, <2>3, <3>3 DEF On
      <4>4. ASSUME On(a, x, y) PROVE On(new, x, y)
        <5>1. PICK i \in 1 .. n : InRow(a[i], x, y) BY <4>4 DEF On, n
        <5>2. CASE i = n BY <5>1, <5>2, <4>1, <2>3, <3>3 DEF On
        <5>3. CASE i # n
          <6>1. InRow(new[i], x, y) BY <5>1, <5>3, <2>3
          <6> QED BY <6>1, <2>3 DEF On
        <5> QED BY <5>2, <5>3
      <4> QED BY <4>2, <4>3, <4>4
    <3> QED BY <3>8, <3>9, <3>10
  <2> QED BY <2>1, <2>3, <2>5
<1> QED BY <1>2, <1>3

\* The end of a walk.
LEMMA JoinedFacts ==
  ASSUME NEW a \in Rows, NEW b \in Rows
  PROVE  /\ Joined(a, b) \in Rows
         /\ IsRegion(a) /\ IsRegion(b) /\ Before(a, b) =>
              /\ IsRegion(Joined(a, b))
              /\ \A x, y \in Int : On(Joined(a, b), x, y) <=> On(a, x, y) \/ On(b, x, y)
<1>1. CASE b = <<>>
  <2>1. Joined(a, b) = a BY <1>1 DEF Joined
  <2>2. \A x, y \in Int : ~On(b, x, y) BY <1>1, NoRows
  <2> QED BY <2>1, <2>2
<1>2. CASE b # <<>>
  <2> DEFINE h == Head(b)
             t == Tail(b)
             p == Push(a, h)
  <2>1. /\ h \in Row /\ t \in Rows
        /\ \A x, y \in Int : On(b, x, y) <=> InRow(h, x, y) \/ On(t, x, y)
        /\ IsRegion(b) => IsRow(h) /\ IsRegion(t) /\ BeginsFrom(t, h.bottom)
    BY <1>2, RowsTail
  <2>2. IsRegion(b) /\ Before(a, b) => EndsBy(a, h.top) BY <1>2, BeforeAt
  <2>3. Joined(a, b) = p \o t BY <1>2 DEF Joined
  <2> HIDE DEF h, t
  <2>4. /\ p \in Rows
        /\ IsRegion(a) /\ IsRow(h) /\ EndsBy(a, h.top) =>
              /\ IsRegion(p) /\ EndsBy(p, h.bottom)
              /\ \A x, y \in Int : On(p, x, y) <=> On(a, x, y) \/ InRow(h, x, y)
    BY <2>1, PushFacts
  <2> HIDE DEF p
  <2>5. /\ p \o t \in Rows
        /\ \A x, y \in Int : On(p \o t, x, y) <=> On(p, x, y) \/ On(t, x, y)
        /\ IsRegion(p) /\ IsRegion(t) /\ Before(p, t) => IsRegion(p \o t)
    BY <2>1, <2>4, RowsConcat
  <2>6. EndsBy(p, h.bottom) /\ BeginsFrom(t, h.bottom) => Before(p, t)
    BY <2>1, <2>4, RowFields, BeforeAt
  <2> QED BY <2>1, <2>2, <2>3, <2>4, <2>5, <2>6
<1> QED BY <1>1, <1>2

\* The part of a row above top.
LEMMA AboveFacts ==
  ASSUME NEW a \in Rows, NEW row \in Row, NEW top \in Int
  PROVE  /\ Above(a, row, top) \in Rows
         /\ IsRegion(a) /\ IsRow(row) /\ EndsBy(a, row.top) /\ row.top <= top /\ top <= row.bottom =>
              /\ IsRegion(Above(a, row, top)) /\ EndsBy(Above(a, row, top), top)
              /\ \A x, y \in Int : On(Above(a, row, top), x, y) <=>
                                     On(a, x, y) \/ (InRow(row, x, y) /\ y < top)
<1>1. /\ row.top \in Int /\ row.bottom \in Int /\ row.spans \in Spans
      /\ row = [top |-> row.top, bottom |-> row.bottom, spans |-> row.spans]
      /\ IsRow(row) => row.top < row.bottom /\ row.spans # <<>> /\ InOrder(row.spans)
  BY RowFields
<1>2. CASE top > row.top
  <2> DEFINE upper == [row EXCEPT !.bottom = top]
             new == Append(a, upper)
  <2>1. Above(a, row, top) = new BY <1>2 DEF Above
  <2>2. /\ upper \in Row /\ upper.top = row.top /\ upper.bottom = top /\ upper.spans = row.spans
    BY <1>1 DEF Row
  <2> HIDE DEF upper
  <2>3. /\ new \in Rows
        /\ \A x, y \in Int : On(new, x, y) <=> On(a, x, y) \/ InRow(upper, x, y)
        /\ IsRegion(a) /\ IsRow(upper) /\ EndsBy(a, upper.top) => IsRegion(new)
        /\ \A y \in Int : EndsBy(new, y) <=> EndsBy(a, y) /\ upper.bottom <= y
    BY <2>2, RowsAppend
  <2> HIDE DEF new
  <2>4. IsRow(row) => IsRow(upper) BY <1>1, <1>2, <2>2 DEF IsRow
  <2>5. top <= row.bottom =>
          \A x, y \in Int : InRow(upper, x, y) <=> InRow(row, x, y) /\ y < top
    BY <1>1, <2>2 DEF InRow
  <2>6. EndsBy(a, row.top) => EndsBy(a, top)
    <3>1. \A y, z \in Int : EndsBy(a, y) /\ y <= z => EndsBy(a, z) BY BeforeAt
    <3> QED BY <1>1, <1>2, <3>1
  <2> QED BY <2>1, <2>2, <2>3, <2>4, <2>5, <2>6
<1>3. CASE ~(top > row.top)
  <2>1. Above(a, row, top) = a BY <1>3 DEF Above
  <2>2. \A x, y \in Int : ~(InRow(row, x, y) /\ y < top) BY <1>1, <1>3 DEF InRow
  <2>3. row.top <= top => row.top = top BY <1>1, <1>3
  <2> QED BY <2>1, <2>2, <2>3
<1> QED BY <1>2, <1>3

\* The part of a row between top and bottom.
LEMMA BetweenFacts ==
  ASSUME NEW row \in Row, NEW top \in Int, NEW bottom \in Int
  PROVE  LET part == Between(row, top, bottom) IN
         /\ part \in Row /\ part.top = top /\ part.spans = row.spans
         /\ part.bottom = IF row.bottom <= bottom THEN row.bottom ELSE bottom
<1>1. /\ row.top \in Int /\ row.bottom \in Int /\ row.spans \in Spans
      /\ row = [top |-> row.top, bottom |-> row.bottom, spans |-> row.spans]
  BY RowFields
<1>2. Min({row.bottom, bottom}) = IF row.bottom <= bottom THEN row.bottom ELSE bottom
  BY <1>1, MinMaxFacts
<1> DEFINE m == Min({row.bottom, bottom})
<1>3. Between(row, top, bottom) = [row EXCEPT !.top = top, !.bottom = m] BY <1>1 DEF Between, Row
<1> HIDE DEF m
<1>4. m \in Int /\ m = IF row.bottom <= bottom THEN row.bottom ELSE bottom BY <1>1, <1>2 DEF m
<1> DEFINE part == Between(row, top, bottom)
<1>5. part \in Row BY <1>3, <1>4 DEF Row
<1>6. part.top = top /\ part.bottom = m /\ part.spans = row.spans BY <1>3 DEF Row
<1> HIDE DEF part
<1> QED BY <1>4, <1>5, <1>6 DEF part

\* The part of a row below bottom, and the rows after it.
LEMMA BelowFacts ==
  ASSUME NEW row \in Row, NEW bottom \in Int, NEW rest \in Rows
  PROVE  /\ Below(row, bottom, rest) \in Rows
         /\ Len(Below(row, bottom, rest)) = IF bottom < row.bottom THEN Len(rest) + 1 ELSE Len(rest)
         /\ row.bottom <= bottom => Below(row, bottom, rest) = rest
         /\ IsRow(row) /\ IsRegion(rest) /\ BeginsFrom(rest, row.bottom) /\ row.top <= bottom =>
              /\ IsRegion(Below(row, bottom, rest))
              /\ BeginsFrom(Below(row, bottom, rest), IF row.bottom <= bottom THEN row.bottom ELSE bottom)
              /\ \A x, y \in Int : On(Below(row, bottom, rest), x, y) <=>
                                     On(rest, x, y) \/ (InRow(row, x, y) /\ bottom <= y)
<1>1. /\ row.top \in Int /\ row.bottom \in Int /\ row.spans \in Spans
      /\ row = [top |-> row.top, bottom |-> row.bottom, spans |-> row.spans]
      /\ IsRow(row) => row.top < row.bottom /\ row.spans # <<>> /\ InOrder(row.spans)
  BY RowFields
<1>2. CASE bottom < row.bottom
  <2> DEFINE lower == [row EXCEPT !.top = bottom]
             one == <<lower>>
             new == one \o rest
  <2>1. Below(row, bottom, rest) = new BY <1>2 DEF Below
  <2>2. /\ lower \in Row /\ lower.top = bottom /\ lower.bottom = row.bottom /\ lower.spans = row.spans
    BY <1>1 DEF Row
  <2> HIDE DEF lower
  <2>3. /\ one \in Rows /\ Len(one) = 1
        /\ \A x, y \in Int : On(one, x, y) <=> InRow(lower, x, y)
        /\ IsRow(lower) => IsRegion(one)
        /\ EndsBy(one, row.bottom)
        /\ \A y \in Int : BeginsFrom(one, y) <=> y <= lower.top
    BY <1>1, <2>2, OneRow
  <2> HIDE DEF one
  <2>4. /\ new \in Rows /\ Len(new) = Len(one) + Len(rest)
        /\ \A x, y \in Int : On(new, x, y) <=> On(one, x, y) \/ On(rest, x, y)
        /\ IsRegion(one) /\ IsRegion(rest) /\ Before(one, rest) => IsRegion(new)
        /\ \A y \in Int : BeginsFrom(new, y) <=> BeginsFrom(one, y) /\ BeginsFrom(rest, y)
    BY <2>3, RowsConcat
  <2> HIDE DEF new
  <2>5. IsRow(row) => IsRow(lower) BY <1>1, <1>2, <2>2 DEF IsRow
  <2>6. row.top <= bottom =>
          \A x, y \in Int : InRow(lower, x, y) <=> InRow(row, x, y) /\ bottom <= y
    BY <1>1, <2>2 DEF InRow
  <2>7. BeginsFrom(rest, row.bottom) => Before(one, rest) /\ BeginsFrom(rest, bottom)
    <3>1. \A y \in Int : EndsBy(one, y) /\ BeginsFrom(rest, y) => Before(one, rest)
      BY <2>3, BeforeAt
    <3>2. \A y, z \in Int : BeginsFrom(rest, z) /\ y <= z => BeginsFrom(rest, y) BY BeforeAt
    <3> QED BY <1>1, <1>2, <2>3, <3>1, <3>2
  <2>8. Len(new) = Len(rest) + 1 /\ ~(row.bottom <= bottom)
    <3>1. Len(rest) \in Nat BY RowsType
    <3> QED BY <1>1, <1>2, <2>3, <2>4, <3>1
  <2>9. BeginsFrom(one, bottom) BY <2>2, <2>3
  <2>10. BeginsFrom(rest, row.bottom) => BeginsFrom(new, bottom) BY <2>4, <2>7, <2>9
  <2>11. IsRow(row) /\ IsRegion(rest) /\ BeginsFrom(rest, row.bottom) => IsRegion(new)
    BY <2>3, <2>4, <2>5, <2>7
  <2>12. row.top <= bottom => \A x, y \in Int : On(new, x, y) <=>
                                On(rest, x, y) \/ (InRow(row, x, y) /\ bottom <= y)
    BY <2>3, <2>4, <2>6
  <2> QED BY <1>2, <2>1, <2>4, <2>8, <2>10, <2>11, <2>12
<1>3. CASE ~(bottom < row.bottom)
  <2>1. Below(row, bottom, rest) = rest BY <1>3 DEF Below
  <2>2. \A x, y \in Int : ~(InRow(row, x, y) /\ bottom <= y) BY <1>1, <1>3 DEF InRow
  <2>3. row.bottom <= bottom BY <1>1, <1>3
  <2> QED BY <1>3, <2>1, <2>2, <2>3
<1> QED BY <1>2, <1>3

\* Where the walk begins: the rows that end by y, and those that end below it.
LEMMA SplitFacts ==
  ASSUME NEW a \in Rows, NEW y0 \in Int
  PROVE  /\ UpTo(a, y0) \in Rows /\ From(a, y0) \in Rows
         /\ IsRegion(a) =>
              /\ IsRegion(UpTo(a, y0)) /\ IsRegion(From(a, y0)) /\ Before(UpTo(a, y0), From(a, y0))
              /\ EndsBy(UpTo(a, y0), y0)
              /\ \A x, y \in Int : On(a, x, y) <=> On(UpTo(a, y0), x, y) \/ On(From(a, y0), x, y)
              /\ From(a, y0) # <<>> => y0 < Head(From(a, y0)).bottom
<1> DEFINE T == {k \in 1 .. Len(a) : a[k].bottom > y0} \cup {Len(a) + 1}
           i == upper_bound(a, y0)
           p == UpTo(a, y0)
           q == From(a, y0)
           n == Len(a)
<1>1. i = Min(T) BY DEF upper_bound, LowerBound
<1>2. n \in Nat /\ \A k \in 1 .. n : a[k].top \in Int /\ a[k].bottom \in Int BY RowsType
<1>3. T \in SUBSET Nat /\ T # {} BY <1>2
<1>4. Min(T) \in T /\ \A k \in T : Min(T) <= k
  <2> HIDE DEF T
  <2> QED BY <1>3, MinNat
<1> HIDE DEF i
<1>5. i \in T /\ \A k \in T : i <= k BY <1>1, <1>4, Zenon
<1>6. i \in 1 .. n + 1 BY <1>2, <1>5
<1>7. \A k \in 1 .. n : k < i => a[k].bottom <= y0
  <2> SUFFICES ASSUME NEW k \in 1 .. n, k < i PROVE a[k].bottom <= y0 OBVIOUS
  <2>1. k \notin T BY <1>5, <1>6
  <2> QED BY <1>2, <2>1
<1>8. i <= n => a[i].bottom > y0 BY <1>2, <1>5
<1> HIDE DEF T
<1>9. p \in Rows /\ Len(p) = i - 1 /\ \A k \in 1 .. i - 1 : p[k] = a[k]
  <2>1. p = SubSeq(a, 1, i - 1) BY DEF UpTo, i
  <2>2. 1 \in 1 .. Len(a) + 1 /\ i - 1 \in 0 .. Len(a) /\ 1 <= (i - 1) + 1 BY <1>2, <1>6
  <2> HIDE DEF p
  <2>3. p \in Seq(Row) /\ Len(p) = (i - 1) - 1 + 1 /\ \A k \in 1 .. (i - 1) - 1 + 1 : p[k] = a[1 + k - 1]
    BY <2>1, <2>2, SubSeqFacts DEF Rows
  <2> QED BY <1>6, <2>3 DEF Rows
<1>10. q \in Rows /\ Len(q) = n - i + 1 /\ \A k \in 1 .. n - i + 1 : q[k] = a[i + k - 1]
  <2>1. q = SubSeq(a, i, n) BY DEF From, i
  <2>2. i \in 1 .. Len(a) + 1 /\ n \in 0 .. Len(a) /\ i <= n + 1 BY <1>2, <1>6
  <2> HIDE DEF q
  <2> QED BY <2>1, <2>2, SubSeqFacts DEF Rows
<1> HIDE DEF p, q
<1>11. ASSUME IsRegion(a)
       PROVE  /\ IsRegion(p) /\ IsRegion(q) /\ Before(p, q) /\ EndsBy(p, y0)
              /\ \A x, y \in Int : On(a, x, y) <=> On(p, x, y) \/ On(q, x, y)
              /\ q # <<>> => y0 < Head(q).bottom
  <2>1. /\ \A k \in 1 .. n : IsRow(a[k])
        /\ \A k, m \in 1 .. n : k < m => a[k].bottom <= a[m].top
    BY <1>11, RegionRows
  <2> HIDE DEF n
  <2>2. \A k \in 1 .. i - 1 : k \in 1 .. n /\ k < i BY <1>2, <1>6
  <2>3. \A k \in 1 .. n - i + 1 : i + k - 1 \in 1 .. n /\ i <= i + k - 1 BY <1>2, <1>6
  <2>4. IsRegion(p)
    <3>1. \A k \in 1 .. i - 1 : IsRow(p[k]) BY <1>9, <2>1, <2>2
    <3>2. ASSUME NEW k \in 1 .. i - 1, NEW m \in 1 .. i - 1, k < m PROVE p[k].bottom <= p[m].top
      BY <1>9, <2>1, <2>2, <3>2
    <3>3. DOMAIN p = 1 .. i - 1 BY <1>9, RowsType
    <3> QED BY <1>9, <3>1, <3>2, <3>3 DEF IsRegion
  <2>5. IsRegion(q)
    <3>1. \A k \in 1 .. n - i + 1 : IsRow(q[k]) BY <1>10, <2>1, <2>3
    <3>2. ASSUME NEW k \in 1 .. n - i + 1, NEW m \in 1 .. n - i + 1, k < m
          PROVE  q[k].bottom <= q[m].top
      <4>1. i + k - 1 \in 1 .. n /\ i + m - 1 \in 1 .. n /\ i + k - 1 < i + m - 1
        BY <2>3, <3>2, <1>6
      <4> QED BY <4>1, <1>10, <2>1
    <3>3. DOMAIN q = 1 .. n - i + 1 BY <1>10, RowsType
    <3> QED BY <1>10, <3>1, <3>2, <3>3 DEF IsRegion
  <2>6. Before(p, q)
    <3> SUFFICES ASSUME NEW k \in 1 .. i - 1, NEW m \in 1 .. n - i + 1 PROVE p[k].bottom <= q[m].top
      BY <1>9, <1>10 DEF Before
    <3>1. k \in 1 .. n /\ i + m - 1 \in 1 .. n /\ k < i + m - 1 BY <2>2, <2>3, <1>6
    <3> QED BY <3>1, <1>9, <1>10, <2>1
  <2>7. EndsBy(p, y0) BY <1>7, <1>9, <2>2 DEF EndsBy
  <2>8. ASSUME NEW x \in Int, NEW y \in Int PROVE On(a, x, y) <=> On(p, x, y) \/ On(q, x, y)
    <3>1. ASSUME On(a, x, y) PROVE On(p, x, y) \/ On(q, x, y)
      <4>1. PICK k \in 1 .. n : InRow(a[k], x, y) BY <3>1 DEF On, n
      <4>2. CASE k < i
        <5>1. k \in 1 .. i - 1 BY <4>2, <1>6
        <5> QED BY <4>1, <5>1, <1>9 DEF On
      <4>3. CASE k >= i
        <5>1. k - i + 1 \in 1 .. n - i + 1 /\ i + (k - i + 1) - 1 = k BY <4>3, <1>2, <1>6
        <5>2. q[k - i + 1] = a[k] BY <5>1, <1>10
        <5> QED BY <4>1, <5>1, <5>2, <1>10 DEF On
      <4> QED BY <4>2, <4>3, <1>6
    <3>2. ASSUME On(p, x, y) PROVE On(a, x, y)
      BY <3>2, <1>9, <2>2 DEF On, n
    <3>3. ASSUME On(q, x, y) PROVE On(a, x, y)
      <4>1. PICK k \in 1 .. n - i + 1 : InRow(q[k], x, y) BY <3>3, <1>10 DEF On
      <4>2. i + k - 1 \in 1 .. Len(a) /\ InRow(a[i + k - 1], x, y) BY <4>1, <1>10, <2>3 DEF n
      <4> QED BY <4>2 DEF On
    <3> QED BY <3>1, <3>2, <3>3
  <2>9. ASSUME q # <<>> PROVE y0 < Head(q).bottom
    <3>1. Len(q) \in Nat \ {0} /\ Head(q) = q[1] BY <1>10, <2>9, TailFacts DEF Rows
    <3>2. 1 \in 1 .. n - i + 1 /\ i + 1 - 1 = i /\ i <= n BY <3>1, <1>2, <1>6, <1>10
    <3>3. q[1] = a[i] BY <3>2, <1>10
    <3>4. i \in 1 .. n BY <3>2, <1>6
    <3> QED BY <3>1, <3>2, <3>3, <3>4, <1>2, <1>8
  <2> QED BY <2>4, <2>5, <2>6, <2>7, <2>8, <2>9
<1> QED BY <1>9, <1>10, <1>11 DEF p, q

-----------------------------------------------------------------------------
\* add_rect

InBox(rect, x, y) == rect.left <= x /\ x < rect.right /\ rect.top <= y /\ y < rect.bottom

\* The row the turn works on, new or not, the rows after it, and the part that changes.
Fresh(s) == s.rows = <<>> \/ s.rect.top < Head(s.rows).top
RowAt(s) == IF Fresh(s) THEN NewRow(s.rows, s.rect) ELSE Head(s.rows)
RowsAfter(s) == IF Fresh(s) THEN s.rows ELSE Tail(s.rows)
PartAt(s) == Between(RowAt(s), s.rect.top, s.rect.bottom)
NewPart(s) == [PartAt(s) EXCEPT !.spans = add_span_to_row(@, s.rect.left, s.rect.right)]

\* The fields of a rectangle.
LEMMA RectFields ==
  ASSUME NEW r \in Rects
  PROVE  r.left \in Int /\ r.top \in Int /\ r.right \in Int /\ r.bottom \in Int
BY DEF Rects

\* The fields of a walk.
LEMMA AddWalkFields ==
  ASSUME NEW s \in AddWalk
  PROVE  s.before \in Rows /\ s.rows \in Rows /\ s.rect \in Rects
BY DEF AddWalk

\* The row of a turn.
LEMMA RowAtFacts ==
  ASSUME NEW s \in AddWalk
  PROVE  /\ RowAt(s) \in Row /\ RowsAfter(s) \in Rows
         /\ Fresh(s) => /\ RowAt(s).top = s.rect.top /\ RowAt(s).spans = <<>>
                        /\ RowAt(s).bottom = IF s.rows # <<>> /\ Head(s.rows).top < s.rect.bottom
                                             THEN Head(s.rows).top ELSE s.rect.bottom
                        /\ RowsAfter(s) = s.rows
         /\ ~Fresh(s) => /\ s.rows # <<>> /\ RowAt(s) = Head(s.rows) /\ RowsAfter(s) = Tail(s.rows)
                         /\ Head(s.rows).top <= s.rect.top
<1> DEFINE rows == s.rows
           rect == s.rect
           h == Head(rows)
<1>1. rows \in Rows /\ rect \in Rects BY AddWalkFields
<1>2. rect.top \in Int /\ rect.bottom \in Int BY <1>1, RectFields
<1>3. rows # <<>> => h \in Row /\ h.top \in Int /\ Tail(rows) \in Rows
  BY <1>1, RowsTail, RowFields
<1>4. CASE Fresh(s)
  <2> DEFINE b == IF rows = <<>> THEN rect.bottom ELSE Min({rect.bottom, h.top})
  <2>1. b = IF rows # <<>> /\ h.top < rect.bottom THEN h.top ELSE rect.bottom
    BY <1>2, <1>3, MinMaxFacts
  <2>2. RowAt(s) = [top |-> rect.top, spans |-> <<>>, bottom |-> b]
    BY <1>4 DEF RowAt, NewRow
  <2> HIDE DEF b
  <2>3. b \in Int BY <2>1, <1>2, <1>3
  <2>4. RowAt(s) \in Row BY <2>2, <2>3, <1>2, NoSpans DEF Row
  <2>5. RowAt(s).top = rect.top /\ RowAt(s).spans = <<>> /\ RowAt(s).bottom = b BY <2>2
  <2>6. RowsAfter(s) = rows BY <1>4 DEF RowsAfter
  <2> QED BY <1>1, <1>4, <2>1, <2>4, <2>5, <2>6
<1>5. CASE ~Fresh(s)
  <2>1. rows # <<>> /\ ~(rect.top < h.top) BY <1>5 DEF Fresh
  <2>2. RowAt(s) = h /\ RowsAfter(s) = Tail(rows) BY <1>5 DEF RowAt, RowsAfter
  <2>3. h.top <= rect.top BY <1>2, <1>3, <2>1
  <2> QED BY <1>3, <1>5, <2>1, <2>2, <2>3
<1> QED BY <1>4, <1>5

\* One turn in these terms.
LEMMA AddToRowTurn ==
  ASSUME NEW s \in AddWalk
  PROVE  /\ AddToRow(s) \in AddWalk
         /\ AddToRow(s).before = Push(Above(s.before, RowAt(s), s.rect.top), NewPart(s))
         /\ AddToRow(s).rows = Below(RowAt(s), s.rect.bottom, RowsAfter(s))
         /\ AddToRow(s).rect.top = PartAt(s).bottom
         /\ AddToRow(s).rect.left = s.rect.left /\ AddToRow(s).rect.right = s.rect.right
         /\ AddToRow(s).rect.bottom = s.rect.bottom
         /\ NewPart(s) \in Row /\ NewPart(s).top = s.rect.top /\ NewPart(s).bottom = PartAt(s).bottom
         /\ NewPart(s).spans = add_span_to_row(RowAt(s).spans, s.rect.left, s.rect.right)
         /\ PartAt(s).bottom = IF RowAt(s).bottom <= s.rect.bottom THEN RowAt(s).bottom ELSE s.rect.bottom
<1> DEFINE row == RowAt(s)
           rest == RowsAfter(s)
           part == PartAt(s)
           new == NewPart(s)
           rect == s.rect
           next == [rect EXCEPT !.top = part.bottom]
           p == Push(Above(s.before, row, rect.top), new)
           q == Below(row, rect.bottom, rest)
<1>1. AddToRow(s) = [before |-> p, rows |-> q, rect |-> next]
  BY DEF AddToRow, RowAt, RowsAfter, PartAt, NewPart, Fresh
<1>2. row \in Row /\ rest \in Rows BY RowAtFacts
<1>3. s.before \in Rows /\ rect \in Rects BY AddWalkFields
<1>4. rect.left \in Int /\ rect.top \in Int /\ rect.right \in Int /\ rect.bottom \in Int
  BY <1>3, RectFields
<1>5. /\ part \in Row /\ part.top = rect.top /\ part.spans = row.spans
      /\ part.bottom = IF row.bottom <= rect.bottom THEN row.bottom ELSE rect.bottom
  BY <1>2, <1>4, BetweenFacts DEF PartAt
<1>6. part.top \in Int /\ part.bottom \in Int /\ part.spans \in Spans BY <1>5, RowFields
<1> DEFINE spans == add_span_to_row(part.spans, rect.left, rect.right)
<1>7. spans \in Spans BY <1>4, <1>6, AddSpanType
<1>8. new = [part EXCEPT !.spans = spans] BY DEF NewPart
<1> HIDE DEF spans, part
<1>9. new \in Row /\ new.top = part.top /\ new.bottom = part.bottom /\ new.spans = spans
  BY <1>5, <1>7, <1>8 DEF Row
<1>10. spans = add_span_to_row(row.spans, rect.left, rect.right) BY <1>5 DEF spans
<1>11. /\ next \in Rects /\ next.top = part.bottom /\ next.left = rect.left
       /\ next.right = rect.right /\ next.bottom = rect.bottom
  BY <1>3, <1>6 DEF Rects
<1>12. p \in Rows
  <2>1. Above(s.before, row, rect.top) \in Rows BY <1>2, <1>3, <1>4, AboveFacts
  <2> QED BY <2>1, <1>9, PushFacts
<1>13. q \in Rows BY <1>2, <1>4, BelowFacts
<1> HIDE DEF row, rest, new, next, p, q
<1>14. AddToRow(s) \in AddWalk BY <1>1, <1>11, <1>12, <1>13 DEF AddWalk
<1>15. AddToRow(s).before = p /\ AddToRow(s).rows = q /\ AddToRow(s).rect = next BY <1>1
<1> QED BY <1>5, <1>9, <1>10, <1>11, <1>14, <1>15 DEF row, rest, new, p, q, part

\* Rows and edges of rows before the walk.
AddAhead(s) == IF s.rect.top >= s.rect.bottom THEN 0
               ELSE IF Fresh(s) THEN 2 * Len(s.rows) + 2 ELSE 2 * Len(s.rows) + 1

\* Every turn leaves less before the walk.
LEMMA AddToRowLess ==
  ASSUME NEW s \in AddWalk
  PROVE  /\ AddAhead(s) \in Nat
         /\ s.rect.top < s.rect.bottom => AddAhead(AddToRow(s)) < AddAhead(s)
<1> DEFINE t == AddToRow(s)
           n == Len(s.rows)
           k == Len(t.rows)
           top == s.rect.top
           bottom == s.rect.bottom
           tt == t.rect.top
<1>1. s.rows \in Rows /\ s.rect \in Rects BY AddWalkFields
<1>2. t \in AddWalk BY AddToRowTurn
<1>3. t.rows \in Rows /\ t.rect \in Rects BY <1>2, AddWalkFields
<1>4. n \in Nat /\ k \in Nat BY <1>1, <1>3, RowsType
<1>5. top \in Int /\ bottom \in Int /\ tt \in Int BY <1>1, <1>3, RectFields
<1>6. AddAhead(s) = IF top >= bottom THEN 0 ELSE IF Fresh(s) THEN 2 * n + 2 ELSE 2 * n + 1
  BY DEF AddAhead
<1>7. t.rect.bottom = bottom BY AddToRowTurn
<1>8. AddAhead(t) = IF tt >= bottom THEN 0 ELSE IF Fresh(t) THEN 2 * k + 2 ELSE 2 * k + 1
  BY <1>7 DEF AddAhead
<1>9. tt = IF RowAt(s).bottom <= bottom THEN RowAt(s).bottom ELSE bottom BY AddToRowTurn
<1>10. RowAt(s) \in Row /\ RowsAfter(s) \in Rows BY RowAtFacts
<1>11. RowAt(s).bottom \in Int BY <1>10, RowFields
<1>12. t.rows = Below(RowAt(s), bottom, RowsAfter(s)) BY AddToRowTurn
<1>13. RowAt(s).bottom <= bottom => t.rows = RowsAfter(s) BY <1>5, <1>10, <1>12, BelowFacts
<1>14. CASE Fresh(s)
  <2>1. RowsAfter(s) = s.rows BY <1>14, RowAtFacts
  <2>2. RowAt(s).bottom = IF s.rows # <<>> /\ Head(s.rows).top < bottom THEN Head(s.rows).top ELSE bottom
    BY <1>14, RowAtFacts
  <2>3. s.rows # <<>> => Head(s.rows).top \in Int BY <1>1, RowsTail, RowFields
  <2>4. RowAt(s).bottom <= bottom BY <2>2, <2>3, <1>5
  <2>5. t.rows = s.rows /\ k = n BY <1>13, <2>1, <2>4
  <2>6. tt < bottom => ~Fresh(t)
    <3>1. tt < bottom => s.rows # <<>> /\ tt = Head(s.rows).top BY <1>5, <1>9, <2>2, <2>3, <2>4
    <3> QED BY <3>1, <2>3, <2>5 DEF Fresh
  <2> DEFINE x == AddAhead(s)
             y == AddAhead(t)
  <2>7. x = IF top >= bottom THEN 0 ELSE 2 * n + 2 BY <1>6, <1>14
  <2>8. y = IF tt >= bottom THEN 0 ELSE 2 * n + 1 BY <1>5, <1>8, <2>5, <2>6
  <2> HIDE DEF x, y, n, top, bottom, tt
  <2>9. x \in Nat /\ (top < bottom => y < x) BY <1>4, <1>5, <2>7, <2>8
  <2> QED BY <2>9 DEF x, y, top, bottom
<1>15. CASE ~Fresh(s)
  <2>1. RowsAfter(s) = Tail(s.rows) /\ s.rows # <<>> BY <1>15, RowAtFacts
  <2>2. Len(Tail(s.rows)) = n - 1 BY <1>1, <2>1, RowsTail
  <2>3. tt < bottom => k = n - 1
    <3>1. tt < bottom => RowAt(s).bottom <= bottom BY <1>5, <1>9, <1>11
    <3>2. t.rows = Tail(s.rows) => k = n - 1 BY <2>2
    <3> QED BY <1>13, <2>1, <3>1, <3>2
  <2> DEFINE x == AddAhead(s)
             y == AddAhead(t)
  <2>4. x = IF top >= bottom THEN 0 ELSE 2 * n + 1 BY <1>6, <1>15
  <2>5. y = IF tt >= bottom THEN 0 ELSE IF Fresh(t) THEN 2 * k + 2 ELSE 2 * k + 1 BY <1>8
  <2> HIDE DEF x, y, n, k, top, bottom, tt
  <2>6. x \in Nat /\ (top < bottom => y < x) BY <1>4, <1>5, <2>3, <2>4, <2>5
  <2> QED BY <2>6 DEF x, y, top, bottom
<1> QED BY <1>14, <1>15

\* The loop unfolds.
LEMMA AddingLoop ==
  IsLoop(Adding, AddWalk, {s \in AddWalk : s.rect.top >= s.rect.bottom},
         [s \in AddWalk |-> Joined(s.before, s.rows)], [s \in AddWalk |-> AddToRow(s)])
<1> DEFINE D == {s \in AddWalk : s.rect.top >= s.rect.bottom}
           R == [s \in AddWalk |-> Joined(s.before, s.rows)]
           F == [s \in AddWalk |-> AddToRow(s)]
           Turn(r) == [s \in AddWalk |-> IF s.rect.top >= s.rect.bottom THEN Joined(s.before, s.rows)
                                         ELSE r[AddToRow(s)]]
<1>1. F \in [AddWalk -> AddWalk] BY AddToRowTurn
<1>2. \A r : IsLoop(r, AddWalk, D, R, F) <=> r = Turn(r) BY DEF IsLoop
<1>3. \E r : IsLoop(r, AddWalk, D, R, F)
  <2> HIDE DEF D, R, F
  <2> QED BY <1>1, LoopExists, Zenon
<1>4. Adding = Turn(Adding)
  <2>1. \E r : r = Turn(r) BY <1>2, <1>3, Zenon
  <2> QED BY <2>1, Zenon DEF Adding, AddWalk
<1> QED BY <1>2, <1>4, Zenon

\* The invariant rule for it.
LEMMA AddingInvariant ==
  ASSUME NEW I \in SUBSET AddWalk, NEW P,
         \A s \in I : s.rect.top >= s.rect.bottom => Joined(s.before, s.rows) \in P,
         \A s \in I : s.rect.top < s.rect.bottom => AddToRow(s) \in I
  PROVE  \A s \in I : Adding[s] \in P
<1> DEFINE D == {s \in AddWalk : s.rect.top >= s.rect.bottom}
           R == [s \in AddWalk |-> Joined(s.before, s.rows)]
           F == [s \in AddWalk |-> AddToRow(s)]
           m == [s \in AddWalk |-> AddAhead(s)]
<1>1. IsLoop(Adding, AddWalk, D, R, F) BY AddingLoop
<1>2. Keeps(AddWalk, D, R, F, I, m, P)
  <2>1. m \in [AddWalk -> Nat] BY AddToRowLess
  <2>2. \A s \in I : s \in D => R[s] \in P OBVIOUS
  <2>3. \A s \in I : s \notin D => F[s] \in I /\ m[F[s]] < m[s]
    <3> SUFFICES ASSUME NEW s \in I, s \notin D PROVE F[s] \in I /\ m[F[s]] < m[s] OBVIOUS
    <3>1. s \in AddWalk /\ ~(s.rect.top >= s.rect.bottom) OBVIOUS
    <3>2. s.rect \in Rects BY <3>1, AddWalkFields
    <3>3. s.rect.top \in Int /\ s.rect.bottom \in Int BY <3>2, RectFields
    <3>4. s.rect.top < s.rect.bottom BY <3>1, <3>3
    <3>5. AddToRow(s) \in I /\ AddToRow(s) \in AddWalk BY <3>1, <3>4, AddToRowTurn
    <3>6. AddAhead(AddToRow(s)) < AddAhead(s) BY <3>1, <3>4, AddToRowLess
    <3> QED BY <3>1, <3>5, <3>6
  <2> HIDE DEF D, R, F, m
  <2> QED BY <2>1, <2>2, <2>3 DEF Keeps
<1> HIDE DEF D, R, F, m
<1> QED BY <1>1, <1>2, LoopInvariant, Zenon

\* The walk of add_rect: everything is in order, the rows before the iterator end where
\* what is left of the rectangle begins, and the first row from it on ends below.
AddInOrder(before, rows, rect) ==
  /\ IsRegion(before) /\ IsRegion(rows) /\ Before(before, rows) /\ EndsBy(before, rect.top)
  /\ rect.left < rect.right
  /\ rows # <<>> /\ rect.top < rect.bottom => rect.top < Head(rows).bottom
Together(before, rows, rect, x, y) == On(before, x, y) \/ On(rows, x, y) \/ InBox(rect, x, y)

\* A turn keeps that, and what has been added and is left to add together.
LEMMA AddToRowKeeps ==
  ASSUME NEW s \in AddWalk, s.rect.top < s.rect.bottom, AddInOrder(s.before, s.rows, s.rect)
  PROVE  LET t == AddToRow(s) IN
         /\ AddInOrder(t.before, t.rows, t.rect)
         /\ \A x, y \in Int : Together(t.before, t.rows, t.rect, x, y) <=>
                                Together(s.before, s.rows, s.rect, x, y)
<1> DEFINE t == AddToRow(s)
           row == RowAt(s)
           rest == RowsAfter(s)
           new == NewPart(s)
           l == s.rect.left
           r == s.rect.right
           top == s.rect.top
           bottom == s.rect.bottom
           pb == PartAt(s).bottom
           above == Above(s.before, row, top)
           below == Below(row, bottom, rest)
<1>1. s.before \in Rows /\ s.rows \in Rows /\ s.rect \in Rects BY AddWalkFields
<1>2. l \in Int /\ r \in Int /\ top \in Int /\ bottom \in Int /\ l < r /\ top < bottom
  BY <1>1, RectFields DEF AddInOrder
<1>3. t.before = Push(above, new) /\ t.rows = below BY AddToRowTurn
<1>4. t.rect.top = pb /\ t.rect.left = l /\ t.rect.right = r /\ t.rect.bottom = bottom
  BY AddToRowTurn
<1>5. /\ new \in Row /\ new.top = top /\ new.bottom = pb
      /\ new.spans = add_span_to_row(row.spans, l, r)
  BY AddToRowTurn
<1>6. pb = IF row.bottom <= bottom THEN row.bottom ELSE bottom BY AddToRowTurn
<1>7. row \in Row /\ rest \in Rows BY RowAtFacts
<1>8. row.top \in Int /\ row.bottom \in Int /\ row.spans \in Spans BY <1>7, RowFields
<1>9. /\ IsRegion(s.before) /\ IsRegion(s.rows) /\ Before(s.before, s.rows) /\ EndsBy(s.before, top)
      /\ s.rows # <<>> => top < Head(s.rows).bottom
  BY <1>2 DEF AddInOrder
<1>10. s.rows # <<>> => /\ Head(s.rows) \in Row /\ Tail(s.rows) \in Rows
                        /\ IsRow(Head(s.rows)) /\ IsRegion(Tail(s.rows))
                        /\ BeginsFrom(Tail(s.rows), Head(s.rows).bottom)
  BY <1>1, <1>9, RowsTail
<1>11. /\ InOrder(row.spans) /\ row.top <= top /\ top < row.bottom /\ top < pb /\ pb <= bottom
       /\ above \in Rows /\ IsRegion(above) /\ EndsBy(above, top)
       /\ below \in Rows /\ IsRegion(below) /\ BeginsFrom(below, pb)
       /\ \A x, y \in Int : On(above, x, y) <=> On(s.before, x, y) \/ (InRow(row, x, y) /\ y < top)
       /\ \A x, y \in Int : On(below, x, y) <=> On(rest, x, y) \/ (InRow(row, x, y) /\ bottom <= y)
       /\ \A x, y \in Int : On(s.rows, x, y) <=> InRow(row, x, y) \/ On(rest, x, y)
  <2>1. CASE Fresh(s)
    <3>1. row.top = top /\ row.spans = <<>> /\ rest = s.rows BY <2>1, RowAtFacts
    <3>2. row.bottom = IF s.rows # <<>> /\ Head(s.rows).top < bottom THEN Head(s.rows).top ELSE bottom
      BY <2>1, RowAtFacts
    <3>3. s.rows # <<>> => top < Head(s.rows).top BY <2>1 DEF Fresh
    <3>4. s.rows # <<>> => Head(s.rows).top \in Int BY <1>10, RowFields
    <3>5. top < row.bottom /\ row.bottom <= bottom /\ pb = row.bottom
      BY <1>2, <1>6, <3>2, <3>3, <3>4
    <3>6. above = s.before BY <1>2, <3>1 DEF Above
    <3>7. below = s.rows BY <1>8, <1>2, <3>1, <3>5 DEF Below
    <3>8. \A x, y \in Int : ~InRow(row, x, y) BY <3>1, NoSpans DEF InRow
    <3>9. BeginsFrom(s.rows, pb)
      <4>1. CASE s.rows = <<>> BY <4>1, <1>8, <3>5, NoRows
      <4>2. CASE s.rows # <<>>
        <5>1. BeginsFrom(s.rows, Head(s.rows).top) BY <4>2, <1>1, <1>9, BeforeAt
        <5>2. pb <= Head(s.rows).top BY <4>2, <3>2, <3>4, <3>5, <1>2
        <5>3. \A y, z \in Int : BeginsFrom(s.rows, z) /\ y <= z => BeginsFrom(s.rows, y)
          BY <1>1, BeforeAt
        <5> QED BY <4>2, <5>1, <5>2, <5>3, <3>4, <3>5, <1>8
      <4> QED BY <4>1, <4>2
    <3>10. InOrder(row.spans) BY <3>1, NoSpans
    <3> QED BY <1>1, <1>2, <1>9, <3>1, <3>5, <3>6, <3>7, <3>8, <3>9, <3>10
  <2>2. CASE ~Fresh(s)
    <3>1. s.rows # <<>> /\ row = Head(s.rows) /\ rest = Tail(s.rows) /\ row.top <= top
      BY <2>2, RowAtFacts
    <3>2. IsRow(row) /\ IsRegion(rest) /\ BeginsFrom(rest, row.bottom) BY <1>10, <3>1
    <3>3. InOrder(row.spans) BY <3>2 DEF IsRow
    <3>4. top < row.bottom BY <1>9, <3>1
    <3>5. EndsBy(s.before, row.top) BY <1>1, <1>9, <3>1, BeforeAt
    <3>6. top <= row.bottom /\ row.top <= bottom /\ top < pb /\ pb <= bottom
      BY <1>2, <1>6, <1>8, <3>1, <3>4
    <3>7. /\ above \in Rows /\ IsRegion(above) /\ EndsBy(above, top)
          /\ \A x, y \in Int : On(above, x, y) <=> On(s.before, x, y) \/ (InRow(row, x, y) /\ y < top)
      BY <1>1, <1>2, <1>7, <1>9, <3>1, <3>2, <3>5, <3>6, AboveFacts
    <3>8. /\ below \in Rows /\ IsRegion(below)
          /\ BeginsFrom(below, IF row.bottom <= bottom THEN row.bottom ELSE bottom)
          /\ \A x, y \in Int : On(below, x, y) <=> On(rest, x, y) \/ (InRow(row, x, y) /\ bottom <= y)
      BY <1>2, <1>7, <3>2, <3>6, BelowFacts
    <3>9. \A x, y \in Int : On(s.rows, x, y) <=> InRow(row, x, y) \/ On(rest, x, y)
      BY <1>1, <3>1, RowsTail
    <3>10. BeginsFrom(below, pb) BY <1>6, <3>8
    <3> QED BY <3>1, <3>3, <3>4, <3>6, <3>7, <3>8, <3>9, <3>10
  <2> QED BY <2>1, <2>2
<1>12. /\ new.spans \in Spans /\ InOrder(new.spans) /\ new.spans # <<>>
       /\ \A x \in Int : Has(new.spans, x) <=> Has(row.spans, x) \/ (l <= x /\ x < r)
  BY <1>2, <1>5, <1>8, <1>11, AddSpanExact
<1>13. IsRow(new) BY <1>5, <1>11, <1>12 DEF IsRow
<1>14. /\ t.before \in Rows /\ IsRegion(t.before) /\ EndsBy(t.before, pb)
       /\ \A x, y \in Int : On(t.before, x, y) <=> On(above, x, y) \/ InRow(new, x, y)
  BY <1>3, <1>5, <1>11, <1>13, PushFacts
<1>15. pb \in Int BY <1>2, <1>6, <1>8
<1> HIDE DEF t, row, rest, new, l, r, top, bottom, pb, above, below
<1>16. Before(t.before, t.rows) BY <1>3, <1>11, <1>14, <1>15, BeforeAt
<1>17. t.rows # <<>> => pb < Head(t.rows).bottom
  <2> SUFFICES ASSUME below # <<>> PROVE pb < Head(below).bottom BY <1>3
  <2>1. Head(below) \in Row /\ IsRow(Head(below)) BY <1>11, RowsTail
  <2>2. /\ Head(below).top \in Int /\ Head(below).bottom \in Int
        /\ Head(below).top < Head(below).bottom
    BY <2>1, RowFields
  <2>3. Len(below) \in Nat \ {0} /\ Head(below) = below[1] BY <1>11, TailFacts DEF Rows
  <2>4. 1 \in 1 .. Len(below) BY <2>3
  <2>5. pb <= Head(below).top BY <1>11, <2>3, <2>4 DEF BeginsFrom
  <2> QED BY <1>15, <2>2, <2>5
<1>18. AddInOrder(t.before, t.rows, t.rect)
  BY <1>2, <1>3, <1>4, <1>11, <1>14, <1>16, <1>17 DEF AddInOrder
<1>19. ASSUME NEW x \in Int, NEW y \in Int
       PROVE  Together(t.before, t.rows, t.rect, x, y) <=> Together(s.before, s.rows, s.rect, x, y)
  <2>1. On(t.before, x, y) <=> \/ On(s.before, x, y) \/ (InRow(row, x, y) /\ y < top)
                               \/ InRow(new, x, y)
    BY <1>11, <1>14
  <2>2. On(t.rows, x, y) <=> On(rest, x, y) \/ (InRow(row, x, y) /\ bottom <= y) BY <1>3, <1>11
  <2>3. On(s.rows, x, y) <=> InRow(row, x, y) \/ On(rest, x, y) BY <1>11
  <2>4. InRow(new, x, y) <=> top <= y /\ y < pb /\ (Has(row.spans, x) \/ (l <= x /\ x < r))
    BY <1>5, <1>12 DEF InRow
  <2>5. InBox(t.rect, x, y) <=> l <= x /\ x < r /\ pb <= y /\ y < bottom BY <1>4 DEF InBox
  <2>6. InBox(s.rect, x, y) <=> l <= x /\ x < r /\ top <= y /\ y < bottom
    BY DEF InBox, l, r, top, bottom
  <2>7. InRow(row, x, y) <=> row.top <= y /\ y < row.bottom /\ Has(row.spans, x) BY DEF InRow
  <2>8. (InRow(row, x, y) /\ y < top) \/ InRow(new, x, y) \/ (InRow(row, x, y) /\ bottom <= y)
          \/ InBox(t.rect, x, y) <=> InRow(row, x, y) \/ InBox(s.rect, x, y)
    <3> DEFINE A == Has(row.spans, x)
               B == l <= x /\ x < r
    <3>1. /\ top \in Int /\ bottom \in Int /\ pb \in Int /\ row.top \in Int /\ row.bottom \in Int
          /\ row.top <= top /\ top < row.bottom /\ top < pb
          /\ pb = IF row.bottom <= bottom THEN row.bottom ELSE bottom
      BY <1>2, <1>6, <1>8, <1>11, <1>15
    <3> DEFINE rt == row.top
               rb == row.bottom
    <3> HIDE DEF A, B, rt, rb
    <3>2. /\ InRow(row, x, y) <=> rt <= y /\ y < rb /\ A
          /\ InBox(s.rect, x, y) <=> B /\ top <= y /\ y < bottom
          /\ InBox(t.rect, x, y) <=> B /\ pb <= y /\ y < bottom
          /\ InRow(new, x, y) <=> top <= y /\ y < pb /\ (A \/ B)
      BY <2>4, <2>5, <2>6, <2>7 DEF A, B, rt, rb
    <3>3. /\ top \in Int /\ bottom \in Int /\ pb \in Int /\ rt \in Int /\ rb \in Int
          /\ rt <= top /\ top < rb /\ top < pb /\ pb = IF rb <= bottom THEN rb ELSE bottom
      BY <3>1 DEF rt, rb
    <3> DEFINE q1 == InRow(row, x, y)
               q2 == InBox(s.rect, x, y)
               q3 == InBox(t.rect, x, y)
               q4 == InRow(new, x, y)
    <3>4. /\ q1 <=> rt <= y /\ y < rb /\ A
          /\ q2 <=> B /\ top <= y /\ y < bottom
          /\ q3 <=> B /\ pb <= y /\ y < bottom
          /\ q4 <=> top <= y /\ y < pb /\ (A \/ B)
      BY <3>2
    <3> HIDE DEF q1, q2, q3, q4
    <3>5. (q1 /\ y < top) \/ q4 \/ (q1 /\ bottom <= y) \/ q3 <=> q1 \/ q2 BY <3>3, <3>4
    <3> QED BY <3>5 DEF q1, q2, q3, q4
  <2> QED BY <2>1, <2>2, <2>3, <2>8 DEF Together
<1> QED BY <1>18, <1>19 DEF t

\* add_rect adds the pixels of the rectangle and leaves a region, whatever rows and
\* spans it splits, inserts, joins or merges on the way.
THEOREM AddRectExact ==
  ASSUME NEW a \in Rows, IsRegion(a), NEW rect \in Rects
  PROVE  /\ IsRegion(add_rect(a, rect))
         /\ \A x, y \in Int : On(add_rect(a, rect), x, y) <=> On(a, x, y) \/ InBox(rect, x, y)
<1> DEFINE s0 == [before |-> UpTo(a, rect.top), rows |-> From(a, rect.top), rect |-> rect]
           Inv(p, q, r) == /\ AddInOrder(p, q, r)
                           /\ \A x, y \in Int : Together(p, q, r, x, y) <=> On(a, x, y) \/ InBox(rect, x, y)
           I == {s \in AddWalk : Inv(s.before, s.rows, s.rect)}
           P == {out \in Rows : /\ IsRegion(out)
                                /\ \A x, y \in Int : On(out, x, y) <=> On(a, x, y) \/ InBox(rect, x, y)}
<1>1. rect.left \in Int /\ rect.right \in Int /\ rect.top \in Int /\ rect.bottom \in Int
  BY RectFields
<1>2. CASE is_empty(rect)
  <2>1. add_rect(a, rect) = a BY <1>2 DEF add_rect
  <2>2. \A x, y \in Int : ~InBox(rect, x, y) BY <1>1, <1>2 DEF is_empty, InBox
  <2> QED BY <2>1, <2>2
<1>3. CASE ~is_empty(rect)
  <2>1. rect.left < rect.right /\ rect.top < rect.bottom BY <1>1, <1>3 DEF is_empty
  <2>2. s0 \in I
    <3> DEFINE p == UpTo(a, rect.top)
               q == From(a, rect.top)
    <3>1. /\ p \in Rows /\ q \in Rows
          /\ IsRegion(p) /\ IsRegion(q) /\ Before(p, q) /\ EndsBy(p, rect.top)
          /\ \A x, y \in Int : On(a, x, y) <=> On(p, x, y) \/ On(q, x, y)
          /\ q # <<>> => rect.top < Head(q).bottom
      BY <1>1, SplitFacts
    <3> HIDE DEF p, q
    <3>2. AddInOrder(p, q, rect) BY <2>1, <3>1 DEF AddInOrder
    <3>3. \A x, y \in Int : Together(p, q, rect, x, y) <=> On(a, x, y) \/ InBox(rect, x, y)
      BY <3>1 DEF Together
    <3>4. s0 = [before |-> p, rows |-> q, rect |-> rect] BY DEF p, q
    <3>5. s0 \in AddWalk /\ s0.before = p /\ s0.rows = q /\ s0.rect = rect
      BY <3>1, <3>4 DEF AddWalk
    <3> HIDE DEF s0
    <3> QED BY <3>2, <3>3, <3>5
  <2>3. ASSUME NEW s \in I, s.rect.top >= s.rect.bottom PROVE Joined(s.before, s.rows) \in P
    <3>1. s \in AddWalk /\ Inv(s.before, s.rows, s.rect) OBVIOUS
    <3>2. s.before \in Rows /\ s.rows \in Rows /\ s.rect \in Rects BY <3>1, AddWalkFields
    <3>3. s.rect.top \in Int /\ s.rect.bottom \in Int BY <3>2, RectFields
    <3>4. IsRegion(s.before) /\ IsRegion(s.rows) /\ Before(s.before, s.rows) BY <3>1 DEF AddInOrder
    <3> DEFINE j == Joined(s.before, s.rows)
    <3>5. /\ j \in Rows /\ IsRegion(j)
          /\ \A x, y \in Int : On(j, x, y) <=> On(s.before, x, y) \/ On(s.rows, x, y)
      BY <3>2, <3>4, JoinedFacts
    <3>6. \A x, y \in Int : ~InBox(s.rect, x, y) BY <2>3, <3>3 DEF InBox
    <3>7. \A x, y \in Int : On(s.before, x, y) \/ On(s.rows, x, y) <=> On(a, x, y) \/ InBox(rect, x, y)
      BY <3>1, <3>6 DEF Together
    <3> HIDE DEF j
    <3>8. j \in P BY <3>5, <3>7
    <3> QED BY <3>8 DEF j
  <2>4. ASSUME NEW s \in I, s.rect.top < s.rect.bottom PROVE AddToRow(s) \in I
    <3>1. s \in AddWalk /\ Inv(s.before, s.rows, s.rect) OBVIOUS
    <3> DEFINE t == AddToRow(s)
    <3>2. t \in AddWalk BY <3>1, AddToRowTurn
    <3>3. /\ AddInOrder(t.before, t.rows, t.rect)
          /\ \A x, y \in Int : Together(t.before, t.rows, t.rect, x, y) <=>
                                 Together(s.before, s.rows, s.rect, x, y)
      BY <2>4, <3>1, AddToRowKeeps
    <3> HIDE DEF t
    <3>4. Inv(t.before, t.rows, t.rect) BY <3>1, <3>3
    <3>5. t \in I BY <3>2, <3>4
    <3> QED BY <3>5 DEF t
  <2>5. Adding[s0] \in P
    <3>1. I \in SUBSET AddWalk OBVIOUS
    <3> HIDE DEF I, P, s0
    <3> QED BY <2>2, <2>3, <2>4, <3>1, AddingInvariant, Zenon
  <2> QED BY <1>3, <2>5 DEF add_rect
<1> QED BY <1>2, <1>3

-----------------------------------------------------------------------------
\* intersect

\* The region whose first row begins first, the other one, where the first of them ends,
\* and the row they have in common.
TopMost(s) == IF Head(s.b).top < Head(s.a).top THEN s.b ELSE s.a
OtherRows(s) == IF Head(s.b).top < Head(s.a).top THEN s.a ELSE s.b
NextBottom(s) == IF Head(TopMost(s)).bottom <= Head(OtherRows(s)).bottom THEN Head(TopMost(s)).bottom
                 ELSE Head(OtherRows(s)).bottom
CommonOut(x, y, bottom, out) ==
  IF intersect_rows(Head(x).spans, Head(y).spans) = <<>> THEN out
  ELSE Push(out, [top |-> Head(y).top, bottom |-> bottom,
                  spans |-> intersect_rows(Head(x).spans, Head(y).spans)])

\* The fields of a walk.
LEMMA RegionWalkFields ==
  ASSUME NEW s \in RegionWalk
  PROVE  s.a \in Rows /\ s.b \in Rows /\ s.out \in Rows /\ Len(s.a) + Len(s.b) \in Nat
<1>1. s.a \in Rows /\ s.b \in Rows /\ s.out \in Rows BY DEF RegionWalk
<1>2. ASSUME NEW a \in Rows, NEW b \in Rows PROVE Len(a) + Len(b) \in Nat BY RowsType
<1>3. Len(s.a) + Len(s.b) \in Nat BY <1>1, <1>2, Zenon
<1> QED BY <1>1, <1>3

\* A walk from its fields.
LEMMA RegionWalkOf ==
  ASSUME NEW a \in Rows, NEW b \in Rows, NEW out \in Rows
  PROVE  LET s == [a |-> a, b |-> b, out |-> out] IN
         s \in RegionWalk /\ s.a = a /\ s.b = b /\ s.out = out
BY DEF RegionWalk

\* One turn in these terms.
LEMMA IntersectRowTurn ==
  ASSUME NEW s \in RegionWalk, s.a # <<>>, s.b # <<>>
  PROVE  /\ \/ TopMost(s) = s.a /\ OtherRows(s) = s.b
            \/ TopMost(s) = s.b /\ OtherRows(s) = s.a
         /\ TopMost(s) \in Rows /\ OtherRows(s) \in Rows /\ TopMost(s) # <<>> /\ OtherRows(s) # <<>>
         /\ Head(TopMost(s)) \in Row /\ Head(OtherRows(s)) \in Row
         /\ Head(TopMost(s)).top <= Head(OtherRows(s)).top
         /\ Head(TopMost(s)).bottom <= Head(OtherRows(s)).top =>
              IntersectRow(s) = [a |-> Tail(TopMost(s)), b |-> OtherRows(s), out |-> s.out]
         /\ ~(Head(TopMost(s)).bottom <= Head(OtherRows(s)).top) =>
              IntersectRow(s) =
                [a |-> Rest(TopMost(s), NextBottom(s)), b |-> Rest(OtherRows(s), NextBottom(s)),
                 out |-> CommonOut(TopMost(s), OtherRows(s), NextBottom(s), s.out)]
<1>1. /\ s.a \in Rows /\ s.b \in Rows /\ s.out \in Rows BY RegionWalkFields
<1>2. Head(s.a) \in Row /\ Head(s.b) \in Row BY <1>1, RowsTail
<1>3. /\ \/ TopMost(s) = s.a /\ OtherRows(s) = s.b
         \/ TopMost(s) = s.b /\ OtherRows(s) = s.a
      /\ Head(TopMost(s)).top <= Head(OtherRows(s)).top
  BY <1>2, RowFields DEF TopMost, OtherRows
<1>4. Head(TopMost(s)) \in Row /\ Head(OtherRows(s)) \in Row BY <1>2, <1>3
<1>5. Min({Head(TopMost(s)).bottom, Head(OtherRows(s)).bottom}) = NextBottom(s)
  <2>1. Head(TopMost(s)).bottom \in Int /\ Head(OtherRows(s)).bottom \in Int BY <1>4, RowFields
  <2> QED BY <2>1, MinMaxFacts DEF NextBottom
<1>6. IntersectRow(s) =
        IF Head(TopMost(s)).bottom <= Head(OtherRows(s)).top
        THEN [a |-> Tail(TopMost(s)), b |-> OtherRows(s), out |-> s.out]
        ELSE [a |-> Rest(TopMost(s), Min({Head(TopMost(s)).bottom, Head(OtherRows(s)).bottom})),
              b |-> Rest(OtherRows(s), Min({Head(TopMost(s)).bottom, Head(OtherRows(s)).bottom})),
              out |-> CommonOut(TopMost(s), OtherRows(s),
                                Min({Head(TopMost(s)).bottom, Head(OtherRows(s)).bottom}), s.out)]
  BY DEF IntersectRow, TopMost, OtherRows, CommonOut
<1> QED BY <1>1, <1>3, <1>4, <1>5, <1>6

\* What a turn hands out is rows.
LEMMA CommonOutType ==
  ASSUME NEW x \in Row, NEW y \in Row, NEW bottom \in Int, NEW out \in Rows
  PROVE  \A a, b : Head(a) = x /\ Head(b) = y => CommonOut(a, b, bottom, out) \in Rows
<1>1. x.spans \in Spans /\ y.spans \in Spans /\ y.top \in Int BY RowFields
<1> DEFINE spans == intersect_rows(x.spans, y.spans)
           row == [top |-> y.top, bottom |-> bottom, spans |-> spans]
<1>2. spans \in Spans BY <1>1, IntersectRowsType
<1> HIDE DEF spans
<1>3. row \in Row BY <1>1, <1>2, RowOf
<1> HIDE DEF row
<1>4. Push(out, row) \in Rows BY <1>3, PushFacts
<1> QED BY <1>4 DEF CommonOut, row, spans

\* Every turn leaves a walk with less before it.
LEMMA IntersectRowLess ==
  ASSUME NEW s \in RegionWalk, s.a # <<>>, s.b # <<>>
  PROVE  /\ IntersectRow(s) \in RegionWalk
         /\ Len(IntersectRow(s).a) + Len(IntersectRow(s).b) < Len(s.a) + Len(s.b)
<1> DEFINE x == TopMost(s)
           y == OtherRows(s)
           r == NextBottom(s)
           t == IntersectRow(s)
           new == CommonOut(x, y, r, s.out)
           la == Len(s.a)
           lb == Len(s.b)
           lx == Len(x)
           ly == Len(y)
<1>1. (x = s.a /\ y = s.b) \/ (x = s.b /\ y = s.a) BY IntersectRowTurn
<1>2. x \in Rows /\ y \in Rows /\ x # <<>> /\ y # <<>> /\ Head(x) \in Row /\ Head(y) \in Row
  BY IntersectRowTurn
<1>3. Head(x).bottom \in Int /\ Head(y).bottom \in Int BY <1>2, RowFields
<1>4. Head(x).bottom <= Head(y).top => t = [a |-> Tail(x), b |-> y, out |-> s.out]
  BY IntersectRowTurn
<1>5. ~(Head(x).bottom <= Head(y).top) => t = [a |-> Rest(x, r), b |-> Rest(y, r), out |-> new]
  BY IntersectRowTurn
<1>6. r = Head(x).bottom \/ r = Head(y).bottom BY DEF NextBottom
<1>7. s.out \in Rows BY RegionWalkFields
<1>8. r \in Int BY <1>3, <1>6
<1>9. new \in Rows BY <1>2, <1>7, <1>8, CommonOutType
<1>10. lx \in Nat /\ ly \in Nat /\ la \in Nat /\ lb \in Nat
  BY <1>2, RegionWalkFields, RowsType
<1>11. la + lb = lx + ly
  <2>1. (lx = la /\ ly = lb) \/ (lx = lb /\ ly = la) BY <1>1
  <2> HIDE DEF la, lb, lx, ly
  <2> QED BY <2>1, <1>10
<1>12. /\ Tail(x) \in Rows /\ Len(Tail(x)) = lx - 1
       /\ Tail(y) \in Rows /\ Len(Tail(y)) = ly - 1
  BY <1>2, RowsTail
<1> HIDE DEF x, y, r, t, new
<1>13. ASSUME NEW p \in Rows, NEW q \in Rows, NEW o \in Rows, t = [a |-> p, b |-> q, out |-> o],
              Len(p) + Len(q) < lx + ly
       PROVE  t \in RegionWalk /\ Len(t.a) + Len(t.b) < la + lb
  <2>1. t \in RegionWalk /\ t.a = p /\ t.b = q BY <1>13, RegionWalkOf
  <2> QED BY <2>1, <1>11, <1>13
<1>14. CASE Head(x).bottom <= Head(y).top
  <2>1. Len(Tail(x)) + Len(y) < lx + ly
    <3> DEFINE lt == Len(Tail(x))
    <3>1. lt = lx - 1 BY <1>12
    <3> HIDE DEF lt, lx, ly
    <3>2. lt + ly < lx + ly BY <3>1, <1>10
    <3> QED BY <3>2 DEF lt, ly
  <2> QED BY <1>2, <1>4, <1>7, <1>12, <1>13, <1>14, <2>1 DEF t
<1>15. CASE ~(Head(x).bottom <= Head(y).top)
  <2> DEFINE xx == Rest(x, r)
             yy == Rest(y, r)
             m == Len(xx)
             n == Len(yy)
             hx == Head(x).bottom
             hy == Head(y).bottom
  <2>1. /\ xx \in Rows /\ m = IF hx = r THEN lx - 1 ELSE lx
        /\ yy \in Rows /\ n = IF hy = r THEN ly - 1 ELSE ly
    BY <1>2, <1>12 DEF Rest
  <2>2. m + n < lx + ly
    <3>1. r = hx \/ r = hy BY <1>6
    <3> HIDE DEF m, n, lx, ly, hx, hy
    <3> QED BY <2>1, <3>1, <1>10
  <2>3. t = [a |-> xx, b |-> yy, out |-> new] BY <1>5, <1>15
  <2> HIDE DEF xx, yy, lx, ly, la, lb
  <2>4. t \in RegionWalk /\ Len(t.a) + Len(t.b) < la + lb BY <1>9, <1>13, <2>1, <2>2, <2>3
  <2> QED BY <2>4 DEF t, la, lb
<1> QED BY <1>14, <1>15

\* The loop unfolds.
LEMMA IntersectingLoop ==
  IsLoop(Intersecting, RegionWalk, {s \in RegionWalk : s.a = <<>> \/ s.b = <<>>},
         [s \in RegionWalk |-> s.out],
         [s \in RegionWalk |-> IF s.a = <<>> \/ s.b = <<>> THEN s ELSE IntersectRow(s)])
<1> DEFINE D == {s \in RegionWalk : s.a = <<>> \/ s.b = <<>>}
           R == [s \in RegionWalk |-> s.out]
           F == [s \in RegionWalk |-> IF s.a = <<>> \/ s.b = <<>> THEN s ELSE IntersectRow(s)]
           Turn(r) == [s \in RegionWalk |-> IF s.a = <<>> \/ s.b = <<>> THEN s.out
                                            ELSE r[IntersectRow(s)]]
<1>1. F \in [RegionWalk -> RegionWalk] BY IntersectRowLess
<1>2. \A r : IsLoop(r, RegionWalk, D, R, F) <=> r = Turn(r) BY DEF IsLoop
<1>3. \E r : IsLoop(r, RegionWalk, D, R, F)
  <2> HIDE DEF D, R, F
  <2> QED BY <1>1, LoopExists, Zenon
<1>4. Intersecting = Turn(Intersecting)
  <2>1. \E r : r = Turn(r) BY <1>2, <1>3, Zenon
  <2> QED BY <2>1, Zenon DEF Intersecting, RegionWalk
<1> QED BY <1>2, <1>4, Zenon

\* The invariant rule for it.
LEMMA IntersectingInvariant ==
  ASSUME NEW I \in SUBSET RegionWalk, NEW P,
         \A s \in I : s.a = <<>> \/ s.b = <<>> => s.out \in P,
         \A s \in I : s.a # <<>> /\ s.b # <<>> => IntersectRow(s) \in I
  PROVE  \A s \in I : Intersecting[s] \in P
<1> DEFINE D == {s \in RegionWalk : s.a = <<>> \/ s.b = <<>>}
           R == [s \in RegionWalk |-> s.out]
           F == [s \in RegionWalk |-> IF s.a = <<>> \/ s.b = <<>> THEN s ELSE IntersectRow(s)]
           m == [s \in RegionWalk |-> Len(s.a) + Len(s.b)]
<1>1. IsLoop(Intersecting, RegionWalk, D, R, F) BY IntersectingLoop
<1>2. Keeps(RegionWalk, D, R, F, I, m, P)
  <2>1. m \in [RegionWalk -> Nat] BY RegionWalkFields
  <2>2. \A s \in I : s \in D => R[s] \in P OBVIOUS
  <2>3. \A s \in I : s \notin D => F[s] \in I /\ m[F[s]] < m[s] BY IntersectRowLess
  <2> HIDE DEF D, R, F, m
  <2> QED BY <2>1, <2>2, <2>3 DEF Keeps
<1> HIDE DEF D, R, F, m
<1> QED BY <1>1, <1>2, LoopInvariant, Zenon

\* What is left of rows below r, when no more than the first of them ends there.
LEMMA RestFacts ==
  ASSUME NEW a \in Rows, a # <<>>, IsRegion(a), NEW r \in Int, r <= Head(a).bottom
  PROVE  /\ Rest(a, r) \in Rows /\ IsRegion(Rest(a, r))
         /\ Head(a).bottom = r /\ Rest(a, r) # <<>> => r <= Head(Rest(a, r)).top
         /\ \A x, y \in Int : On(Rest(a, r), x, y) => On(a, x, y)
         /\ \A x, y \in Int : On(a, x, y) /\ r <= y => On(Rest(a, r), x, y)
<1>1. /\ Tail(a) \in Rows /\ IsRegion(Tail(a)) /\ BeginsFrom(Tail(a), Head(a).bottom)
      /\ \A x, y \in Int : On(a, x, y) <=> InRow(Head(a), x, y) \/ On(Tail(a), x, y)
  BY RowsTail
<1>2. CASE Head(a).bottom = r
  <2>1. Rest(a, r) = Tail(a) BY <1>2 DEF Rest
  <2>2. Tail(a) # <<>> => r <= Head(Tail(a)).top
    <3> SUFFICES ASSUME Tail(a) # <<>> PROVE r <= Head(Tail(a)).top OBVIOUS
    <3>1. Len(Tail(a)) \in Nat \ {0} /\ Head(Tail(a)) = Tail(a)[1] BY <1>1, TailFacts DEF Rows
    <3>2. 1 \in 1 .. Len(Tail(a)) BY <3>1
    <3> QED BY <1>1, <1>2, <3>1, <3>2 DEF BeginsFrom
  <2> QED BY <1>1, <1>2, <2>1, <2>2 DEF InRow
<1>3. CASE Head(a).bottom # r
  <2>1. Rest(a, r) = a BY <1>3 DEF Rest
  <2> QED BY <1>3, <2>1
<1> QED BY <1>2, <1>3

\* The walk of intersect: everything is in order, and the rows handed out lie above one
\* of the two regions that are left.
RegionsInOrder(a, b, out) ==
  /\ IsRegion(a) /\ IsRegion(b) /\ IsRegion(out)
  /\ a # <<>> /\ b # <<>> => EndsBy(out, Head(a).top) \/ EndsBy(out, Head(b).top)
OnBoth(a, b, out, x, y) == On(out, x, y) \/ (On(a, x, y) /\ On(b, x, y))

\* A turn that drops a row which ends before the other one begins.
LEMMA DropRow ==
  ASSUME NEW a \in Rows, NEW b \in Rows, NEW out \in Rows, a # <<>>, b # <<>>,
         RegionsInOrder(a, b, out), Head(a).top <= Head(b).top, Head(a).bottom <= Head(b).top
  PROVE  /\ RegionsInOrder(Tail(a), b, out)
         /\ \A x, y \in Int : OnBoth(Tail(a), b, out, x, y) <=> OnBoth(a, b, out, x, y)
<1>0. IsRegion(a) /\ IsRegion(b) /\ IsRegion(out) BY DEF RegionsInOrder
<1>1. /\ Head(a) \in Row /\ Tail(a) \in Rows /\ IsRegion(Tail(a))
      /\ \A x, y \in Int : On(a, x, y) <=> InRow(Head(a), x, y) \/ On(Tail(a), x, y)
  BY <1>0, RowsTail
<1>2. Head(b) \in Row BY RowsTail
<1>3. Head(a).top \in Int /\ Head(a).bottom \in Int /\ Head(b).top \in Int
  BY <1>1, <1>2, RowFields
<1>4. EndsBy(out, Head(b).top)
  <2>1. \A y, z \in Int : EndsBy(out, y) /\ y <= z => EndsBy(out, z) BY BeforeAt
  <2> QED BY <1>3, <2>1 DEF RegionsInOrder
<1>5. RegionsInOrder(Tail(a), b, out) BY <1>0, <1>1, <1>4 DEF RegionsInOrder
<1>6. ASSUME NEW x \in Int, NEW y \in Int PROVE OnBoth(Tail(a), b, out, x, y) <=> OnBoth(a, b, out, x, y)
  <2>1. BeginsFrom(b, Head(b).top) BY <1>0, BeforeAt
  <2>2. On(b, x, y) => Head(b).top <= y BY <2>1, <1>3, OnSide
  <2>3. ~(InRow(Head(a), x, y) /\ On(b, x, y)) BY <1>3, <2>2 DEF InRow
  <2> QED BY <1>1, <2>3 DEF OnBoth
<1> QED BY <1>5, <1>6

\* A turn that hands out what two rows have in common.
LEMMA CutRow ==
  ASSUME NEW a \in Rows, NEW b \in Rows, NEW out \in Rows, a # <<>>, b # <<>>,
         RegionsInOrder(a, b, out), Head(a).top <= Head(b).top, Head(b).top < Head(a).bottom,
         NEW r \in Int, r = Head(a).bottom \/ r = Head(b).bottom,
         r <= Head(a).bottom, r <= Head(b).bottom
  PROVE  LET new == CommonOut(a, b, r, out) IN
         /\ new \in Rows /\ RegionsInOrder(Rest(a, r), Rest(b, r), new)
         /\ \A x, y \in Int : OnBoth(Rest(a, r), Rest(b, r), new, x, y) <=> OnBoth(a, b, out, x, y)
<1> DEFINE l == Head(b).top
           p == Head(a).spans
           q == Head(b).spans
           spans == intersect_rows(p, q)
           row == [top |-> l, bottom |-> r, spans |-> spans]
           new == CommonOut(a, b, r, out)
           aa == Rest(a, r)
           bb == Rest(b, r)
<1>0. IsRegion(a) /\ IsRegion(b) /\ IsRegion(out) BY DEF RegionsInOrder
<1>1. /\ Head(a) \in Row /\ IsRow(Head(a)) /\ Head(b) \in Row /\ IsRow(Head(b))
  BY <1>0, RowsTail
<1>2. /\ Head(a).top \in Int /\ Head(a).bottom \in Int /\ p \in Spans /\ InOrder(p)
      /\ l \in Int /\ Head(b).bottom \in Int /\ q \in Spans /\ InOrder(q)
      /\ l < Head(b).bottom
  BY <1>1, RowFields
<1>3. EndsBy(out, l)
  <2>1. \A y, z \in Int : EndsBy(out, y) /\ y <= z => EndsBy(out, z) BY BeforeAt
  <2> QED BY <1>2, <2>1 DEF RegionsInOrder
<1>4. l < r BY <1>2
<1>5. /\ spans \in Spans /\ InOrder(spans)
      /\ \A x \in Int : Has(spans, x) <=> Has(p, x) /\ Has(q, x)
  BY <1>2, IntersectRowsExact
<1>6. /\ aa \in Rows /\ IsRegion(aa)
      /\ Head(a).bottom = r /\ aa # <<>> => r <= Head(aa).top
      /\ \A x, y \in Int : On(aa, x, y) => On(a, x, y)
      /\ \A x, y \in Int : On(a, x, y) /\ r <= y => On(aa, x, y)
  BY <1>0, RestFacts
<1>7. /\ bb \in Rows /\ IsRegion(bb)
      /\ Head(b).bottom = r /\ bb # <<>> => r <= Head(bb).top
      /\ \A x, y \in Int : On(bb, x, y) => On(b, x, y)
      /\ \A x, y \in Int : On(b, x, y) /\ r <= y => On(bb, x, y)
  BY <1>0, RestFacts
<1>8. new = IF spans = <<>> THEN out ELSE Push(out, row) BY DEF CommonOut
<1> HIDE DEF spans
<1>9. row \in Row /\ row.top = l /\ row.bottom = r /\ row.spans = spans BY <1>2, <1>5, RowOf
<1> HIDE DEF row, new
<1>10. /\ new \in Rows /\ IsRegion(new) /\ EndsBy(new, r)
       /\ \A x, y \in Int : On(new, x, y) <=> On(out, x, y) \/ InRow(row, x, y)
  <2>1. CASE spans = <<>>
    <3>1. \A y, z \in Int : EndsBy(out, y) /\ y <= z => EndsBy(out, z) BY BeforeAt
    <3>2. l <= r BY <1>4, <1>2
    <3>3. EndsBy(out, r) BY <1>2, <1>3, <3>1, <3>2
    <3>4. \A x, y \in Int : ~InRow(row, x, y) BY <1>9, <2>1, NoSpans DEF InRow
    <3> QED BY <1>0, <1>8, <2>1, <3>3, <3>4
  <2>2. CASE spans # <<>>
    <3>1. IsRow(row) BY <1>4, <1>5, <1>9, <2>2 DEF IsRow
    <3>2. EndsBy(out, row.top) BY <1>3, <1>9
    <3> DEFINE w == Push(out, row)
    <3>3. /\ w \in Rows /\ IsRegion(w) /\ EndsBy(w, row.bottom)
          /\ \A x, y \in Int : On(w, x, y) <=> On(out, x, y) \/ InRow(row, x, y)
      BY <1>0, <1>9, <3>1, <3>2, PushFacts
    <3>4. new = w BY <1>8, <2>2
    <3> HIDE DEF w
    <3> QED BY <1>9, <3>3, <3>4
  <2> QED BY <2>1, <2>2
<1> HIDE DEF aa, bb
<1>11. aa # <<>> /\ bb # <<>> => EndsBy(new, Head(aa).top) \/ EndsBy(new, Head(bb).top)
  <2> SUFFICES ASSUME aa # <<>>, bb # <<>>
               PROVE  EndsBy(new, Head(aa).top) \/ EndsBy(new, Head(bb).top)
    OBVIOUS
  <2>1. Head(aa).top \in Int /\ Head(bb).top \in Int BY <1>6, <1>7, RowsTail, RowFields
  <2>2. \A z \in Int : r <= z => EndsBy(new, z)
    <3>1. \A y, z \in Int : EndsBy(new, y) /\ y <= z => EndsBy(new, z) BY <1>10, BeforeAt
    <3> QED BY <1>10, <3>1
  <2> QED BY <1>6, <1>7, <2>1, <2>2
<1>12. RegionsInOrder(aa, bb, new) BY <1>6, <1>7, <1>10, <1>11, Zenon DEF RegionsInOrder
<1>13. ASSUME NEW x \in Int, NEW y \in Int PROVE OnBoth(aa, bb, new, x, y) <=> OnBoth(a, b, out, x, y)
  <2>1. On(a, x, y) <=> InRow(Head(a), x, y) \/ On(Tail(a), x, y) BY RowsTail
  <2>2. On(b, x, y) <=> InRow(Head(b), x, y) \/ On(Tail(b), x, y) BY RowsTail
  <2>3. On(Tail(a), x, y) => Head(a).bottom <= y
    <3>1. Tail(a) \in Rows /\ BeginsFrom(Tail(a), Head(a).bottom) BY <1>0, RowsTail
    <3> QED BY <1>2, <3>1, OnSide
  <2>4. On(Tail(b), x, y) => Head(b).bottom <= y
    <3>1. Tail(b) \in Rows /\ BeginsFrom(Tail(b), Head(b).bottom) BY <1>0, RowsTail
    <3> QED BY <1>2, <3>1, OnSide
  <2>5. On(b, x, y) => l <= y
    <3>1. BeginsFrom(b, l) BY <1>0, BeforeAt
    <3> QED BY <1>2, <3>1, OnSide
  <2>6. InRow(row, x, y) <=> l <= y /\ y < r /\ Has(p, x) /\ Has(q, x) BY <1>5, <1>9 DEF InRow
  <2>7. InRow(Head(a), x, y) <=> Head(a).top <= y /\ y < Head(a).bottom /\ Has(p, x) BY DEF InRow
  <2>8. InRow(Head(b), x, y) <=> l <= y /\ y < Head(b).bottom /\ Has(q, x) BY DEF InRow
  <2>9. On(new, x, y) <=> On(out, x, y) \/ InRow(row, x, y) BY <1>10
  <2>10. CASE r <= y
    <3>1. ~InRow(row, x, y) BY <1>2, <2>6, <2>10
    <3>2. On(aa, x, y) <=> On(a, x, y) BY <1>6, <2>10
    <3>3. On(bb, x, y) <=> On(b, x, y) BY <1>7, <2>10
    <3> QED BY <2>9, <3>1, <3>2, <3>3 DEF OnBoth
  <2>11. CASE y < r
    <3>1. InRow(row, x, y) <=> On(a, x, y) /\ On(b, x, y)
      <4>1. On(a, x, y) <=> Head(a).top <= y /\ Has(p, x) BY <1>2, <2>1, <2>3, <2>7, <2>11
      <4>2. On(b, x, y) <=> l <= y /\ Has(q, x) BY <1>2, <2>2, <2>4, <2>8, <2>11
      <4> QED BY <1>2, <2>6, <2>11, <4>1, <4>2
    <3>2. On(aa, x, y) => On(a, x, y) BY <1>6
    <3>3. On(bb, x, y) => On(b, x, y) BY <1>7
    <3> QED BY <2>9, <3>1, <3>2, <3>3 DEF OnBoth
  <2> QED BY <2>10, <2>11
<1> QED BY <1>10, <1>12, <1>13 DEF aa, bb, new

\* intersect leaves a region of the pixels that lie on both.
THEOREM IntersectExact ==
  ASSUME NEW a \in Rows, NEW b \in Rows, IsRegion(a), IsRegion(b)
  PROVE  /\ IsRegion(intersect(a, b))
         /\ \A x, y \in Int : On(intersect(a, b), x, y) <=> On(a, x, y) /\ On(b, x, y)
<1> DEFINE Inv(p, q, out) == /\ RegionsInOrder(p, q, out)
                             /\ \A x, y \in Int : OnBoth(p, q, out, x, y) <=> On(a, x, y) /\ On(b, x, y)
           I == {s \in RegionWalk : Inv(s.a, s.b, s.out)}
           P == {out \in Rows : /\ IsRegion(out)
                                /\ \A x, y \in Int : On(out, x, y) <=> On(a, x, y) /\ On(b, x, y)}
           s0 == [a |-> a, b |-> b, out |-> <<>>]
<1>0. \A p, q, out : Inv(p, q, out) <=> Inv(q, p, out) BY DEF RegionsInOrder, OnBoth
<1>1. s0 \in I
  <2>1. s0 \in RegionWalk /\ s0.a = a /\ s0.b = b /\ s0.out = <<>> BY NoRows DEF RegionWalk
  <2>2. RegionsInOrder(a, b, <<>>)
    <3>1. a # <<>> => Head(a).top \in Int BY RowsTail, RowFields
    <3> QED BY <3>1, NoRows DEF RegionsInOrder
  <2>3. \A x, y \in Int : OnBoth(a, b, <<>>, x, y) <=> On(a, x, y) /\ On(b, x, y)
    BY NoRows DEF OnBoth
  <2> HIDE DEF s0
  <2> QED BY <2>1, <2>2, <2>3
<1>2. ASSUME NEW s \in I, s.a = <<>> \/ s.b = <<>> PROVE s.out \in P
  <2>1. s \in RegionWalk /\ Inv(s.a, s.b, s.out) OBVIOUS
  <2>2. s.out \in Rows BY <2>1, RegionWalkFields
  <2>3. \A x, y \in Int : ~On(s.a, x, y) \/ ~On(s.b, x, y) BY <1>2, NoRows
  <2> QED BY <2>1, <2>2, <2>3 DEF RegionsInOrder, OnBoth
<1>3. ASSUME NEW s \in I, s.a # <<>>, s.b # <<>> PROVE IntersectRow(s) \in I
  <2> DEFINE x == TopMost(s)
             y == OtherRows(s)
             r == NextBottom(s)
             out == s.out
             t == IntersectRow(s)
  <2>1. s \in RegionWalk /\ Inv(s.a, s.b, out) OBVIOUS
  <2>2. out \in Rows BY <2>1, RegionWalkFields
  <2>3. (x = s.a /\ y = s.b) \/ (x = s.b /\ y = s.a) BY <1>3, <2>1, IntersectRowTurn
  <2>4. x \in Rows /\ y \in Rows /\ x # <<>> /\ y # <<>> BY <1>3, <2>1, IntersectRowTurn
  <2>5. Head(x) \in Row /\ Head(y) \in Row /\ Head(x).top <= Head(y).top
    BY <1>3, <2>1, IntersectRowTurn
  <2>6. Head(x).bottom <= Head(y).top => t = [a |-> Tail(x), b |-> y, out |-> out]
    BY <1>3, <2>1, IntersectRowTurn
  <2>7. ~(Head(x).bottom <= Head(y).top) =>
              t = [a |-> Rest(x, r), b |-> Rest(y, r), out |-> CommonOut(x, y, r, out)]
    BY <1>3, <2>1, IntersectRowTurn
  <2>8. r = IF Head(x).bottom <= Head(y).bottom THEN Head(x).bottom ELSE Head(y).bottom
    BY DEF NextBottom
  <2>9. Inv(x, y, out) BY <1>0, <2>1, <2>3
  <2>10. t \in RegionWalk BY <1>3, <2>1, IntersectRowLess
  <2>11. Head(x).bottom \in Int /\ Head(y).bottom \in Int /\ Head(y).top \in Int BY <2>5, RowFields
  <2> HIDE DEF x, y, r, out
  <2>12. CASE Head(x).bottom <= Head(y).top
    <3>1. Inv(Tail(x), y, out) BY <2>2, <2>4, <2>5, <2>9, <2>12, DropRow
    <3>2. t.a = Tail(x) /\ t.b = y /\ t.out = out BY <2>6, <2>12
    <3> HIDE DEF t, Inv
    <3>3. Inv(t.a, t.b, t.out) BY <3>1, <3>2
    <3> QED BY <3>3, <2>10 DEF t
  <2>13. CASE ~(Head(x).bottom <= Head(y).top)
    <3> DEFINE new == CommonOut(x, y, r, out)
               xx == Rest(x, r)
               yy == Rest(y, r)
    <3>1. Inv(xx, yy, new)
      <4>1. RegionsInOrder(x, y, out) /\ Head(y).top < Head(x).bottom BY <2>9, <2>11, <2>13
      <4>2. r \in Int /\ (r = Head(x).bottom \/ r = Head(y).bottom) BY <2>8, <2>11
      <4>3. r <= Head(x).bottom /\ r <= Head(y).bottom BY <2>8, <2>11
      <4>4. /\ RegionsInOrder(xx, yy, new)
            /\ \A v, w \in Int : OnBoth(xx, yy, new, v, w) <=> OnBoth(x, y, out, v, w)
        BY <2>2, <2>4, <2>5, <4>1, <4>2, <4>3, CutRow
      <4> HIDE DEF xx, yy, new
      <4> QED BY <4>4, <2>9
    <3>2. t.a = xx /\ t.b = yy /\ t.out = new BY <2>7, <2>13
    <3> HIDE DEF t, Inv, xx, yy, new
    <3>3. Inv(t.a, t.b, t.out) BY <3>1, <3>2
    <3> QED BY <3>3, <2>10 DEF t
  <2> QED BY <2>12, <2>13
<1>4. Intersecting[s0] \in P
  <2>1. I \in SUBSET RegionWalk OBVIOUS
  <2> HIDE DEF I, P, s0
  <2> QED BY <1>1, <1>2, <1>3, <2>1, IntersectingInvariant, Zenon
<1> QED BY <1>4 DEF intersect

-----------------------------------------------------------------------------
\* subtract

\* Where in the first row left the subtraction goes on, the part of it the first row of b
\* may cover, and what is handed out of that part.
LineAt(s) == IF s.top >= Head(s.rows).top THEN s.top ELSE Head(s.rows).top
CoverAt(s) == Between(Head(s.rows), LineAt(s), Head(s.b).bottom)
SpansLeft(s) == subtract_rows(Head(s.rows).spans, Head(s.b).spans)
PartLeft(s) == [CoverAt(s) EXCEPT !.spans = SpansLeft(s)]
AboveLine(s) == Above(s.before, Head(s.rows), LineAt(s))
Passed(s) == CoverAt(s).bottom >= Head(s.b).bottom

\* The fields of a walk.
LEMMA SubtractWalkFields ==
  ASSUME NEW s \in SubtractWalk
  PROVE  /\ s.before \in Rows /\ s.rows \in Rows /\ s.b \in Rows /\ s.top \in Int
         /\ Len(s.rows) + Len(s.b) \in Nat
<1>1. s.before \in Rows /\ s.rows \in Rows /\ s.b \in Rows /\ s.top \in Int BY DEF SubtractWalk
<1>2. ASSUME NEW a \in Rows, NEW b \in Rows PROVE Len(a) + Len(b) \in Nat BY RowsType
<1>3. Len(s.rows) + Len(s.b) \in Nat BY <1>1, <1>2, Zenon
<1> QED BY <1>1, <1>3

\* Where the subtraction goes on after a row of b.
LEMMA NextTopFacts ==
  ASSUME NEW b \in Rows, NEW top \in Int
  PROVE  /\ NextTop(b, top) \in Int
         /\ b = <<>> => NextTop(b, top) = top
         /\ b # <<>> => NextTop(b, top) = Head(b).top
BY RowsTail, RowFields DEF NextTop

\* One turn in these terms.
LEMMA SubtractRowTurn ==
  ASSUME NEW s \in SubtractWalk, s.rows # <<>>, s.b # <<>>
  PROVE  /\ SubtractRow(s) \in SubtractWalk
         /\ Head(s.rows).bottom <= s.top =>
              /\ SubtractRow(s).before = Push(s.before, Head(s.rows))
              /\ SubtractRow(s).rows = Tail(s.rows)
              /\ SubtractRow(s).b = s.b /\ SubtractRow(s).top = s.top
         /\ ~(Head(s.rows).bottom <= s.top) /\ LineAt(s) >= Head(s.b).bottom /\ s.top < Head(s.rows).top =>
              /\ SubtractRow(s).before = s.before /\ SubtractRow(s).rows = s.rows
              /\ SubtractRow(s).b = Tail(s.b)
              /\ SubtractRow(s).top = NextTop(Tail(s.b), LineAt(s))
         /\ ~(Head(s.rows).bottom <= s.top) /\ ~(LineAt(s) >= Head(s.b).bottom /\ s.top < Head(s.rows).top) =>
              /\ SubtractRow(s).before = IF SpansLeft(s) = <<>> THEN AboveLine(s)
                                         ELSE Push(AboveLine(s), PartLeft(s))
              /\ SubtractRow(s).rows = Below(Head(s.rows), Head(s.b).bottom, Tail(s.rows))
              /\ SubtractRow(s).b = IF Passed(s) THEN Tail(s.b) ELSE s.b
              /\ SubtractRow(s).top = IF Passed(s) THEN NextTop(Tail(s.b), CoverAt(s).bottom)
                                      ELSE CoverAt(s).bottom
         /\ LineAt(s) \in Int
         /\ AboveLine(s) \in Rows
         /\ PartLeft(s) \in Row /\ PartLeft(s).top = LineAt(s)
         /\ PartLeft(s).bottom = CoverAt(s).bottom /\ PartLeft(s).spans = SpansLeft(s)
         /\ CoverAt(s).bottom = IF Head(s.rows).bottom <= Head(s.b).bottom THEN Head(s.rows).bottom
                                ELSE Head(s.b).bottom
<1> DEFINE row == Head(s.rows)
           minus == Head(s.b)
           rt == Tail(s.rows)
           bt == Tail(s.b)
           line == LineAt(s)
           cover == CoverAt(s)
           spans == SpansLeft(s)
           part == PartLeft(s)
           above == AboveLine(s)
           t == SubtractRow(s)
<1>1. s.before \in Rows /\ s.rows \in Rows /\ s.b \in Rows /\ s.top \in Int BY SubtractWalkFields
<1>2. row \in Row /\ rt \in Rows /\ minus \in Row /\ bt \in Rows BY <1>1, RowsTail
<1>3. /\ row.top \in Int /\ row.bottom \in Int /\ row.spans \in Spans
      /\ minus.top \in Int /\ minus.bottom \in Int /\ minus.spans \in Spans
  BY <1>2, RowFields
<1>4. line \in Int /\ Max({s.top, row.top}) = line BY <1>1, <1>3, MinMaxFacts DEF LineAt
<1>5. /\ cover \in Row /\ cover.top = line
      /\ cover.bottom = IF row.bottom <= minus.bottom THEN row.bottom ELSE minus.bottom
  BY <1>2, <1>3, <1>4, BetweenFacts DEF CoverAt
<1>6. spans \in Spans BY <1>3, SubtractRowsType DEF SpansLeft
<1>7. above \in Rows BY <1>1, <1>2, <1>4, AboveFacts DEF AboveLine
<1>8. part = [cover EXCEPT !.spans = spans] BY DEF PartLeft
<1> HIDE DEF cover, spans, part
<1>9. part \in Row /\ part.top = line /\ part.bottom = cover.bottom /\ part.spans = spans
  BY <1>5, <1>6, <1>8 DEF Row
<1>10. t = IF row.bottom <= s.top
           THEN [s EXCEPT !.before = Push(@, row), !.rows = Tail(@)]
           ELSE IF line >= minus.bottom /\ s.top < row.top
           THEN [s EXCEPT !.b = Tail(@), !.top = NextTop(bt, line)]
           ELSE [before |-> IF spans = <<>> THEN above ELSE Push(above, part),
                 rows |-> Below(row, minus.bottom, rt),
                 b |-> IF Passed(s) THEN bt ELSE s.b,
                 top |-> IF Passed(s) THEN NextTop(bt, cover.bottom) ELSE cover.bottom]
  BY <1>4 DEF SubtractRow, LineAt, CoverAt, SpansLeft, PartLeft, AboveLine, Passed, cover, spans, part
<1>11. CASE row.bottom <= s.top
  <2> DEFINE p == Push(s.before, row)
  <2>1. p \in Rows BY <1>1, <1>2, PushFacts
  <2>2. t = [s EXCEPT !.before = p, !.rows = rt]
    <3>1. t = [s EXCEPT !.before = Push(@, row), !.rows = Tail(@)] BY <1>10, <1>11
    <3>2. [s EXCEPT !.before = Push(@, row), !.rows = Tail(@)] = [s EXCEPT !.before = p, !.rows = rt]
      BY DEF SubtractWalk
    <3> HIDE DEF t
    <3> QED BY <3>1, <3>2
  <2> HIDE DEF p, rt, t
  <2>3. t.before = p /\ t.rows = rt /\ t.b = s.b /\ t.top = s.top BY <2>2 DEF SubtractWalk
  <2>4. t \in SubtractWalk BY <1>2, <2>1, <2>2 DEF SubtractWalk
  <2> QED BY <1>4, <1>5, <1>7, <1>9, <1>11, <2>3, <2>4 DEF p, rt, t, cover, part, spans
<1>12. CASE ~(row.bottom <= s.top) /\ line >= minus.bottom /\ s.top < row.top
  <2> DEFINE n == NextTop(bt, line)
  <2>1. n \in Int BY <1>2, <1>4, NextTopFacts
  <2>2. t = [s EXCEPT !.b = bt, !.top = n]
    <3>1. t = [s EXCEPT !.b = Tail(@), !.top = n] BY <1>10, <1>12
    <3>2. [s EXCEPT !.b = Tail(@), !.top = n] = [s EXCEPT !.b = bt, !.top = n]
      BY DEF SubtractWalk
    <3> HIDE DEF t, n
    <3> QED BY <3>1, <3>2
  <2> HIDE DEF n, bt, t
  <2>3. t.before = s.before /\ t.rows = s.rows /\ t.b = bt /\ t.top = n BY <2>2 DEF SubtractWalk
  <2>4. t \in SubtractWalk BY <1>2, <2>1, <2>2 DEF SubtractWalk
  <2> QED BY <1>4, <1>5, <1>7, <1>9, <1>12, <2>3, <2>4 DEF n, bt, t, cover, part, spans
<1>13. CASE ~(row.bottom <= s.top) /\ ~(line >= minus.bottom /\ s.top < row.top)
  <2> DEFINE p == IF spans = <<>> THEN above ELSE Push(above, part)
             q == Below(row, minus.bottom, rt)
             d == IF Passed(s) THEN bt ELSE s.b
             n == IF Passed(s) THEN NextTop(bt, cover.bottom) ELSE cover.bottom
  <2>1. cover.bottom \in Int BY <1>5, RowFields
  <2>2. p \in Rows BY <1>7, <1>9, PushFacts
  <2>3. q \in Rows BY <1>2, <1>3, BelowFacts
  <2>4. d \in Rows BY <1>1, <1>2
  <2>5. n \in Int BY <1>2, <2>1, NextTopFacts
  <2>6. t = [before |-> p, rows |-> q, b |-> d, top |-> n] BY <1>10, <1>13
  <2> HIDE DEF p, q, d, n, t
  <2>7. t.before = p /\ t.rows = q /\ t.b = d /\ t.top = n BY <2>6
  <2>8. t \in SubtractWalk BY <2>2, <2>3, <2>4, <2>5, <2>6 DEF SubtractWalk
  <2> QED BY <1>4, <1>5, <1>7, <1>9, <1>13, <2>7, <2>8 DEF p, q, d, n, t, cover, part, spans
<1> QED BY <1>11, <1>12, <1>13

\* Every turn leaves a walk with less before it.
LEMMA SubtractRowLess ==
  ASSUME NEW s \in SubtractWalk, s.rows # <<>>, s.b # <<>>
  PROVE  /\ SubtractRow(s) \in SubtractWalk
         /\ Len(SubtractRow(s).rows) + Len(SubtractRow(s).b) < Len(s.rows) + Len(s.b)
<1> DEFINE t == SubtractRow(s)
           m == Len(s.rows)
           n == Len(s.b)
           mm == Len(t.rows)
           nn == Len(t.b)
           row == Head(s.rows)
           minus == Head(s.b)
<1>1. s.rows \in Rows /\ s.b \in Rows /\ t \in SubtractWalk
  BY SubtractWalkFields, SubtractRowTurn
<1>2. m \in Nat /\ n \in Nat BY <1>1, RowsType
<1>3. /\ row \in Row /\ Tail(s.rows) \in Rows /\ Len(Tail(s.rows)) = m - 1
      /\ minus \in Row /\ Tail(s.b) \in Rows /\ Len(Tail(s.b)) = n - 1
  BY <1>1, RowsTail
<1>4. row.bottom \in Int /\ minus.bottom \in Int BY <1>3, RowFields
<1>5. (mm = m - 1 /\ nn = n) \/ (mm = m /\ nn = n - 1) \/ (mm = m - 1 /\ nn = n - 1)
  <2>1. CASE row.bottom <= s.top
    <3>1. t.rows = Tail(s.rows) /\ t.b = s.b BY <2>1, SubtractRowTurn
    <3> HIDE DEF t
    <3> QED BY <3>1, <1>3
  <2>2. CASE ~(row.bottom <= s.top) /\ LineAt(s) >= minus.bottom /\ s.top < row.top
    <3>1. t.rows = s.rows /\ t.b = Tail(s.b) BY <2>2, SubtractRowTurn
    <3> HIDE DEF t
    <3> QED BY <3>1, <1>3
  <2>3. CASE ~(row.bottom <= s.top) /\ ~(LineAt(s) >= minus.bottom /\ s.top < row.top)
    <3>1. /\ t.rows = Below(row, minus.bottom, Tail(s.rows))
          /\ t.b = IF Passed(s) THEN Tail(s.b) ELSE s.b
      BY <2>3, SubtractRowTurn
    <3>2. CoverAt(s).bottom = IF row.bottom <= minus.bottom THEN row.bottom ELSE minus.bottom
      BY SubtractRowTurn
    <3>3. mm = IF minus.bottom < row.bottom THEN Len(Tail(s.rows)) + 1 ELSE Len(Tail(s.rows))
      <4> DEFINE rt == Tail(s.rows)
                 q == Below(row, minus.bottom, rt)
      <4>1. rt \in Rows BY <1>3
      <4> HIDE DEF rt
      <4>2. Len(q) = IF minus.bottom < row.bottom THEN Len(rt) + 1 ELSE Len(rt)
        BY <1>3, <1>4, <4>1, BelowFacts
      <4>3. mm = Len(q) BY <3>1 DEF rt
      <4> HIDE DEF q
      <4> QED BY <4>2, <4>3 DEF rt
    <3>4. minus.bottom < row.bottom => Passed(s) BY <1>4, <3>2 DEF Passed
    <3>5. nn = IF Passed(s) THEN n - 1 ELSE n BY <1>3, <3>1
    <3> DEFINE k == Len(Tail(s.rows))
    <3>6. k = m - 1 /\ (mm = k + 1 \/ mm = k) /\ (minus.bottom < row.bottom \/ mm = k)
      BY <1>3, <3>3
    <3> HIDE DEF k, m, n, mm, nn
    <3> QED BY <1>2, <3>4, <3>5, <3>6
  <2> QED BY <2>1, <2>2, <2>3
<1>6. mm + nn < m + n
  <2> HIDE DEF m, n, mm, nn
  <2> QED BY <1>2, <1>5
<1> QED BY <1>1, <1>6

\* The loop unfolds.
LEMMA SubtractingLoop ==
  IsLoop(Subtracting, SubtractWalk, {s \in SubtractWalk : s.rows = <<>> \/ s.b = <<>>},
         [s \in SubtractWalk |-> Joined(s.before, s.rows)],
         [s \in SubtractWalk |-> IF s.rows = <<>> \/ s.b = <<>> THEN s ELSE SubtractRow(s)])
<1> DEFINE D == {s \in SubtractWalk : s.rows = <<>> \/ s.b = <<>>}
           R == [s \in SubtractWalk |-> Joined(s.before, s.rows)]
           F == [s \in SubtractWalk |-> IF s.rows = <<>> \/ s.b = <<>> THEN s ELSE SubtractRow(s)]
           Turn(r) == [s \in SubtractWalk |-> IF s.rows = <<>> \/ s.b = <<>> THEN Joined(s.before, s.rows)
                                              ELSE r[SubtractRow(s)]]
<1>1. F \in [SubtractWalk -> SubtractWalk] BY SubtractRowLess
<1>2. \A r : IsLoop(r, SubtractWalk, D, R, F) <=> r = Turn(r) BY DEF IsLoop
<1>3. \E r : IsLoop(r, SubtractWalk, D, R, F)
  <2> HIDE DEF D, R, F
  <2> QED BY <1>1, LoopExists, Zenon
<1>4. Subtracting = Turn(Subtracting)
  <2>1. \E r : r = Turn(r) BY <1>2, <1>3, Zenon
  <2> QED BY <2>1, Zenon DEF Subtracting, SubtractWalk
<1> QED BY <1>2, <1>4, Zenon

\* The invariant rule for it.
LEMMA SubtractingInvariant ==
  ASSUME NEW I \in SUBSET SubtractWalk, NEW P,
         \A s \in I : s.rows = <<>> \/ s.b = <<>> => Joined(s.before, s.rows) \in P,
         \A s \in I : s.rows # <<>> /\ s.b # <<>> => SubtractRow(s) \in I
  PROVE  \A s \in I : Subtracting[s] \in P
<1> DEFINE D == {s \in SubtractWalk : s.rows = <<>> \/ s.b = <<>>}
           R == [s \in SubtractWalk |-> Joined(s.before, s.rows)]
           F == [s \in SubtractWalk |-> IF s.rows = <<>> \/ s.b = <<>> THEN s ELSE SubtractRow(s)]
           m == [s \in SubtractWalk |-> Len(s.rows) + Len(s.b)]
<1>1. IsLoop(Subtracting, SubtractWalk, D, R, F) BY SubtractingLoop
<1>2. Keeps(SubtractWalk, D, R, F, I, m, P)
  <2>1. m \in [SubtractWalk -> Nat] BY SubtractWalkFields
  <2>2. \A s \in I : s \in D => R[s] \in P OBVIOUS
  <2>3. \A s \in I : s \notin D => F[s] \in I /\ m[F[s]] < m[s] BY SubtractRowLess
  <2> HIDE DEF D, R, F, m
  <2> QED BY <2>1, <2>2, <2>3 DEF Keeps
<1> HIDE DEF D, R, F, m
<1> QED BY <1>1, <1>2, LoopInvariant, Zenon

\* The walk of subtract: everything is in order, the rows before the iterator end by the
\* line, and the line lies in the first row of b left.
SubtractInOrder(before, rows, b, top) ==
  /\ IsRegion(before) /\ IsRegion(rows) /\ IsRegion(b)
  /\ Before(before, rows) /\ EndsBy(before, top)
  /\ b # <<>> => Head(b).top <= top /\ top < Head(b).bottom
\* What has been kept, and what will be of the rows left: b counts from the line on.
Kept(before, rows, b, top, x, y) ==
  On(before, x, y) \/ (On(rows, x, y) /\ ~(On(b, x, y) /\ top <= y))

\* A turn that passes a row above the line.
LEMMA PassRow ==
  ASSUME NEW before \in Rows, NEW rows \in Rows, NEW b \in Rows, NEW top \in Int,
         rows # <<>>, SubtractInOrder(before, rows, b, top), Head(rows).bottom <= top
  PROVE  /\ SubtractInOrder(Push(before, Head(rows)), Tail(rows), b, top)
         /\ \A x, y \in Int : Kept(Push(before, Head(rows)), Tail(rows), b, top, x, y) <=>
                                Kept(before, rows, b, top, x, y)
<1> DEFINE row == Head(rows)
           rest == Tail(rows)
           new == Push(before, row)
<1>0. /\ IsRegion(before) /\ IsRegion(rows) /\ IsRegion(b) /\ Before(before, rows)
      /\ b # <<>> => Head(b).top <= top /\ top < Head(b).bottom
  BY DEF SubtractInOrder
<1>1. /\ row \in Row /\ rest \in Rows /\ IsRow(row) /\ IsRegion(rest) /\ BeginsFrom(rest, row.bottom)
      /\ \A x, y \in Int : On(rows, x, y) <=> InRow(row, x, y) \/ On(rest, x, y)
  BY <1>0, RowsTail
<1>2. row.top \in Int /\ row.bottom \in Int BY <1>1, RowFields
<1>3. EndsBy(before, row.top) BY <1>0, BeforeAt
<1>4. /\ new \in Rows /\ IsRegion(new) /\ EndsBy(new, row.bottom)
      /\ \A x, y \in Int : On(new, x, y) <=> On(before, x, y) \/ InRow(row, x, y)
  BY <1>0, <1>1, <1>3, PushFacts
<1> HIDE DEF row, rest, new
<1>5. Before(new, rest) BY <1>1, <1>2, <1>4, BeforeAt
<1>6. EndsBy(new, top)
  <2>1. \A y, z \in Int : EndsBy(new, y) /\ y <= z => EndsBy(new, z) BY <1>4, BeforeAt
  <2> QED BY <1>2, <1>4, <2>1 DEF row
<1>7. SubtractInOrder(new, rest, b, top) BY <1>0, <1>1, <1>4, <1>5, <1>6 DEF SubtractInOrder
<1>8. ASSUME NEW x \in Int, NEW y \in Int
      PROVE  Kept(new, rest, b, top, x, y) <=> Kept(before, rows, b, top, x, y)
  <2>1. InRow(row, x, y) => ~(top <= y) BY <1>2 DEF InRow, row
  <2> QED BY <1>1, <1>4, <2>1 DEF Kept
<1> QED BY <1>7, <1>8 DEF row, rest, new

\* A turn that skips a row of b above the first row left.
LEMMA SkipRow ==
  ASSUME NEW before \in Rows, NEW rows \in Rows, NEW b \in Rows, NEW top \in Int,
         rows # <<>>, b # <<>>, SubtractInOrder(before, rows, b, top),
         NEW line \in Int, line = Head(rows).top, top < line, line >= Head(b).bottom
  PROVE  /\ SubtractInOrder(before, rows, Tail(b), NextTop(Tail(b), line))
         /\ \A x, y \in Int : Kept(before, rows, Tail(b), NextTop(Tail(b), line), x, y) <=>
                                Kept(before, rows, b, top, x, y)
<1> DEFINE minus == Head(b)
           bt == Tail(b)
           next == NextTop(bt, line)
<1>0. /\ IsRegion(before) /\ IsRegion(rows) /\ IsRegion(b) /\ Before(before, rows)
      /\ EndsBy(before, top) /\ minus.top <= top /\ top < minus.bottom
  BY DEF SubtractInOrder
<1>1. /\ minus \in Row /\ bt \in Rows /\ IsRegion(bt) /\ BeginsFrom(bt, minus.bottom)
      /\ \A x, y \in Int : On(b, x, y) <=> InRow(minus, x, y) \/ On(bt, x, y)
  BY <1>0, RowsTail
<1>2. minus.bottom \in Int BY <1>1, RowFields
<1>3. next \in Int /\ (bt = <<>> => next = line) /\ (bt # <<>> => next = Head(bt).top)
  BY <1>1, NextTopFacts
<1>4. bt # <<>> => /\ Head(bt).top < Head(bt).bottom /\ minus.bottom <= Head(bt).top
                   /\ BeginsFrom(bt, Head(bt).top)
  <2> SUFFICES ASSUME bt # <<>>
               PROVE  /\ Head(bt).top < Head(bt).bottom /\ minus.bottom <= Head(bt).top
                      /\ BeginsFrom(bt, Head(bt).top)
    OBVIOUS
  <2> HIDE DEF bt
  <2>1. Head(bt) \in Row /\ IsRow(Head(bt)) BY <1>1, RowsTail
  <2>2. Head(bt).top < Head(bt).bottom BY <2>1, RowFields
  <2>3. BeginsFrom(bt, Head(bt).top) BY <1>1, BeforeAt
  <2>4. minus.bottom <= Head(bt).top
    <3>1. Len(bt) \in Nat \ {0} /\ Head(bt) = bt[1] BY <1>1, TailFacts DEF Rows
    <3>2. 1 \in 1 .. Len(bt) BY <3>1
    <3> QED BY <1>1, <3>1, <3>2 DEF BeginsFrom
  <2> QED BY <2>2, <2>3, <2>4
<1>5. top <= next
  <2>1. CASE bt = <<>> BY <2>1, <1>3
  <2>2. CASE bt # <<>> BY <2>2, <1>0, <1>2, <1>3, <1>4
  <2> QED BY <2>1, <2>2
<1>6. EndsBy(before, next)
  <2>1. \A y, z \in Int : EndsBy(before, y) /\ y <= z => EndsBy(before, z) BY BeforeAt
  <2> QED BY <1>0, <1>3, <1>5, <2>1
<1>7. bt # <<>> => Head(bt).top <= next /\ next < Head(bt).bottom BY <1>3, <1>4
<1>8. SubtractInOrder(before, rows, bt, next) BY <1>0, <1>1, <1>6, <1>7 DEF SubtractInOrder
<1>9. ASSUME NEW x \in Int, NEW y \in Int
      PROVE  Kept(before, rows, bt, next, x, y) <=> Kept(before, rows, b, top, x, y)
  <2>1. On(rows, x, y) => line <= y
    <3>1. BeginsFrom(rows, Head(rows).top) BY <1>0, BeforeAt
    <3>2. BeginsFrom(rows, line) BY <3>1
    <3> QED BY <3>2, OnSide
  <2>2. On(bt, x, y) => next <= y
    <3> SUFFICES ASSUME On(bt, x, y) PROVE next <= y OBVIOUS
    <3>1. bt # <<>> BY NoRows
    <3>2. BeginsFrom(bt, next) BY <1>3, <1>4, <3>1
    <3> QED BY <1>1, <1>3, <3>2, OnSide
  <2>3. InRow(minus, x, y) => y < minus.bottom BY DEF InRow
  <2>4. On(b, x, y) <=> InRow(minus, x, y) \/ On(bt, x, y) BY <1>1
  <2>5. On(rows, x, y) => (On(b, x, y) /\ top <= y <=> On(bt, x, y) /\ next <= y)
    BY <1>0, <1>2, <1>3, <1>5, <2>1, <2>2, <2>3, <2>4
  <2> QED BY <2>5 DEF Kept
<1> QED BY <1>8, <1>9

\* A turn that subtracts the first row of b from the first row left.
LEMMA SubtractRowKeeps ==
  ASSUME NEW s \in SubtractWalk, s.rows # <<>>, s.b # <<>>,
         SubtractInOrder(s.before, s.rows, s.b, s.top),
         ~(Head(s.rows).bottom <= s.top),
         ~(LineAt(s) >= Head(s.b).bottom /\ s.top < Head(s.rows).top)
  PROVE  LET t == SubtractRow(s) IN
         /\ SubtractInOrder(t.before, t.rows, t.b, t.top)
         /\ \A x, y \in Int : Kept(t.before, t.rows, t.b, t.top, x, y) <=>
                                Kept(s.before, s.rows, s.b, s.top, x, y)
<1> DEFINE t == SubtractRow(s)
           row == Head(s.rows)
           rest == Tail(s.rows)
           minus == Head(s.b)
           bt == Tail(s.b)
           line == LineAt(s)
           pb == CoverAt(s).bottom
           spans == SpansLeft(s)
           part == PartLeft(s)
           above == AboveLine(s)
           below == Below(row, minus.bottom, rest)
           top == s.top
<1>0. /\ IsRegion(s.before) /\ IsRegion(s.rows) /\ IsRegion(s.b) /\ Before(s.before, s.rows)
      /\ EndsBy(s.before, top) /\ minus.top <= top /\ top < minus.bottom
  BY DEF SubtractInOrder
<1>1. s.before \in Rows /\ s.rows \in Rows /\ s.b \in Rows /\ top \in Int BY SubtractWalkFields
<1>2. /\ row \in Row /\ rest \in Rows /\ IsRow(row) /\ IsRegion(rest) /\ BeginsFrom(rest, row.bottom)
      /\ \A x, y \in Int : On(s.rows, x, y) <=> InRow(row, x, y) \/ On(rest, x, y)
  BY <1>0, <1>1, RowsTail
<1>3. /\ minus \in Row /\ bt \in Rows /\ IsRow(minus) /\ IsRegion(bt) /\ BeginsFrom(bt, minus.bottom)
      /\ \A x, y \in Int : On(s.b, x, y) <=> InRow(minus, x, y) \/ On(bt, x, y)
  BY <1>0, <1>1, RowsTail
<1>4. /\ row.top \in Int /\ row.bottom \in Int /\ row.top < row.bottom
      /\ row.spans \in Spans /\ InOrder(row.spans)
      /\ minus.top \in Int /\ minus.bottom \in Int
      /\ minus.spans \in Spans /\ InOrder(minus.spans)
  BY <1>2, <1>3, RowFields
<1>5. /\ t.before = IF spans = <<>> THEN above ELSE Push(above, part)
      /\ t.rows = below
      /\ t.b = IF Passed(s) THEN bt ELSE s.b
      /\ t.top = IF Passed(s) THEN NextTop(bt, pb) ELSE pb
  BY SubtractRowTurn
<1>6. /\ part \in Row /\ part.top = line /\ part.bottom = pb /\ part.spans = spans
      /\ pb = IF row.bottom <= minus.bottom THEN row.bottom ELSE minus.bottom
  BY SubtractRowTurn
<1>7. line = IF top >= row.top THEN top ELSE row.top BY DEF LineAt
<1>8. /\ line \in Int /\ row.top <= line /\ line < row.bottom
      /\ top <= line /\ line < minus.bottom /\ pb \in Int /\ line < pb
      /\ pb <= row.bottom /\ pb <= minus.bottom
  BY <1>0, <1>1, <1>4, <1>6, <1>7
<1>9. Passed(s) <=> pb >= minus.bottom BY DEF Passed
<1> HIDE DEF t
<1>10. /\ above \in Rows /\ IsRegion(above) /\ EndsBy(above, line)
       /\ \A x, y \in Int : On(above, x, y) <=> On(s.before, x, y) \/ (InRow(row, x, y) /\ y < line)
  <2>1. EndsBy(s.before, row.top) BY <1>0, <1>1, BeforeAt
  <2>2. line <= row.bottom BY <1>4, <1>8
  <2>3. above = Above(s.before, row, line) BY DEF AboveLine
  <2> HIDE DEF line, row, above
  <2> QED BY <1>0, <1>1, <1>2, <1>8, <2>1, <2>2, <2>3, AboveFacts
<1>11. /\ spans \in Spans /\ InOrder(spans)
       /\ \A x \in Int : Has(spans, x) <=> Has(row.spans, x) /\ ~Has(minus.spans, x)
  BY <1>4, SubtractRowsExact DEF SpansLeft
<1>12. /\ below \in Rows /\ IsRegion(below) /\ BeginsFrom(below, pb)
       /\ \A x, y \in Int : On(below, x, y) <=> On(rest, x, y) \/ (InRow(row, x, y) /\ minus.bottom <= y)
  <2>1. row.top <= minus.bottom BY <1>4, <1>8
  <2>2. /\ below \in Rows /\ IsRegion(below)
        /\ BeginsFrom(below, IF row.bottom <= minus.bottom THEN row.bottom ELSE minus.bottom)
        /\ \A x, y \in Int : On(below, x, y) <=> On(rest, x, y) \/ (InRow(row, x, y) /\ minus.bottom <= y)
    BY <1>2, <1>4, <2>1, BelowFacts
  <2> QED BY <1>6, <2>2
<1> HIDE DEF row, rest, minus, bt, line, pb, spans, part, above, below, top
<1>13. /\ t.before \in Rows /\ IsRegion(t.before) /\ EndsBy(t.before, pb)
       /\ \A x, y \in Int : On(t.before, x, y) <=> On(above, x, y) \/ InRow(part, x, y)
  <2>1. CASE spans = <<>>
    <3>1. t.before = above BY <1>5, <2>1
    <3>2. \A y, z \in Int : EndsBy(above, y) /\ y <= z => EndsBy(above, z) BY <1>10, BeforeAt
    <3>3. line <= pb BY <1>8
    <3>4. EndsBy(above, pb) BY <1>8, <1>10, <3>2, <3>3
    <3>5. \A x, y \in Int : ~InRow(part, x, y) BY <1>6, <2>1, NoSpans DEF InRow
    <3> QED BY <1>10, <3>1, <3>4, <3>5
  <2>2. CASE spans # <<>>
    <3>1. IsRow(part) BY <1>6, <1>8, <1>11, <2>2 DEF IsRow
    <3> DEFINE w == Push(above, part)
    <3>2. /\ w \in Rows /\ IsRegion(w) /\ EndsBy(w, part.bottom)
          /\ \A x, y \in Int : On(w, x, y) <=> On(above, x, y) \/ InRow(part, x, y)
      BY <1>6, <1>10, <3>1, PushFacts
    <3>3. t.before = w BY <1>5, <2>2
    <3> HIDE DEF w
    <3> QED BY <1>6, <3>2, <3>3
  <2> QED BY <2>1, <2>2
<1>14. bt # <<>> => /\ Head(bt).top < Head(bt).bottom /\ minus.bottom <= Head(bt).top
                    /\ BeginsFrom(bt, Head(bt).top)
  <2> SUFFICES ASSUME bt # <<>>
               PROVE  /\ Head(bt).top < Head(bt).bottom /\ minus.bottom <= Head(bt).top
                      /\ BeginsFrom(bt, Head(bt).top)
    OBVIOUS
  <2>1. Head(bt) \in Row /\ IsRow(Head(bt)) BY <1>3, RowsTail
  <2>2. Head(bt).top < Head(bt).bottom BY <2>1, RowFields
  <2>3. BeginsFrom(bt, Head(bt).top) BY <1>3, BeforeAt
  <2>4. minus.bottom <= Head(bt).top
    <3>1. Len(bt) \in Nat \ {0} /\ Head(bt) = bt[1] BY <1>3, TailFacts DEF Rows
    <3>2. 1 \in 1 .. Len(bt) BY <3>1
    <3> QED BY <1>3, <3>1, <3>2 DEF BeginsFrom
  <2> QED BY <2>2, <2>3, <2>4
<1>15. bt # <<>> => Head(bt).top \in Int BY <1>3, RowsTail, RowFields
<1>16. NextTop(bt, pb) \in Int /\ (bt = <<>> => NextTop(bt, pb) = pb)
       /\ (bt # <<>> => NextTop(bt, pb) = Head(bt).top)
  BY <1>3, <1>8, NextTopFacts
<1>17. /\ t.top \in Int /\ pb <= t.top /\ IsRegion(t.b)
       /\ t.b # <<>> => Head(t.b).top <= t.top /\ t.top < Head(t.b).bottom
  <2>1. CASE Passed(s)
    <3>1. t.b = bt /\ t.top = NextTop(bt, pb) BY <1>5, <2>1
    <3>2. CASE bt = <<>> BY <3>1, <3>2, <1>3, <1>8, <1>16
    <3>3. CASE bt # <<>> BY <3>1, <3>3, <1>3, <1>4, <1>8, <1>14, <1>15, <1>16
    <3> QED BY <3>2, <3>3
  <2>2. CASE ~Passed(s)
    <3>1. t.b = s.b /\ t.top = pb BY <1>5, <2>2
    <3>2. pb < minus.bottom BY <1>4, <1>8, <1>9, <2>2
    <3>3. minus.top <= pb BY <1>0, <1>1, <1>4, <1>8
    <3> QED BY <1>0, <1>8, <3>1, <3>2, <3>3 DEF minus
  <2> QED BY <2>1, <2>2
<1>18. Before(t.before, t.rows) BY <1>5, <1>8, <1>12, <1>13, BeforeAt
<1>19. EndsBy(t.before, t.top)
  <2>1. \A y, z \in Int : EndsBy(t.before, y) /\ y <= z => EndsBy(t.before, z) BY <1>13, BeforeAt
  <2> QED BY <1>8, <1>13, <1>17, <2>1
<1>20. SubtractInOrder(t.before, t.rows, t.b, t.top)
  BY <1>5, <1>12, <1>13, <1>17, <1>18, <1>19 DEF SubtractInOrder
<1>21. ASSUME NEW x \in Int, NEW y \in Int
       PROVE  Kept(t.before, t.rows, t.b, t.top, x, y) <=> Kept(s.before, s.rows, s.b, s.top, x, y)
  <2>1. On(t.before, x, y) <=> \/ On(s.before, x, y) \/ (InRow(row, x, y) /\ y < line)
                               \/ InRow(part, x, y)
    BY <1>10, <1>13
  <2>2. InRow(part, x, y) <=> line <= y /\ y < pb /\ Has(row.spans, x) /\ ~Has(minus.spans, x)
    BY <1>6, <1>11 DEF InRow
  <2>3. On(t.rows, x, y) <=> On(rest, x, y) \/ (InRow(row, x, y) /\ minus.bottom <= y)
    BY <1>5, <1>12
  <2>4. On(s.rows, x, y) <=> InRow(row, x, y) \/ On(rest, x, y) BY <1>2
  <2>5. On(s.b, x, y) <=> InRow(minus, x, y) \/ On(bt, x, y) BY <1>3
  <2>6. InRow(row, x, y) <=> row.top <= y /\ y < row.bottom /\ Has(row.spans, x) BY DEF InRow
  <2>7. InRow(minus, x, y) <=> minus.top <= y /\ y < minus.bottom /\ Has(minus.spans, x)
    BY DEF InRow
  <2>8. On(rest, x, y) => row.bottom <= y BY <1>2, <1>4, OnSide
  <2>9. On(bt, x, y) => minus.bottom <= y BY <1>3, <1>4, OnSide
  <2>10. CASE y < pb
    <3>1. ~On(rest, x, y) /\ ~On(bt, x, y) BY <1>4, <1>8, <2>8, <2>9, <2>10
    <3>2. ~On(t.rows, x, y) BY <1>4, <1>8, <2>3, <2>10, <3>1
    <3>3. CASE y < line
      <4>1. ~InRow(part, x, y) BY <1>8, <2>2, <3>3
      <4>2. InRow(row, x, y) => ~(top <= y) BY <1>1, <1>4, <1>7, <2>6, <3>3
      <4> QED BY <2>1, <2>4, <3>1, <3>2, <3>3, <4>1, <4>2 DEF Kept, top
    <3>4. CASE line <= y
      <4>1. ~(InRow(row, x, y) /\ y < line) BY <1>8, <3>4
      <4>2. InRow(row, x, y) <=> Has(row.spans, x) BY <1>4, <1>8, <2>6, <2>10, <3>4
      <4>3. InRow(minus, x, y) <=> Has(minus.spans, x) BY <1>0, <1>1, <1>4, <1>8, <2>7, <2>10, <3>4
      <4>4. top <= y BY <1>1, <1>8, <3>4
      <4> QED BY <2>1, <2>2, <2>4, <2>5, <2>10, <3>1, <3>2, <3>4, <4>1, <4>2, <4>3, <4>4 DEF Kept, top
    <3> QED BY <1>8, <3>3, <3>4
  <2>11. CASE pb <= y
    <3>1. ~InRow(part, x, y) BY <1>8, <2>2, <2>11
    <3>2. ~(InRow(row, x, y) /\ y < line) BY <1>8, <2>11
    <3>3. On(t.rows, x, y) <=> On(s.rows, x, y) BY <1>4, <1>6, <2>3, <2>4, <2>6, <2>11
    <3>4. top <= y BY <1>1, <1>8, <2>11
    <3>5. On(t.b, x, y) /\ t.top <= y <=> On(s.b, x, y)
      <4>1. CASE Passed(s)
        <5>1. t.b = bt /\ t.top = NextTop(bt, pb) BY <1>5, <4>1
        <5>2. ~InRow(minus, x, y) BY <1>4, <1>8, <1>9, <2>7, <2>11, <4>1
        <5>3. On(bt, x, y) => NextTop(bt, pb) <= y
          <6> SUFFICES ASSUME On(bt, x, y) PROVE NextTop(bt, pb) <= y OBVIOUS
          <6>1. bt # <<>> BY NoRows
          <6>2. BeginsFrom(bt, NextTop(bt, pb)) BY <1>14, <1>16, <6>1
          <6> QED BY <1>3, <1>16, <6>2, OnSide
        <5> QED BY <2>5, <5>1, <5>2, <5>3
      <4>2. CASE ~Passed(s) BY <1>5, <2>11, <4>2
      <4> QED BY <4>1, <4>2
    <3> QED BY <2>1, <3>1, <3>2, <3>3, <3>4, <3>5 DEF Kept, top
  <2> QED BY <1>8, <2>10, <2>11
<1> QED BY <1>20, <1>21 DEF t

\* subtract leaves a region of the pixels that lie on the first and not on the second.
THEOREM SubtractExact ==
  ASSUME NEW a \in Rows, NEW b \in Rows, IsRegion(a), IsRegion(b)
  PROVE  /\ IsRegion(subtract(a, b))
         /\ \A x, y \in Int : On(subtract(a, b), x, y) <=> On(a, x, y) /\ ~On(b, x, y)
<1> DEFINE Inv(p, q, d, n) == /\ SubtractInOrder(p, q, d, n)
                              /\ \A x, y \in Int : Kept(p, q, d, n, x, y) <=> On(a, x, y) /\ ~On(b, x, y)
           I == {s \in SubtractWalk : Inv(s.before, s.rows, s.b, s.top)}
           P == {out \in Rows : /\ IsRegion(out)
                                /\ \A x, y \in Int : On(out, x, y) <=> On(a, x, y) /\ ~On(b, x, y)}
           y0 == Head(b).top
           s0 == [before |-> UpTo(a, y0), rows |-> From(a, y0), b |-> b, top |-> y0]
<1>1. CASE b = <<>>
  <2>1. subtract(a, b) = a BY <1>1 DEF subtract
  <2> QED BY <1>1, <2>1, NoRows
<1>2. CASE b # <<>>
  <2>1. Head(b) \in Row /\ IsRow(Head(b)) /\ BeginsFrom(b, y0) BY <1>2, RowsTail, BeforeAt
  <2>2. y0 \in Int /\ y0 < Head(b).bottom BY <2>1, RowFields
  <2>3. s0 \in I
    <3> DEFINE p == UpTo(a, y0)
               q == From(a, y0)
    <3>1. /\ p \in Rows /\ q \in Rows
          /\ IsRegion(p) /\ IsRegion(q) /\ Before(p, q) /\ EndsBy(p, y0)
          /\ \A x, y \in Int : On(a, x, y) <=> On(p, x, y) \/ On(q, x, y)
      BY <2>2, SplitFacts
    <3>2. s0 = [before |-> p, rows |-> q, b |-> b, top |-> y0] OBVIOUS
    <3>3. Head(b).top <= y0 BY <2>2
    <3> HIDE DEF p, q, y0
    <3>4. SubtractInOrder(p, q, b, y0) BY <2>2, <3>1, <3>3 DEF SubtractInOrder
    <3>5. ASSUME NEW x \in Int, NEW y \in Int PROVE Kept(p, q, b, y0, x, y) <=> On(a, x, y) /\ ~On(b, x, y)
      <4>1. On(p, x, y) => y < y0 BY <2>2, <3>1, OnSide
      <4>2. On(b, x, y) => y0 <= y BY <2>1, <2>2, OnSide
      <4>3. ~(On(p, x, y) /\ On(b, x, y)) BY <2>2, <4>1, <4>2
      <4> QED BY <3>1, <4>2, <4>3 DEF Kept
    <3>6. s0 \in SubtractWalk /\ s0.before = p /\ s0.rows = q /\ s0.b = b /\ s0.top = y0
      BY <2>2, <3>1, <3>2 DEF SubtractWalk
    <3> HIDE DEF s0
    <3> QED BY <3>4, <3>5, <3>6
  <2>4. ASSUME NEW s \in I, s.rows = <<>> \/ s.b = <<>> PROVE Joined(s.before, s.rows) \in P
    <3>1. s \in SubtractWalk /\ Inv(s.before, s.rows, s.b, s.top) OBVIOUS
    <3>2. s.before \in Rows /\ s.rows \in Rows /\ s.b \in Rows BY <3>1, SubtractWalkFields
    <3>3. IsRegion(s.before) /\ IsRegion(s.rows) /\ Before(s.before, s.rows)
      BY <3>1 DEF SubtractInOrder
    <3> DEFINE j == Joined(s.before, s.rows)
    <3>4. /\ j \in Rows /\ IsRegion(j)
          /\ \A x, y \in Int : On(j, x, y) <=> On(s.before, x, y) \/ On(s.rows, x, y)
      BY <3>2, <3>3, JoinedFacts
    <3>5. \A x, y \in Int : ~On(s.rows, x, y) \/ ~On(s.b, x, y) BY <2>4, NoRows
    <3>6. \A x, y \in Int : On(s.before, x, y) \/ On(s.rows, x, y) <=> On(a, x, y) /\ ~On(b, x, y)
      BY <3>1, <3>5 DEF Kept
    <3> HIDE DEF j
    <3>7. j \in P BY <3>4, <3>6
    <3> QED BY <3>7 DEF j
  <2>5. ASSUME NEW s \in I, s.rows # <<>>, s.b # <<>> PROVE SubtractRow(s) \in I
    <3>1. s \in SubtractWalk /\ Inv(s.before, s.rows, s.b, s.top) OBVIOUS
    <3>2. s.before \in Rows /\ s.rows \in Rows /\ s.b \in Rows /\ s.top \in Int
      BY <3>1, SubtractWalkFields
    <3>3. Head(s.rows) \in Row BY <2>5, <3>2, RowsTail
    <3>4. Head(s.rows).top \in Int BY <3>3, RowFields
    <3> DEFINE t == SubtractRow(s)
    <3>5. t \in SubtractWalk BY <2>5, <3>1, SubtractRowTurn
    <3>6. Inv(t.before, t.rows, t.b, t.top)
      <4> DEFINE k == Kept(t.before, t.rows, t.b, t.top, 0, 0)
      <4>1. CASE Head(s.rows).bottom <= s.top
        <5>1. t.before = Push(s.before, Head(s.rows)) /\ t.rows = Tail(s.rows) /\ t.b = s.b /\ t.top = s.top
          BY <2>5, <3>1, <4>1, SubtractRowTurn
        <5>2. Inv(Push(s.before, Head(s.rows)), Tail(s.rows), s.b, s.top)
          BY <2>5, <3>1, <3>2, <4>1, PassRow
        <5> HIDE DEF t, Inv
        <5> QED BY <5>1, <5>2
      <4>2. CASE ~(Head(s.rows).bottom <= s.top) /\ LineAt(s) >= Head(s.b).bottom /\ s.top < Head(s.rows).top
        <5>1. /\ t.before = s.before /\ t.rows = s.rows /\ t.b = Tail(s.b)
              /\ t.top = NextTop(Tail(s.b), LineAt(s))
          BY <2>5, <3>1, <4>2, SubtractRowTurn
        <5>2. LineAt(s) = Head(s.rows).top BY <3>2, <3>4, <4>2 DEF LineAt
        <5>3. LineAt(s) \in Int /\ s.top < LineAt(s) BY <3>4, <4>2, <5>2
        <5>4. Inv(s.before, s.rows, Tail(s.b), NextTop(Tail(s.b), LineAt(s)))
          BY <2>5, <3>1, <3>2, <4>2, <5>2, <5>3, SkipRow
        <5> HIDE DEF t, Inv
        <5> QED BY <5>1, <5>4
      <4>3. CASE ~(Head(s.rows).bottom <= s.top) /\ ~(LineAt(s) >= Head(s.b).bottom /\ s.top < Head(s.rows).top)
        <5>1. /\ SubtractInOrder(t.before, t.rows, t.b, t.top)
              /\ \A x, y \in Int : Kept(t.before, t.rows, t.b, t.top, x, y) <=>
                                     Kept(s.before, s.rows, s.b, s.top, x, y)
          BY <2>5, <3>1, <4>3, SubtractRowKeeps
        <5> HIDE DEF t
        <5> QED BY <3>1, <5>1
      <4> QED BY <4>1, <4>2, <4>3
    <3> HIDE DEF t, Inv
    <3>7. t \in I BY <3>5, <3>6
    <3> QED BY <3>7 DEF t
  <2>6. Subtracting[s0] \in P
    <3>1. I \in SUBSET SubtractWalk OBVIOUS
    <3> HIDE DEF I, P, s0
    <3> QED BY <2>3, <2>4, <2>5, <3>1, SubtractingInvariant, Zenon
  <2> QED BY <1>2, <2>6 DEF subtract
<1> QED BY <1>1, <1>2


-----------------------------------------------------------------------------
\* add_rects

OnRects(rects, x, y) == \E k \in 1 .. Len(rects) : InBox(rects[k], x, y)

\* add_rect makes rows of whatever rows.
LEMMA AddRectType ==
  ASSUME NEW a \in Rows, NEW rect \in Rects
  PROVE  add_rect(a, rect) \in Rows
<1> DEFINE s0 == [before |-> UpTo(a, rect.top), rows |-> From(a, rect.top), rect |-> rect]
<1>1. rect.top \in Int BY RectFields
<1>2. UpTo(a, rect.top) \in Rows /\ From(a, rect.top) \in Rows BY <1>1, SplitFacts
<1>3. s0 \in AddWalk BY <1>2 DEF AddWalk
<1>4. \A s \in AddWalk : Joined(s.before, s.rows) \in Rows BY AddWalkFields, JoinedFacts
<1>5. \A s \in AddWalk : AddToRow(s) \in AddWalk BY AddToRowTurn
<1>6. AddWalk \in SUBSET AddWalk OBVIOUS
<1>7. \A s \in AddWalk : Adding[s] \in Rows
  <2>1. \A s \in AddWalk : s.rect.top >= s.rect.bottom => Joined(s.before, s.rows) \in Rows
    BY <1>4
  <2>2. \A s \in AddWalk : s.rect.top < s.rect.bottom => AddToRow(s) \in AddWalk BY <1>5
  <2> QED BY <1>6, <2>1, <2>2, AddingInvariant, Zenon
<1>8. Adding[s0] \in Rows BY <1>3, <1>7
<1> QED BY <1>8 DEF add_rect

\* The first rectangle and the others.
LEMMA RectsTail ==
  ASSUME NEW rects \in Seq(Rects), rects # <<>>
  PROVE  /\ Head(rects) \in Rects /\ Tail(rects) \in Seq(Rects)
         /\ Len(rects) \in Nat /\ Len(Tail(rects)) = Len(rects) - 1
         /\ \A x, y \in Int : OnRects(rects, x, y) <=> InBox(Head(rects), x, y)
                                                       \/ OnRects(Tail(rects), x, y)
<1>1. /\ Len(rects) \in Nat \ {0} /\ Head(rects) = rects[1] /\ Head(rects) \in Rects
      /\ Tail(rects) \in Seq(Rects) /\ Len(Tail(rects)) = Len(rects) - 1
      /\ \A k \in 1 .. Len(rects) - 1 : Tail(rects)[k] = rects[k + 1]
  BY TailFacts
<1> DEFINE n == Len(rects)
           t == Tail(rects)
<1> HIDE DEF n, t
<1>2. ASSUME NEW x \in Int, NEW y \in Int
      PROVE  OnRects(rects, x, y) <=> InBox(Head(rects), x, y) \/ OnRects(t, x, y)
  <2>1. ASSUME OnRects(rects, x, y) PROVE InBox(Head(rects), x, y) \/ OnRects(t, x, y)
    <3>1. PICK k \in 1 .. n : InBox(rects[k], x, y) BY <2>1 DEF OnRects, n
    <3>2. CASE k = 1 BY <1>1, <3>1, <3>2
    <3>3. CASE k # 1
      <4>1. k - 1 \in 1 .. n - 1 /\ (k - 1) + 1 = k BY <3>3, <1>1 DEF n
      <4>2. t[k - 1] = rects[k] /\ k - 1 \in 1 .. Len(t) BY <4>1, <1>1 DEF n, t
      <4> QED BY <3>1, <4>2 DEF OnRects
    <3> QED BY <3>2, <3>3
  <2>2. ASSUME InBox(Head(rects), x, y) PROVE OnRects(rects, x, y)
    <3>1. 1 \in 1 .. Len(rects) BY <1>1
    <3> QED BY <1>1, <2>2, <3>1 DEF OnRects
  <2>3. ASSUME OnRects(t, x, y) PROVE OnRects(rects, x, y)
    <3>1. PICK k \in 1 .. n - 1 : InBox(t[k], x, y) BY <1>1, <2>3 DEF OnRects, n, t
    <3>2. k + 1 \in 1 .. n /\ t[k] = rects[k + 1] BY <1>1 DEF n, t
    <3> QED BY <3>1, <3>2 DEF OnRects, n
  <2> QED BY <2>1, <2>2, <2>3
<1> QED BY <1>1, <1>2 DEF t

\* The fields of a walk, and the next one.
LEMMA RectsWalkFields ==
  ASSUME NEW s \in RectsWalk
  PROVE  /\ s.rows \in Rows /\ s.rects \in Seq(Rects) /\ Len(s.rects) \in Nat
         /\ s.rects # <<>> =>
              LET t == [rows |-> add_rect(s.rows, Head(s.rects)), rects |-> Tail(s.rects)] IN
              /\ t \in RectsWalk /\ t.rows = add_rect(s.rows, Head(s.rects))
              /\ t.rects = Tail(s.rects) /\ Len(t.rects) < Len(s.rects)
<1>1. s.rows \in Rows /\ s.rects \in Seq(Rects) BY DEF RectsWalk
<1>2. Len(s.rects) \in Nat BY <1>1
<1>3. ASSUME s.rects # <<>>
      PROVE LET t == [rows |-> add_rect(s.rows, Head(s.rects)), rects |-> Tail(s.rects)] IN
              /\ t \in RectsWalk /\ t.rows = add_rect(s.rows, Head(s.rects))
              /\ t.rects = Tail(s.rects) /\ Len(t.rects) < Len(s.rects)
  <2> DEFINE h == Head(s.rects)
             u == Tail(s.rects)
             a == add_rect(s.rows, h)
             t == [rows |-> a, rects |-> u]
  <2>1. h \in Rects /\ u \in Seq(Rects) /\ Len(u) = Len(s.rects) - 1 BY <1>1, <1>3, RectsTail
  <2>2. a \in Rows BY <1>1, <2>1, AddRectType
  <2> HIDE DEF h, u, a
  <2>3. t \in RectsWalk /\ t.rows = a /\ t.rects = u BY <2>1, <2>2 DEF RectsWalk
  <2>4. Len(u) < Len(s.rects) BY <1>2, <2>1
  <2> QED BY <2>3, <2>4 DEF h, u, a
<1> QED BY <1>1, <1>2, <1>3

\* The loop unfolds.
LEMMA AddingRectsLoop ==
  IsLoop(AddingRects, RectsWalk, {s \in RectsWalk : s.rects = <<>>},
         [s \in RectsWalk |-> s.rows],
         [s \in RectsWalk |-> IF s.rects = <<>> THEN s
                              ELSE [rows |-> add_rect(s.rows, Head(s.rects)), rects |-> Tail(s.rects)]])
<1> DEFINE D == {s \in RectsWalk : s.rects = <<>>}
           R == [s \in RectsWalk |-> s.rows]
           F == [s \in RectsWalk |-> IF s.rects = <<>> THEN s
                    ELSE [rows |-> add_rect(s.rows, Head(s.rects)), rects |-> Tail(s.rects)]]
           Turn(r) == [s \in RectsWalk |-> IF s.rects = <<>> THEN s.rows
                         ELSE r[[rows |-> add_rect(s.rows, Head(s.rects)), rects |-> Tail(s.rects)]]]
<1>1. F \in [RectsWalk -> RectsWalk] BY RectsWalkFields
<1>2. \A r : IsLoop(r, RectsWalk, D, R, F) <=> r = Turn(r) BY DEF IsLoop
<1>3. \E r : IsLoop(r, RectsWalk, D, R, F)
  <2> HIDE DEF D, R, F
  <2> QED BY <1>1, LoopExists, Zenon
<1>4. AddingRects = Turn(AddingRects)
  <2>1. \E r : r = Turn(r) BY <1>2, <1>3, Zenon
  <2> QED BY <2>1, Zenon DEF AddingRects, RectsWalk
<1> QED BY <1>2, <1>4, Zenon

\* add_rects adds the pixels of all the rectangles.
THEOREM AddRectsExact ==
  ASSUME NEW a \in Rows, IsRegion(a), NEW rects \in Seq(Rects)
  PROVE  /\ IsRegion(add_rects(a, rects))
         /\ \A x, y \in Int : On(add_rects(a, rects), x, y) <=> On(a, x, y) \/ OnRects(rects, x, y)
<1> DEFINE D == {s \in RectsWalk : s.rects = <<>>}
           R == [s \in RectsWalk |-> s.rows]
           F == [s \in RectsWalk |-> IF s.rects = <<>> THEN s
                    ELSE [rows |-> add_rect(s.rows, Head(s.rects)), rects |-> Tail(s.rects)]]
           m == [s \in RectsWalk |-> Len(s.rects)]
           Inv(p, q) == /\ IsRegion(p)
                        /\ \A x, y \in Int : On(p, x, y) \/ OnRects(q, x, y) <=>
                                               On(a, x, y) \/ OnRects(rects, x, y)
           I == {s \in RectsWalk : Inv(s.rows, s.rects)}
           P == {out \in Rows : /\ IsRegion(out)
                                /\ \A x, y \in Int : On(out, x, y) <=> On(a, x, y) \/ OnRects(rects, x, y)}
           s0 == [rows |-> a, rects |-> rects]
<1>1. s0 \in I
  <2>1. s0 \in RectsWalk /\ s0.rows = a /\ s0.rects = rects BY DEF RectsWalk
  <2> HIDE DEF s0
  <2> QED BY <2>1
<1>2. ASSUME NEW s \in I, s.rects = <<>> PROVE s.rows \in P
  <2>1. \A x, y \in Int : ~OnRects(s.rects, x, y) BY <1>2 DEF OnRects
  <2>2. Inv(s.rows, s.rects) /\ s.rows \in Rows BY RectsWalkFields
  <2> QED BY <2>1, <2>2
<1>3. ASSUME NEW s \in I, s.rects # <<>> PROVE F[s] \in I /\ m[F[s]] < m[s]
  <2> DEFINE h == Head(s.rects)
             u == Tail(s.rects)
             b == add_rect(s.rows, h)
             t == [rows |-> b, rects |-> u]
  <2>1. s \in RectsWalk /\ Inv(s.rows, s.rects) OBVIOUS
  <2>2. s.rows \in Rows /\ s.rects \in Seq(Rects) BY <2>1, RectsWalkFields
  <2>3. t \in RectsWalk /\ t.rows = b /\ t.rects = u /\ Len(t.rects) < Len(s.rects)
    BY <1>3, <2>1, RectsWalkFields
  <2>4. h \in Rects /\ \A x, y \in Int : OnRects(s.rects, x, y) <=> InBox(h, x, y) \/ OnRects(u, x, y)
    BY <1>3, <2>2, RectsTail
  <2>5. IsRegion(b) /\ \A x, y \in Int : On(b, x, y) <=> On(s.rows, x, y) \/ InBox(h, x, y)
    BY <2>1, <2>2, <2>4, AddRectExact
  <2>6. F[s] = t BY <1>3, <2>1
  <2> HIDE DEF h, u, b, F, t
  <2>7. Inv(b, u) BY <2>1, <2>4, <2>5
  <2>8. t \in I BY <2>3, <2>7
  <2>9. m[t] < m[s] BY <2>1, <2>3
  <2> QED BY <2>6, <2>8, <2>9
<1>4. Keeps(RectsWalk, D, R, F, I, m, P)
  <2>1. m \in [RectsWalk -> Nat] BY RectsWalkFields
  <2>2. \A s \in I : s \in D => R[s] \in P BY <1>2
  <2>3. \A s \in I : s \notin D => F[s] \in I /\ m[F[s]] < m[s]
    <3> SUFFICES ASSUME NEW s \in I, s \notin D PROVE F[s] \in I /\ m[F[s]] < m[s] OBVIOUS
    <3>1. s.rects # <<>> OBVIOUS
    <3> HIDE DEF I, D, F, m
    <3> QED BY <1>3, <3>1
  <2>4. I \in SUBSET RectsWalk OBVIOUS
  <2> HIDE DEF D, R, F, m, I, P
  <2> QED BY <2>1, <2>2, <2>3, <2>4 DEF Keeps
<1>5. AddingRects[s0] \in P
  <2>1. IsLoop(AddingRects, RectsWalk, D, R, F) BY AddingRectsLoop
  <2> HIDE DEF D, R, F, m, I, P, s0
  <2> QED BY <1>1, <1>4, <2>1, LoopInvariant, Zenon
<1> QED BY <1>5 DEF add_rects

-----------------------------------------------------------------------------
\* translate

\* Two numbers moved alike keep their order.
LEMMA Moved ==
  ASSUME NEW d \in Int
  PROVE  /\ \A p, q \in Int : p < q <=> p + d < q + d
         /\ \A p, q \in Int : p <= q <=> p + d <= q + d
         /\ \A p, q \in Int : (p + d <= q <=> p <= q - d) /\ (q < p + d <=> q - d < p)
         /\ \A p \in Int : p + d \in Int /\ p - d \in Int
OBVIOUS

\* translate moves every pixel.
THEOREM TranslateExact ==
  ASSUME NEW a \in Rows, IsRegion(a), NEW dx \in Int, NEW dy \in Int
  PROVE  /\ IsRegion(translate(a, dx, dy))
         /\ \A x, y \in Int : On(translate(a, dx, dy), x, y) <=> On(a, x - dx, y - dy)
<1> DEFINE t == translate(a, dx, dy)
           spans(i) == [k \in DOMAIN a[i].spans |->
                          [left |-> a[i].spans[k].left + dx, right |-> a[i].spans[k].right + dx]]
<1>1. /\ Len(a) \in Nat /\ DOMAIN a = 1 .. Len(a)
      /\ \A i \in 1 .. Len(a) : /\ a[i] \in Row /\ a[i].top \in Int /\ a[i].bottom \in Int
                                /\ a[i].spans \in Spans
  BY RowsType
<1>2. /\ \A i \in 1 .. Len(a) : /\ IsRow(a[i]) /\ a[i].top < a[i].bottom
                                /\ a[i].spans # <<>> /\ InOrder(a[i].spans)
      /\ \A i, j \in 1 .. Len(a) : i < j => a[i].bottom <= a[j].top
  BY RegionRows
<1>3. ASSUME NEW i \in 1 .. Len(a)
      PROVE  /\ spans(i) \in Spans /\ spans(i) # <<>> /\ InOrder(spans(i))
             /\ \A x \in Int : Has(spans(i), x) <=> Has(a[i].spans, x - dx)
  <2> DEFINE old == a[i].spans
             n == Len(old)
             new == spans(i)
  <2>1. /\ n \in Nat /\ DOMAIN old = 1 .. n
        /\ \A k \in 1 .. n : old[k].left \in Int /\ old[k].right \in Int
    BY <1>1, SpansType
  <2>2. n # 0 BY <1>1, <1>2 DEF Spans
  <2>3. /\ \A k \in 1 .. n : old[k].left < old[k].right
        /\ \A j, k \in 1 .. n : j < k => old[j].right < old[k].left
    BY <1>2, <2>1 DEF InOrder
  <2> HIDE DEF n
  <2>4. new = [k \in 1 .. n |-> [left |-> old[k].left + dx, right |-> old[k].right + dx]]
    BY <2>1
  <2> HIDE DEF new, old
  <2>5. \A k \in 1 .. n : [left |-> old[k].left + dx, right |-> old[k].right + dx] \in Span
    BY <2>1 DEF Span
  <2>6. new \in Spans /\ Len(new) = n BY <2>1, <2>4, <2>5 DEF Spans
  <2>7. DOMAIN new = 1 .. n /\ new # <<>> BY <2>1, <2>2, <2>4, <2>6
  <2>8. \A k \in 1 .. n : new[k].left = old[k].left + dx /\ new[k].right = old[k].right + dx
    BY <2>4
  <2>9. InOrder(new)
    <3>1. ASSUME NEW k \in 1 .. n PROVE new[k].left < new[k].right
      <4>1. old[k].left \in Int /\ old[k].right \in Int /\ old[k].left < old[k].right
        BY <2>1, <2>3
      <4> QED BY <2>8, <4>1, Moved
    <3>2. ASSUME NEW j \in 1 .. n, NEW k \in 1 .. n, j < k PROVE new[j].right < new[k].left
      <4>1. old[j].right \in Int /\ old[k].left \in Int /\ old[j].right < old[k].left
        BY <2>1, <2>3, <3>2
      <4> QED BY <2>8, <4>1, Moved
    <3> QED BY <2>7, <3>1, <3>2 DEF InOrder
  <2>10. \A x \in Int : Has(new, x) <=> Has(old, x - dx)
    <3>1. \A x \in Int : \A k \in 1 .. n :
            new[k].left <= x /\ x < new[k].right <=> old[k].left <= x - dx /\ x - dx < old[k].right
      <4> TAKE x \in Int
      <4> TAKE k \in 1 .. n
      <4> DEFINE l == old[k].left
                 r == old[k].right
      <4>1. l \in Int /\ r \in Int /\ new[k].left = l + dx /\ new[k].right = r + dx BY <2>1, <2>8
      <4> HIDE DEF l, r
      <4>2. l + dx <= x /\ x < r + dx <=> l <= x - dx /\ x - dx < r BY <4>1
      <4> QED BY <4>1, <4>2 DEF l, r
    <3> QED BY <2>6, <3>1 DEF Has, n
  <2> QED BY <2>6, <2>7, <2>9, <2>10 DEF new, old
<1>4. /\ DOMAIN t = 1 .. Len(a)
      /\ \A i \in 1 .. Len(a) : t[i] = [top |-> a[i].top + dy, bottom |-> a[i].bottom + dy,
                                        spans |-> spans(i)]
  BY <1>1 DEF translate
<1>5. \A i \in 1 .. Len(a) : /\ t[i] \in Row /\ t[i].top = a[i].top + dy
                             /\ t[i].bottom = a[i].bottom + dy /\ t[i].spans = spans(i)
  <2> TAKE i \in 1 .. Len(a)
  <2> DEFINE p == a[i].top + dy
             q == a[i].bottom + dy
             z == spans(i)
  <2>1. p \in Int /\ q \in Int BY <1>1
  <2>2. z \in Spans BY <1>3
  <2>3. t[i] = [top |-> p, bottom |-> q, spans |-> z] BY <1>4
  <2> HIDE DEF p, q, z, t
  <2>4. t[i] \in Row /\ t[i].top = p /\ t[i].bottom = q /\ t[i].spans = z
    BY <2>1, <2>2, <2>3, RowOf
  <2> QED BY <2>4 DEF p, q, z
<1>6. t \in Rows /\ Len(t) = Len(a)
  <2>1. t = [i \in 1 .. Len(a) |-> t[i]] BY <1>1 DEF translate
  <2> HIDE DEF t
  <2>2. t \in [1 .. Len(a) -> Row] BY <1>5, <2>1
  <2> QED BY <1>1, <2>2 DEF Rows
<1> HIDE DEF t, spans
<1>7. \A i \in 1 .. Len(a) : IsRow(t[i])
  <2> TAKE i \in 1 .. Len(a)
  <2>1. t[i].top < t[i].bottom BY <1>1, <1>2, <1>5, Moved
  <2>2. t[i].spans # <<>> /\ InOrder(t[i].spans) BY <1>3, <1>5
  <2> QED BY <2>1, <2>2 DEF IsRow
<1>8. \A i, j \in 1 .. Len(a) : i < j => t[i].bottom <= t[j].top BY <1>1, <1>2, <1>5, Moved
<1>9. IsRegion(t) BY <1>4, <1>6, <1>7, <1>8 DEF IsRegion
<1>10. \A i \in 1 .. Len(a), x, y \in Int : InRow(t[i], x, y) <=> InRow(a[i], x - dx, y - dy)
  <2> TAKE i \in 1 .. Len(a), x, y \in Int
  <2> DEFINE p == a[i].top
             q == t[i].top
  <2>0. p \in Int /\ q = p + dy BY <1>1, <1>5
  <2> HIDE DEF p, q
  <2>1. q <= y <=> p <= y - dy BY <2>0
  <2>2. y < t[i].bottom <=> y - dy < a[i].bottom BY <1>1, <1>5, Moved
  <2>3. Has(t[i].spans, x) <=> Has(a[i].spans, x - dx) BY <1>3, <1>5
  <2> QED BY <2>1, <2>2, <2>3 DEF InRow, p, q
<1>11. \A x, y \in Int : On(t, x, y) <=> On(a, x - dx, y - dy) BY <1>6, <1>10 DEF On
<1> QED BY <1>9, <1>11 DEF t

-----------------------------------------------------------------------------
\* The pixels of a region as a set of pairs.

\* Area is where the rows lie.
LEMMA AreaOn ==
  ASSUME NEW a \in Rows
  PROVE  /\ Area(a) \subseteq Int \X Int
         /\ \A x, y \in Int : <<x, y>> \in Area(a) <=> On(a, x, y)
<1> DEFINE Box(span, row) == (span.left .. span.right - 1) \X (row.top .. row.bottom - 1)
<1>1. /\ Len(a) \in Nat /\ DOMAIN a = 1 .. Len(a)
      /\ \A i \in 1 .. Len(a) : /\ a[i] \in Row /\ a[i].top \in Int /\ a[i].bottom \in Int
                                /\ a[i].spans \in Spans
  BY RowsType
<1>2. \A i \in 1 .. Len(a) : /\ DOMAIN a[i].spans = 1 .. Len(a[i].spans)
                             /\ \A k \in 1 .. Len(a[i].spans) : /\ a[i].spans[k].left \in Int
                                                                /\ a[i].spans[k].right \in Int
  BY <1>1, SpansType
<1>3. \A c : c \in Area(a) <=> \E i \in 1 .. Len(a) : \E k \in 1 .. Len(a[i].spans) :
                                 c \in Box(a[i].spans[k], a[i])
  <2>1. \A c : c \in Area(a) <=> \E i \in DOMAIN a : \E k \in DOMAIN a[i].spans :
                                   c \in Box(a[i].spans[k], a[i])
    <3>1. Area(a) = UNION {UNION {Box(span, row) : span \in Range(row.spans)} : row \in Range(a)}
      BY DEF Area
    <3>2. \A f, v : v \in Range(f) <=> \E i \in DOMAIN f : v = f[i] BY DEF Range
    <3> HIDE DEF Box
    <3>3. \A c : c \in Area(a) <=> \E row \in Range(a) : \E span \in Range(row.spans) : c \in Box(span, row)
      BY <3>1
    <3> QED BY <3>2, <3>3
  <2> QED BY <1>1, <1>2, <2>1
<1>4. \A i \in 1 .. Len(a) : \A k \in 1 .. Len(a[i].spans) :
        /\ Box(a[i].spans[k], a[i]) \subseteq Int \X Int
        /\ \A x, y \in Int : <<x, y>> \in Box(a[i].spans[k], a[i]) <=>
             /\ a[i].spans[k].left <= x /\ x < a[i].spans[k].right
             /\ a[i].top <= y /\ y < a[i].bottom
  <2> TAKE i \in 1 .. Len(a)
  <2> TAKE k \in 1 .. Len(a[i].spans)
  <2> DEFINE l == a[i].spans[k].left
             r == a[i].spans[k].right
             u == a[i].top
             b == a[i].bottom
  <2>1. l \in Int /\ r \in Int /\ u \in Int /\ b \in Int BY <1>1, <1>2
  <2>2. Box(a[i].spans[k], a[i]) = (l .. r - 1) \X (u .. b - 1) OBVIOUS
  <2> HIDE DEF l, r, u, b
  <2>3. (l .. r - 1) \X (u .. b - 1) \subseteq Int \X Int OBVIOUS
  <2>4. \A x, y \in Int : <<x, y>> \in (l .. r - 1) \X (u .. b - 1) <=>
                            l <= x /\ x < r /\ u <= y /\ y < b
    BY <2>1
  <2> QED BY <2>2, <2>3, <2>4 DEF l, r, u, b
<1> HIDE DEF Box
<1>5. Area(a) \subseteq Int \X Int BY <1>3, <1>4
<1>6. \A x, y \in Int : <<x, y>> \in Area(a) <=> On(a, x, y) BY <1>3, <1>4 DEF On, InRow, Has
<1> QED BY <1>5, <1>6

\* The pixels of a rectangle.
LEMMA CellsOn ==
  ASSUME NEW rect \in Rects
  PROVE  /\ CellsOf(rect) \subseteq Int \X Int
         /\ \A x, y \in Int : /\ <<x, y>> \in CellsOf(rect) <=> InBox(rect, x, y)
                              /\ InRect(rect, <<x, y>>) <=> InBox(rect, x, y)
<1> DEFINE l == rect.left
           r == rect.right
           u == rect.top
           b == rect.bottom
<1>1. l \in Int /\ r \in Int /\ u \in Int /\ b \in Int BY RectFields
<1>2. CellsOf(rect) = (l .. r - 1) \X (u .. b - 1) BY DEF CellsOf
<1>3. \A x, y \in Int : InBox(rect, x, y) <=> l <= x /\ x < r /\ u <= y /\ y < b BY DEF InBox
<1>4. \A x, y \in Int : InRect(rect, <<x, y>>) <=> x \in l .. r - 1 /\ y \in u .. b - 1 BY DEF InRect
<1> HIDE DEF l, r, u, b
<1>5. (l .. r - 1) \X (u .. b - 1) \subseteq Int \X Int OBVIOUS
<1>6. \A x, y \in Int : <<x, y>> \in (l .. r - 1) \X (u .. b - 1) <=> l <= x /\ x < r /\ u <= y /\ y < b
  BY <1>1
<1> QED BY <1>1, <1>2, <1>3, <1>4, <1>5, <1>6

\* Two sets of pixels are the same when they have the same ones.
LEMMA SamePixels ==
  ASSUME NEW A \in SUBSET (Int \X Int), NEW B \in SUBSET (Int \X Int),
         \A x, y \in Int : <<x, y>> \in A <=> <<x, y>> \in B
  PROVE  A = B
<1>1. \A c \in Int \X Int : c = <<c[1], c[2]>> /\ c[1] \in Int /\ c[2] \in Int OBVIOUS
<1> QED BY <1>1

-----------------------------------------------------------------------------
\* A loop with two measures: m may grow when M becomes less.

KeepsPair(S, D, R, F, I, M, m, P) ==
  /\ I \in SUBSET S /\ M \in [S -> Nat] /\ m \in [S -> Nat]
  /\ \A s \in I : s \in D => R[s] \in P
  /\ \A s \in I : s \notin D => F[s] \in I
  /\ \A s \in I : s \notin D => M[F[s]] < M[s] \/ (M[F[s]] = M[s] /\ m[F[s]] < m[s])

\* The invariant rule with two measures.
LEMMA LoopInvariantPair ==
  ASSUME NEW S, NEW D, NEW R, NEW F, NEW r, IsLoop(r, S, D, R, F),
         NEW I, NEW M, NEW m, NEW P, KeepsPair(S, D, R, F, I, M, m, P)
  PROVE  \A s \in I : r[s] \in P
<1> USE DEF KeepsPair
<1> DEFINE Bad == {s \in I : r[s] \notin P}
           High == {n \in Nat : \E s \in Bad : M[s] = n}
<1> SUFFICES ASSUME Bad # {} PROVE FALSE OBVIOUS
<1>1. PICK n \in High : \A k \in High : n <= k
  <2>1. High \in SUBSET Nat OBVIOUS
  <2>2. High # {}
    <3>1. \A s \in I : M[s] \in Nat OBVIOUS
    <3> QED BY <3>1
  <2> HIDE DEF High
  <2> QED BY <2>1, <2>2, LeastNat
<1> DEFINE Low == {k \in Nat : \E s \in Bad : M[s] = n /\ m[s] = k}
<1>2. PICK l \in Low : \A k \in Low : l <= k
  <2>1. Low \in SUBSET Nat OBVIOUS
  <2>2. Low # {}
    <3>1. \A s \in I : m[s] \in Nat OBVIOUS
    <3> QED BY <1>1, <3>1
  <2> HIDE DEF Low
  <2> QED BY <2>1, <2>2, LeastNat
<1>3. PICK s \in Bad : M[s] = n /\ m[s] = l BY <1>2
<1>4. s \in I /\ s \in S /\ r[s] \notin P BY <1>3
<1>5. r[s] = IF s \in D THEN R[s] ELSE r[F[s]] BY <1>4 DEF IsLoop
<1>6. s \notin D BY <1>4, <1>5
<1>7. F[s] \in I /\ r[F[s]] \notin P BY <1>4, <1>5, <1>6
<1>8. M[F[s]] \in Nat /\ m[F[s]] \in Nat /\ n \in Nat /\ l \in Nat BY <1>1, <1>2, <1>7
<1>9. M[F[s]] < n \/ (M[F[s]] = n /\ m[F[s]] < l) BY <1>3, <1>4, <1>6
<1>10. F[s] \in Bad BY <1>7
<1>11. M[F[s]] \in High BY <1>8, <1>10
<1>12. ~(M[F[s]] < n)
  <2>1. n <= M[F[s]] BY <1>1, <1>11
  <2> QED BY <1>8, <2>1
<1>13. m[F[s]] \in Low BY <1>8, <1>9, <1>10, <1>12
<1>14. l <= m[F[s]] BY <1>2, <1>13
<1> QED BY <1>8, <1>9, <1>12, <1>14

-----------------------------------------------------------------------------
\* iterator: the rectangles of a region, told from its pixels alone.

\* On line y the pixels from l to before r, and neither of their neighbours.
RunAt(a, l, r, y) == /\ \A x \in Int : l <= x /\ x < r => On(a, x, y)
                     /\ ~On(a, l - 1, y) /\ ~On(a, r, y)
\* The lines of the rectangle are those on which its run is one, as far up and down as
\* there are any.
Tile(a, R) == /\ R.left < R.right /\ R.top < R.bottom
              /\ \A y \in Int : R.top <= y /\ y < R.bottom => RunAt(a, R.left, R.right, y)
              /\ ~RunAt(a, R.left, R.right, R.top - 1)
              /\ ~RunAt(a, R.left, R.right, R.bottom)

\* Two runs of a line with a pixel in common are the same.
LEMMA SameRun ==
  ASSUME NEW a \in Rows, NEW l \in Int, NEW r \in Int, NEW p \in Int, NEW q \in Int,
         NEW x \in Int, NEW y \in Int, l <= x, x < r, p <= x, x < q,
         RunAt(a, l, r, y), RunAt(a, p, q, y)
  PROVE  l = p /\ r = q
<1>1. ~(l < p)
  <2>1. l < p => l <= p - 1 /\ p - 1 < r OBVIOUS
  <2> QED BY <2>1 DEF RunAt
<1>2. ~(p < l)
  <2>1. p < l => p <= l - 1 /\ l - 1 < q OBVIOUS
  <2> QED BY <2>1 DEF RunAt
<1>3. ~(r < q)
  <2>1. r < q => p <= r /\ r < q OBVIOUS
  <2> QED BY <2>1 DEF RunAt
<1>4. ~(q < r)
  <2>1. q < r => l <= q /\ q < r OBVIOUS
  <2> QED BY <2>1 DEF RunAt
<1> QED BY <1>1, <1>2, <1>3, <1>4

\* Two tiles with a pixel in common are the same.
LEMMA SameTile ==
  ASSUME NEW a \in Rows, NEW R \in Rects, NEW T \in Rects, Tile(a, R), Tile(a, T),
         NEW x \in Int, NEW y \in Int, InBox(R, x, y), InBox(T, x, y)
  PROVE  R = T
<1> DEFINE l == R.left
           r == R.right
           u == R.top
           b == R.bottom
           p == T.left
           q == T.right
           v == T.top
           c == T.bottom
<1>1. /\ l \in Int /\ r \in Int /\ u \in Int /\ b \in Int
      /\ p \in Int /\ q \in Int /\ v \in Int /\ c \in Int
  BY RectFields
<1>2. /\ l <= x /\ x < r /\ u <= y /\ y < b
      /\ p <= x /\ x < q /\ v <= y /\ y < c
  BY DEF InBox
<1>3. /\ \A z \in Int : u <= z /\ z < b => RunAt(a, l, r, z)
      /\ ~RunAt(a, l, r, u - 1) /\ ~RunAt(a, l, r, b)
  BY DEF Tile
<1>4. /\ \A z \in Int : v <= z /\ z < c => RunAt(a, p, q, z)
      /\ ~RunAt(a, p, q, v - 1) /\ ~RunAt(a, p, q, c)
  BY DEF Tile
<1>5. R = make_ltrb(l, u, r, b) /\ T = make_ltrb(p, v, q, c) BY DEF Rects, make_ltrb
<1> HIDE DEF l, r, u, b, p, q, v, c
<1>6. l = p /\ r = q BY <1>1, <1>2, <1>3, <1>4, SameRun
<1>7. ~(u < v)
  <2>1. u < v => v - 1 \in Int /\ u <= v - 1 /\ v - 1 < b BY <1>1, <1>2
  <2> QED BY <1>3, <1>4, <1>6, <2>1
<1>8. ~(v < u)
  <2>1. v < u => u - 1 \in Int /\ v <= u - 1 /\ u - 1 < c BY <1>1, <1>2
  <2> QED BY <1>3, <1>4, <1>6, <2>1
<1>9. ~(b < c)
  <2>1. b < c => v <= b /\ b < c BY <1>1, <1>2
  <2> QED BY <1>1, <1>3, <1>4, <1>6, <2>1
<1>10. ~(c < b)
  <2>1. c < b => u <= c /\ c < b BY <1>1, <1>2
  <2> QED BY <1>1, <1>3, <1>4, <1>6, <2>1
<1>11. u = v /\ b = c BY <1>1, <1>7, <1>8, <1>9, <1>10
<1> QED BY <1>5, <1>6, <1>11

\* The line lies in the row.
InLines(row, y) == row.top <= y /\ y < row.bottom

\* A line lies in one row of a region at most.
LEMMA OneRowAt ==
  ASSUME NEW a \in Rows, IsRegion(a), NEW i \in 1 .. Len(a), NEW j \in 1 .. Len(a), NEW y \in Int,
         InLines(a[i], y), InLines(a[j], y)
  PROVE  i = j
<1>1. /\ a[i].top \in Int /\ a[i].bottom \in Int /\ a[j].top \in Int /\ a[j].bottom \in Int
      /\ Len(a) \in Nat
  BY RowsType
<1>2. (i < j => a[i].bottom <= a[j].top) /\ (j < i => a[j].bottom <= a[i].top) BY RegionRows
<1>3. /\ a[i].top <= y /\ y < a[i].bottom /\ a[j].top <= y /\ y < a[j].bottom BY DEF InLines
<1>4. ~(i < j) BY <1>1, <1>2, <1>3
<1>5. ~(j < i) BY <1>1, <1>2, <1>3
<1> QED BY <1>1, <1>4, <1>5

\* On a line of a row lies what the row has.
LEMMA OnRowAt ==
  ASSUME NEW a \in Rows, IsRegion(a), NEW i \in 1 .. Len(a), NEW y \in Int, InLines(a[i], y)
  PROVE  \A x \in Int : On(a, x, y) <=> Has(a[i].spans, x)
<1> TAKE x \in Int
<1>1. ASSUME On(a, x, y) PROVE Has(a[i].spans, x)
  <2>1. PICK j \in 1 .. Len(a) : InRow(a[j], x, y) BY <1>1 DEF On
  <2>2. InLines(a[j], y) BY <2>1 DEF InRow, InLines
  <2>3. i = j BY <2>2, OneRowAt
  <2> QED BY <2>1, <2>3 DEF InRow
<1>2. ASSUME Has(a[i].spans, x) PROVE On(a, x, y)
  BY <1>2 DEF On, InRow, InLines
<1> QED BY <1>1, <1>2

\* The spans of a row are the runs of its lines.
LEMMA RunIsSpan ==
  ASSUME NEW a \in Rows, IsRegion(a), NEW l \in Int, NEW r \in Int, NEW y \in Int, l < r
  PROVE  RunAt(a, l, r, y) <=>
           \E i \in 1 .. Len(a) : InLines(a[i], y) /\ \E k \in 1 .. Len(a[i].spans) :
                                    a[i].spans[k] = [left |-> l, right |-> r]
<1>1. ASSUME NEW i \in 1 .. Len(a), InLines(a[i], y), NEW k \in 1 .. Len(a[i].spans),
             a[i].spans[k] = [left |-> l, right |-> r]
      PROVE  RunAt(a, l, r, y)
  <2> DEFINE s == a[i].spans
  <2>1. s \in Spans /\ InOrder(s) BY RegionRows, RowsType
  <2>2. \A x \in Int : On(a, x, y) <=> Has(s, x) BY <1>1, OnRowAt
  <2>3. s[k].left = l /\ s[k].right = r BY <1>1
  <2> HIDE DEF s
  <2>4. /\ Len(s) \in Nat /\ DOMAIN s = 1 .. Len(s)
        /\ \A j \in 1 .. Len(s) : s[j].left \in Int /\ s[j].right \in Int
    BY <2>1, SpansType
  <2>5. /\ \A j \in 1 .. Len(s) : s[j].left < s[j].right
        /\ \A j, m \in 1 .. Len(s) : j < m => s[j].right < s[m].left
    BY <2>1, <2>4 DEF InOrder
  <2>6. k \in 1 .. Len(s) BY DEF s
  <2>7. \A x \in Int : l <= x /\ x < r => Has(s, x) BY <2>3, <2>6 DEF Has
  <2>8. ASSUME NEW j \in 1 .. Len(s) PROVE j = k \/ s[j].right < l \/ r < s[j].left
    BY <2>3, <2>4, <2>5, <2>6
  <2>9. ~Has(s, l - 1)
    <3> SUFFICES ASSUME NEW j \in 1 .. Len(s), s[j].left <= l - 1, l - 1 < s[j].right PROVE FALSE
      BY DEF Has
    <3> DEFINE p == s[j].left
               q == s[j].right
    <3>1. p \in Int /\ q \in Int /\ p < q /\ p <= l - 1 /\ l - 1 < q BY <2>4, <2>5
    <3>2. (p = l /\ q = r) \/ q < l \/ r < p BY <2>3, <2>8
    <3> HIDE DEF p, q
    <3> QED BY <3>1, <3>2
  <2>10. ~Has(s, r)
    <3> SUFFICES ASSUME NEW j \in 1 .. Len(s), s[j].left <= r, r < s[j].right PROVE FALSE
      BY DEF Has
    <3> DEFINE p == s[j].left
               q == s[j].right
    <3>1. p \in Int /\ q \in Int /\ p < q /\ p <= r /\ r < q BY <2>4, <2>5
    <3>2. (p = l /\ q = r) \/ q < l \/ r < p BY <2>3, <2>8
    <3> HIDE DEF p, q
    <3> QED BY <3>1, <3>2
  <2>11. l - 1 \in Int OBVIOUS
  <2> QED BY <2>2, <2>7, <2>9, <2>10, <2>11 DEF RunAt
<1>2. ASSUME RunAt(a, l, r, y)
      PROVE  \E i \in 1 .. Len(a) : InLines(a[i], y) /\ \E k \in 1 .. Len(a[i].spans) :
                                    a[i].spans[k] = [left |-> l, right |-> r]
  <2>1. On(a, l, y) BY <1>2 DEF RunAt
  <2>2. PICK i \in 1 .. Len(a) : InRow(a[i], l, y) BY <2>1 DEF On
  <2>3. InLines(a[i], y) BY <2>2 DEF InRow, InLines
  <2> DEFINE s == a[i].spans
  <2>4. s \in Spans /\ InOrder(s) BY RegionRows, RowsType
  <2>5. \A x \in Int : On(a, x, y) <=> Has(s, x) BY <2>3, OnRowAt
  <2>6. PICK k \in 1 .. Len(s) : s[k].left <= l /\ l < s[k].right BY <2>2 DEF InRow, Has
  <2> HIDE DEF s
  <2> DEFINE p == s[k].left
             q == s[k].right
  <2>7. /\ Len(s) \in Nat /\ DOMAIN s = 1 .. Len(s)
        /\ \A j \in 1 .. Len(s) : s[j].left \in Int /\ s[j].right \in Int
    BY <2>4, SpansType
  <2>8. /\ \A j \in 1 .. Len(s) : s[j].left < s[j].right
        /\ \A j, m \in 1 .. Len(s) : j < m => s[j].right < s[m].left
    BY <2>4, <2>7 DEF InOrder
  <2>9. p \in Int /\ q \in Int BY <2>7
  <2>10. \A x \in Int : p <= x /\ x < q => Has(s, x) BY DEF Has
  <2>11. /\ \A x \in Int : l <= x /\ x < r => Has(s, x)
         /\ ~Has(s, l - 1) /\ ~Has(s, r)
    BY <1>2, <2>5 DEF RunAt
  <2>12. ~Has(s, q)
    <3> SUFFICES ASSUME NEW j \in 1 .. Len(s), s[j].left <= q, q < s[j].right PROVE FALSE
      BY DEF Has
    <3> DEFINE c == s[j].left
               d == s[j].right
    <3>1. c \in Int /\ d \in Int /\ c < d /\ c <= q /\ q < d /\ p < q BY <2>7, <2>8
    <3>2. d < p \/ q < c \/ q = d BY <2>7, <2>8
    <3> HIDE DEF c, d, p, q
    <3> QED BY <2>9, <3>1, <3>2
  <2>13. s[k] = [left |-> p, right |-> q] BY <2>4, SpansType
  <2>14. p <= l /\ l < q BY <2>6
  <2> HIDE DEF p, q
  <2>15. ~(p <= l - 1) BY <2>9, <2>10, <2>11, <2>14
  <2>16. ~(q < r) BY <2>9, <2>11, <2>12, <2>14
  <2>17. ~(r < q) BY <2>9, <2>10, <2>11, <2>14
  <2>18. p = l /\ q = r BY <2>9, <2>14, <2>15, <2>16, <2>17
  <2> QED BY <2>3, <2>13, <2>18 DEF s
<1> QED BY <1>1, <1>2

-----------------------------------------------------------------------------
\* The positions at which the iterator hands out a rectangle.

Start(a, i, k) == ~Continues(a, i, a[i].spans[k])
Reach(a, i, span) == Min({j \in i .. Len(a) : ~Continues(a, j + 1, span)})
HasSpan(row, span) == \E k \in 1 .. Len(row.spans) : row.spans[k] = span

\* A span of a row, by its sides.
LEMMA SpanAt ==
  ASSUME NEW a \in Rows, IsRegion(a), NEW i \in 1 .. Len(a), NEW k \in 1 .. Len(a[i].spans)
  PROVE  LET s == a[i].spans[k] IN
         /\ s \in Span /\ s.left \in Int /\ s.right \in Int /\ s.left < s.right
         /\ s = [left |-> s.left, right |-> s.right] /\ HasSpan(a[i], s)
<1>1. a[i].spans \in Spans /\ InOrder(a[i].spans) BY RegionRows, RowsType
<1>2. a[i].spans[k].left < a[i].spans[k].right BY <1>1, SpansType DEF InOrder
<1> QED BY <1>1, <1>2, SpansType DEF HasSpan

\* Continues, row by row.
LEMMA ContinuesMeans ==
  ASSUME NEW a \in Rows, NEW i \in Int, NEW span
  PROVE  Continues(a, i, span) <=> /\ i \in 1 .. Len(a) /\ i - 1 \in 1 .. Len(a)
                                   /\ a[i - 1].bottom = a[i].top
                                   /\ HasSpan(a[i - 1], span) /\ HasSpan(a[i], span)
<1>1. Len(a) \in Nat BY RowsType
<1>2. \A f, v : v \in Range(f) <=> \E k \in DOMAIN f : v = f[k] BY DEF Range
<1>3. \A j \in 1 .. Len(a) : DOMAIN a[j].spans = 1 .. Len(a[j].spans) BY RowsType, SpansType
<1>4. \A j \in 1 .. Len(a) : span \in Range(a[j].spans) <=> HasSpan(a[j], span)
  BY <1>2, <1>3 DEF HasSpan
<1>5. i > 1 /\ i <= Len(a) <=> i \in 1 .. Len(a) /\ i - 1 \in 1 .. Len(a) BY <1>1
<1> QED BY <1>4, <1>5 DEF Continues

\* A span continues one of the row before when its run is also one of the line above.
LEMMA ContinuesRun ==
  ASSUME NEW a \in Rows, IsRegion(a), NEW i \in 1 .. Len(a), NEW l \in Int, NEW r \in Int, l < r,
         HasSpan(a[i], [left |-> l, right |-> r])
  PROVE  Continues(a, i, [left |-> l, right |-> r]) <=> RunAt(a, l, r, a[i].top - 1)
<1> DEFINE span == [left |-> l, right |-> r]
           u == a[i].top
<1>1. /\ Len(a) \in Nat /\ \A j \in 1 .. Len(a) : a[j].top \in Int /\ a[j].bottom \in Int
  BY RowsType
<1>2. /\ \A j \in 1 .. Len(a) : a[j].top < a[j].bottom
      /\ \A j, k \in 1 .. Len(a) : j < k => a[j].bottom <= a[k].top
  BY RegionRows
<1>3. ASSUME Continues(a, i, span) PROVE RunAt(a, l, r, u - 1)
  <2>1. i - 1 \in 1 .. Len(a) /\ a[i - 1].bottom = u /\ HasSpan(a[i - 1], span)
    BY <1>3, ContinuesMeans
  <2>2. InLines(a[i - 1], u - 1) BY <1>1, <1>2, <2>1 DEF InLines
  <2>3. u - 1 \in Int BY <1>1
  <2>4. HasSpan(a[i - 1], [left |-> l, right |-> r]) BY <2>1
  <2> QED BY <2>1, <2>2, <2>3, <2>4, RunIsSpan DEF HasSpan
<1>4. ASSUME RunAt(a, l, r, u - 1) PROVE Continues(a, i, span)
  <2>0. u - 1 \in Int BY <1>1
  <2>1. PICK j \in 1 .. Len(a) : InLines(a[j], u - 1) /\ HasSpan(a[j], span)
    <3> DEFINE y == u - 1
    <3>1. y \in Int /\ RunAt(a, l, r, y) BY <1>4, <2>0
    <3> HIDE DEF y
    <3>2. \E j \in 1 .. Len(a) : InLines(a[j], y) /\ \E k \in 1 .. Len(a[j].spans) :
                                    a[j].spans[k] = [left |-> l, right |-> r]
      BY <1>1, <3>1, RunIsSpan
    <3> QED BY <1>1, <3>2 DEF HasSpan, y
  <2>2. a[j].top <= u - 1 /\ u - 1 < a[j].bottom BY <2>1 DEF InLines
  <2>3. j < i
    <3>1. j # i BY <1>1, <2>2
    <3>2. i < j => FALSE
      <4> SUFFICES ASSUME i < j PROVE FALSE OBVIOUS
      <4>1. a[i].bottom <= a[j].top /\ u < a[i].bottom BY <1>2
      <4> DEFINE v == a[j].top
                 c == a[i].bottom
      <4>2. v \in Int /\ c \in Int /\ u \in Int BY <1>1
      <4> HIDE DEF v, c, u
      <4> QED BY <2>2, <4>1, <4>2 DEF v, c
    <3> QED BY <3>1, <3>2
  <2>4. i - 1 \in 1 .. Len(a) BY <1>1, <2>3
  <2> DEFINE v == a[j].bottom
             p == a[i - 1].top
             q == a[i - 1].bottom
  <2>5. v \in Int /\ p \in Int /\ q \in Int /\ u \in Int BY <1>1, <2>4
  <2>6. p < q /\ q <= u BY <1>2, <2>4
  <2>7. u - 1 < v BY <2>2
  <2>8. j < i - 1 => v <= p BY <1>2, <2>4
  <2>9. v <= u BY <1>2, <2>3
  <2> HIDE DEF u, v, p, q
  <2>10. ~(j < i - 1) BY <2>5, <2>6, <2>7, <2>8
  <2>11. j = i - 1 BY <1>1, <2>3, <2>10
  <2>12. v = u BY <2>5, <2>7, <2>9
  <2>13. a[i - 1].bottom = a[i].top BY <2>11, <2>12 DEF u, v
  <2> QED BY <2>1, <2>4, <2>11, <2>13, ContinuesMeans
<1> QED BY <1>3, <1>4

\* The row a rectangle ends with: it and those before it down from row i have the span
\* and stand one on the other, and the one after it does not go on.
LEMMA ReachFacts ==
  ASSUME NEW a \in Rows, NEW i \in 1 .. Len(a), NEW span
  PROVE  /\ Reach(a, i, span) \in i .. Len(a) /\ Reach(a, i, span) \in 1 .. Len(a)
         /\ ~Continues(a, Reach(a, i, span) + 1, span)
         /\ \A j \in i .. Reach(a, i, span) - 1 : Continues(a, j + 1, span)
<1> DEFINE n == Len(a)
           T == {j \in i .. n : ~Continues(a, j + 1, span)}
           m == Reach(a, i, span)
<1>1. n \in Nat BY RowsType
<1>2. n \in T BY <1>1 DEF Continues
<1>3. T \in SUBSET Nat BY <1>1
<1>4. m \in T /\ \A j \in T : m <= j
  <2>1. m = Min(T) BY DEF Reach
  <2> HIDE DEF T, m
  <2> QED BY <1>2, <1>3, <2>1, MinNat
<1>5. m \in i .. n /\ ~Continues(a, m + 1, span) BY <1>4
<1>6. ASSUME NEW j \in i .. m - 1 PROVE Continues(a, j + 1, span)
  <2> HIDE DEF m
  <2>1. j \in i .. n /\ ~(m <= j) BY <1>1, <1>5
  <2> QED BY <1>4, <2>1
<1>7. m \in 1 .. n
  <2> HIDE DEF m
  <2> QED BY <1>1, <1>5
<1> QED BY <1>5, <1>6, <1>7

\* The rectangle at a position.
LEMMA RectAtFields ==
  ASSUME NEW a \in Rows, NEW i \in 1 .. Len(a), NEW span \in Span
  PROVE  LET R == RectAt(a, i, span) IN
         /\ R \in Rects /\ R.left = span.left /\ R.right = span.right
         /\ R.top = a[i].top /\ R.bottom = a[Reach(a, i, span)].bottom
<1>1. RectAt(a, i, span) = make_ltrb(span.left, a[i].top, span.right, a[Reach(a, i, span)].bottom)
  BY DEF RectAt, Reach
<1>2. Reach(a, i, span) \in 1 .. Len(a) BY ReachFacts
<1>3. a[i].top \in Int /\ a[Reach(a, i, span)].bottom \in Int BY <1>2, RowsType
<1>4. span.left \in Int /\ span.right \in Int BY DEF Span
<1> DEFINE u == a[i].top
           b == a[Reach(a, i, span)].bottom
           R == RectAt(a, i, span)
<1> HIDE DEF u, b, R
<1>5. R = make_ltrb(span.left, u, span.right, b) BY <1>1 DEF u, b, R
<1>6. R \in Rects /\ R.left = span.left /\ R.right = span.right /\ R.top = u /\ R.bottom = b
  BY <1>3, <1>4, <1>5 DEF make_ltrb, Rects, u, b
<1> QED BY <1>6 DEF u, b, R

\* Every line of the rectangle is in a row that has the span.
LEMMA RectAtLines ==
  ASSUME NEW a \in Rows, IsRegion(a), NEW i \in 1 .. Len(a), NEW span, HasSpan(a[i], span),
         NEW y \in Int, a[i].top <= y, y < a[Reach(a, i, span)].bottom
  PROVE  \E j \in 1 .. Len(a) : InLines(a[j], y) /\ HasSpan(a[j], span)
<1> DEFINE m == Reach(a, i, span)
           T == {j \in i .. m : y < a[j].bottom}
<1>1. /\ Len(a) \in Nat /\ \A j \in 1 .. Len(a) : a[j].top \in Int /\ a[j].bottom \in Int
  BY RowsType
<1>2. m \in i .. Len(a) /\ \A j \in i .. m - 1 : Continues(a, j + 1, span) BY ReachFacts
<1> HIDE DEF m
<1>3. m \in T BY <1>1, <1>2 DEF m
<1>4. T \in SUBSET Nat BY <1>1, <1>2
<1>5. PICK j \in T : \A k \in T : j <= k
  <2> HIDE DEF T
  <2> QED BY <1>3, <1>4, LeastNat
<1>6. j \in 1 .. Len(a) /\ j \in i .. m /\ y < a[j].bottom BY <1>1, <1>2, <1>5
<1>7. CASE j = i BY <1>6, <1>7 DEF InLines
<1>8. CASE j # i
  <2>1. j - 1 \in i .. m - 1 /\ (j - 1) + 1 = j BY <1>1, <1>2, <1>6, <1>8
  <2>2. Continues(a, j, span) BY <1>2, <2>1
  <2>3. j - 1 \in 1 .. Len(a) /\ a[j - 1].bottom = a[j].top /\ HasSpan(a[j], span)
    BY <2>2, <1>6, ContinuesMeans
  <2>4. j - 1 \notin T BY <1>5, <1>6
  <2>5. j - 1 \in i .. m BY <1>2, <2>1
  <2>6. ~(y < a[j - 1].bottom) BY <2>4, <2>5
  <2>7. a[j].top <= y BY <1>1, <1>6, <2>3, <2>6
  <2> QED BY <1>6, <2>3, <2>7 DEF InLines
<1> QED BY <1>7, <1>8

\* What the iterator hands out at a position is a tile.
LEMMA RectAtIsTile ==
  ASSUME NEW a \in Rows, IsRegion(a), NEW i \in 1 .. Len(a), NEW k \in 1 .. Len(a[i].spans),
         Start(a, i, k)
  PROVE  Tile(a, RectAt(a, i, a[i].spans[k]))
<1> DEFINE span == a[i].spans[k]
           l == span.left
           r == span.right
           m == Reach(a, i, span)
           R == RectAt(a, i, span)
           u == a[i].top
           b == a[m].bottom
<1>1. /\ span \in Span /\ l \in Int /\ r \in Int /\ l < r
      /\ span = [left |-> l, right |-> r] /\ HasSpan(a[i], span)
  BY SpanAt
<1>2. R \in Rects /\ R.left = l /\ R.right = r /\ R.top = u /\ R.bottom = b
  BY <1>1, RectAtFields
<1>3. /\ m \in i .. Len(a) /\ m \in 1 .. Len(a) /\ ~Continues(a, m + 1, span) BY ReachFacts
<1>4. /\ Len(a) \in Nat /\ \A j \in 1 .. Len(a) : a[j].top \in Int /\ a[j].bottom \in Int
  BY RowsType
<1>5. /\ \A j \in 1 .. Len(a) : a[j].top < a[j].bottom
      /\ \A j, n \in 1 .. Len(a) : j < n => a[j].bottom <= a[n].top
  BY RegionRows
<1>6. u \in Int /\ b \in Int BY <1>3, <1>4
<1>7. ~Continues(a, i, span) BY DEF Start
<1> HIDE DEF span, l, r, m
<1>8. u < b
  <2>1. a[i].bottom \in Int /\ a[m].top \in Int /\ u < a[i].bottom /\ a[m].top < b BY <1>3, <1>4, <1>5
  <2>2. i = m \/ a[i].bottom <= a[m].top BY <1>3, <1>4, <1>5
  <2>3. CASE i = m BY <2>1, <2>3
  <2>4. CASE a[i].bottom <= a[m].top
    <3> DEFINE p == a[i].bottom
               q == a[m].top
    <3>1. p \in Int /\ q \in Int /\ u < p /\ p <= q /\ q < b BY <2>1, <2>4
    <3> HIDE DEF p, q, u, b
    <3> QED BY <1>6, <3>1
  <2> QED BY <2>2, <2>3, <2>4
<1>9. ASSUME NEW y \in Int, u <= y, y < b PROVE RunAt(a, l, r, y)
  <2>1. PICK j \in 1 .. Len(a) : InLines(a[j], y) /\ HasSpan(a[j], span)
    BY <1>1, <1>9, RectAtLines DEF m
  <2> QED BY <1>1, <2>1, RunIsSpan DEF HasSpan
<1>10. ~RunAt(a, l, r, u - 1) BY <1>1, <1>7, ContinuesRun
<1>11. ~RunAt(a, l, r, b)
  <2> SUFFICES ASSUME RunAt(a, l, r, b) PROVE FALSE OBVIOUS
  <2> HIDE DEF b
  <2>1. PICK j \in 1 .. Len(a) : InLines(a[j], b) /\ HasSpan(a[j], span)
    BY <1>1, <1>6, RunIsSpan DEF HasSpan
  <2> USE DEF b
  <2>2. a[j].top <= b /\ b < a[j].bottom BY <2>1 DEF InLines
  <2>3. m < j
    <3>1. j # m BY <2>2, <1>6
    <3>2. ~(j < m)
      <4> SUFFICES ASSUME j < m PROVE FALSE OBVIOUS
      <4> DEFINE p == a[j].bottom
                 q == a[m].top
      <4>1. p \in Int /\ q \in Int /\ p <= q /\ q < b /\ b < p BY <1>3, <1>4, <1>5, <2>2
      <4> HIDE DEF p, q, b
      <4> QED BY <1>6, <4>1
    <3> QED BY <1>3, <1>4, <3>1, <3>2
  <2>4. m + 1 \in 1 .. Len(a) BY <1>3, <1>4, <2>3
  <2> DEFINE p == a[m + 1].top
             q == a[m + 1].bottom
             v == a[j].top
  <2>5. p \in Int /\ q \in Int /\ v \in Int /\ b <= p /\ p < q /\ v <= b
    BY <1>3, <1>4, <1>5, <2>2, <2>4
  <2>6. m + 1 < j => q <= v BY <1>5, <2>4
  <2> HIDE DEF p, q, v, b
  <2>7. ~(m + 1 < j) BY <1>6, <2>5, <2>6
  <2>8. j = m + 1 BY <1>3, <1>4, <2>3, <2>7
  <2>9. v = b BY <1>6, <2>5, <2>8 DEF p, v
  <2>10. a[m].bottom = a[m + 1].top BY <2>8, <2>9 DEF v, b
  <2>11. HasSpan(a[m], span)
    <3>1. CASE m = i BY <1>1, <3>1
    <3>2. CASE m # i
      <4>1. m - 1 \in i .. m - 1 /\ (m - 1) + 1 = m BY <1>3, <1>4, <3>2
      <4>2. Continues(a, (m - 1) + 1, span)
        <5>1. \A n \in i .. m - 1 : Continues(a, n + 1, span) BY ReachFacts DEF m
        <5> QED BY <4>1, <5>1
      <4>3. Continues(a, m, span) BY <4>1, <4>2
      <4> QED BY <1>3, <4>3, ContinuesMeans
    <3> QED BY <3>1, <3>2
  <2>12. HasSpan(a[m + 1], span) BY <2>1, <2>8
  <2>13. (m + 1) - 1 = m /\ m + 1 \in Int BY <1>3, <1>4
  <2>14. Continues(a, m + 1, span) BY <1>3, <2>4, <2>10, <2>11, <2>12, <2>13, ContinuesMeans
  <2> QED BY <1>3, <2>14
<1> HIDE DEF R
<1>12. Tile(a, R) BY <1>1, <1>2, <1>8, <1>9, <1>10, <1>11 DEF Tile
<1> QED BY <1>12 DEF R, span

\* Every tile is handed out at a position.
LEMMA TileHasStart ==
  ASSUME NEW a \in Rows, IsRegion(a), NEW R \in Rects, Tile(a, R)
  PROVE  \E i \in 1 .. Len(a) : \E k \in 1 .. Len(a[i].spans) :
           Start(a, i, k) /\ R = RectAt(a, i, a[i].spans[k])
<1> DEFINE l == R.left
           r == R.right
           u == R.top
<1>1. l \in Int /\ r \in Int /\ u \in Int /\ R.bottom \in Int BY RectFields
<1>2. l < r /\ u < R.bottom /\ RunAt(a, l, r, u) /\ ~RunAt(a, l, r, u - 1) BY <1>1 DEF Tile
<1> HIDE DEF l, r, u
<1>3. PICK i \in 1 .. Len(a) : /\ InLines(a[i], u)
                               /\ \E k \in 1 .. Len(a[i].spans) : a[i].spans[k] = [left |-> l, right |-> r]
  BY <1>1, <1>2, RunIsSpan
<1>4. PICK k \in 1 .. Len(a[i].spans) : a[i].spans[k] = [left |-> l, right |-> r] BY <1>3
<1> DEFINE span == a[i].spans[k]
<1>5. /\ span \in Span /\ span.left = l /\ span.right = r /\ HasSpan(a[i], [left |-> l, right |-> r])
  BY <1>4, SpanAt
<1>6. /\ a[i].top \in Int /\ a[i].bottom \in Int BY RowsType
<1>7. a[i].top <= u /\ u < a[i].bottom BY <1>3 DEF InLines
<1>8. a[i].top = u
  <2> SUFFICES ASSUME a[i].top # u PROVE FALSE OBVIOUS
  <2>1. InLines(a[i], u - 1) BY <1>1, <1>6, <1>7 DEF InLines
  <2>2. u - 1 \in Int BY <1>1
  <2> QED BY <1>1, <1>2, <1>4, <2>1, <2>2, RunIsSpan
<1>9. Start(a, i, k) BY <1>1, <1>2, <1>4, <1>5, <1>8, ContinuesRun DEF Start
<1> DEFINE T == RectAt(a, i, span)
<1>10. T \in Rects /\ T.left = l /\ T.right = r /\ T.top = u BY <1>5, <1>8, RectAtFields
<1>11. Tile(a, T) BY <1>9, RectAtIsTile
<1> HIDE DEF T
<1>12. InBox(T, l, u) BY <1>1, <1>2, <1>10, <1>11 DEF InBox, Tile
<1>13. InBox(R, l, u) BY <1>1, <1>2 DEF InBox, l, r, u
<1>14. R = T BY <1>1, <1>10, <1>11, <1>12, <1>13, SameTile
<1> QED BY <1>9, <1>14 DEF T

\* Every pixel of a region is in a tile.
LEMMA TilesCover ==
  ASSUME NEW a \in Rows, IsRegion(a), NEW x \in Int, NEW y \in Int, On(a, x, y)
  PROVE  \E R \in Rects : Tile(a, R) /\ InBox(R, x, y)
<1>1. PICK i \in 1 .. Len(a) : InRow(a[i], x, y) BY DEF On
<1>2. PICK k \in 1 .. Len(a[i].spans) : a[i].spans[k].left <= x /\ x < a[i].spans[k].right
  BY <1>1 DEF InRow, Has
<1> DEFINE span == a[i].spans[k]
           T == {j \in 1 .. i : \A m \in j + 1 .. i : Continues(a, m, span)}
<1>3. /\ Len(a) \in Nat /\ \A j \in 1 .. Len(a) : a[j].top \in Int /\ a[j].bottom \in Int
  BY RowsType
<1>4. /\ \A j \in 1 .. Len(a) : a[j].top < a[j].bottom
      /\ \A j, n \in 1 .. Len(a) : j < n => a[j].bottom <= a[n].top
  BY RegionRows
<1>5. HasSpan(a[i], span) /\ span \in Span BY SpanAt
<1>6. span.left <= x /\ x < span.right BY <1>2
<1> HIDE DEF span
<1>7. i \in T BY <1>3
<1>8. T \in SUBSET Nat BY <1>3
<1>9. PICK j \in T : \A m \in T : j <= m
  <2> HIDE DEF T
  <2> QED BY <1>7, <1>8, LeastNat
<1>10. j \in 1 .. i /\ j \in 1 .. Len(a) /\ \A m \in j + 1 .. i : Continues(a, m, span)
  <2>1. j \in 1 .. i /\ \A m \in j + 1 .. i : Continues(a, m, span) BY <1>9, Zenon
  <2>2. j \in 1 .. Len(a) BY <1>3, <2>1
  <2> QED BY <2>1, <2>2
<1>11. HasSpan(a[j], span)
  <2>1. CASE j = i BY <1>5, <2>1
  <2>2. CASE j # i
    <3>1. j + 1 \in j + 1 .. i /\ (j + 1) - 1 = j /\ j + 1 \in Int BY <1>3, <1>10, <2>2
    <3>2. Continues(a, j + 1, span) BY <1>10, <3>1
    <3> QED BY <3>1, <3>2, ContinuesMeans
  <2> QED BY <2>1, <2>2
<1>12. PICK q \in 1 .. Len(a[j].spans) : a[j].spans[q] = span BY <1>11 DEF HasSpan
<1>13. ~Continues(a, j, span)
  <2> SUFFICES ASSUME Continues(a, j, span) PROVE FALSE OBVIOUS
  <2>1. j \in Int /\ j - 1 \in 1 .. Len(a) BY <1>10, ContinuesMeans
  <2>2. ASSUME NEW m \in (j - 1) + 1 .. i PROVE Continues(a, m, span)
    <3>1. m = j \/ m \in j + 1 .. i BY <1>3, <1>10
    <3> QED BY <1>10, <3>1
  <2>3. j - 1 \in 1 .. i BY <1>3, <1>10, <2>1
  <2>4. j - 1 \in T BY <2>2, <2>3
  <2>5. j <= j - 1 BY <1>9, <2>4
  <2> QED BY <1>10, <2>5
<1>14. Start(a, j, q) BY <1>12, <1>13 DEF Start
<1> DEFINE R == RectAt(a, j, span)
           m == Reach(a, j, span)
<1>15. Tile(a, R) BY <1>10, <1>12, <1>14, RectAtIsTile
<1>16. /\ R \in Rects /\ R.left = span.left /\ R.right = span.right
       /\ R.top = a[j].top /\ R.bottom = a[m].bottom
  BY <1>5, <1>10, RectAtFields
<1>17. m \in j .. Len(a) /\ m \in 1 .. Len(a) /\ ~Continues(a, m + 1, span) BY <1>10, ReachFacts
<1> HIDE DEF R, m
<1>18. ~(m < i)
  <2>1. m < i => m + 1 \in j + 1 .. i BY <1>3, <1>10, <1>17
  <2> QED BY <1>10, <1>17, <2>1
<1>19. a[i].top <= y /\ y < a[i].bottom BY <1>1 DEF InRow
<1>20. R.top <= y
  <2> DEFINE u == a[j].top
             v == a[i].top
             c == a[j].bottom
  <2>1. u \in Int /\ v \in Int /\ c \in Int /\ u < c /\ (i = j \/ c <= v) /\ v <= y
    BY <1>3, <1>4, <1>10, <1>19
  <2>2. i = j => u = v OBVIOUS
  <2> HIDE DEF u, v, c
  <2>3. u <= y BY <2>1, <2>2
  <2> QED BY <1>16, <2>3 DEF u
<1>21. y < R.bottom
  <2> DEFINE u == a[i].bottom
             v == a[m].top
             c == a[m].bottom
  <2>1. u \in Int /\ v \in Int /\ c \in Int /\ v < c /\ (i = m \/ u <= v) /\ y < u
    BY <1>3, <1>4, <1>17, <1>18, <1>19
  <2>2. i = m => u = c OBVIOUS
  <2> HIDE DEF u, v, c
  <2>3. y < c BY <2>1, <2>2
  <2> QED BY <1>16, <2>3 DEF c
<1>22. InBox(R, x, y) BY <1>6, <1>16, <1>20, <1>21 DEF InBox
<1> QED BY <1>15, <1>16, <1>22

-----------------------------------------------------------------------------
\* The walk of the iterator.

\* The order of the iterator: from top to bottom, and from left to right.
Sooner(R, T) == R.top < T.top \/ (R.top = T.top /\ R.left < T.left)
Sorted(rects) == \A j, k \in 1 .. Len(rects) : j < k => Sooner(rects[j], rects[k])
AtEnd(s) == s.i > Len(s.rows)
SpanOf(s) == s.rows[s.i].spans[s.k]
SpansAt(s) == Len(s.rows[s.i].spans)

\* The fields of a walk.
LEMMA IterWalkFields ==
  ASSUME NEW s \in IterWalk
  PROVE  /\ s.rows \in Rows /\ s.i \in Nat \ {0} /\ s.k \in Nat \ {0} /\ s.out \in Seq(Rects)
         /\ Len(s.rows) \in Nat /\ Len(s.out) \in Nat
         /\ ~AtEnd(s) => s.i \in 1 .. Len(s.rows) /\ SpansAt(s) \in Nat
         /\ ~AtEnd(s) /\ s.k <= SpansAt(s) => SpanOf(s) \in Span /\ s.k \in 1 .. SpansAt(s)
<1>1. s.rows \in Rows /\ s.i \in Nat \ {0} /\ s.k \in Nat \ {0} /\ s.out \in Seq(Rects)
  BY DEF IterWalk
<1>2. Len(s.rows) \in Nat /\ Len(s.out) \in Nat BY <1>1, RowsType
<1>3. ~AtEnd(s) => s.i \in 1 .. Len(s.rows) BY <1>1, <1>2 DEF AtEnd
<1>4. ~AtEnd(s) => s.rows[s.i].spans \in Spans BY <1>1, <1>3, RowsType
<1>5. ~AtEnd(s) => SpansAt(s) \in Nat BY <1>4, SpansType DEF SpansAt
<1>6. s.k <= SpansAt(s) /\ SpansAt(s) \in Nat => s.k \in 1 .. SpansAt(s) BY <1>1
<1>7. ~AtEnd(s) /\ s.k <= SpansAt(s) => SpanOf(s) \in Span
  BY <1>4, <1>5, <1>6, SpansType DEF SpanOf, SpansAt
<1> QED BY <1>1, <1>2, <1>3, <1>5, <1>6, <1>7

\* One turn of advance.
LEMMA AdvanceTurn ==
  ASSUME NEW s \in IterWalk, ~AtEnd(s)
  PROVE  LET t == Advance(s) IN
         /\ t \in IterWalk /\ t.rows = s.rows
         /\ s.k > SpansAt(s) => t.i = s.i + 1 /\ t.k = 1 /\ t.out = s.out
         /\ s.k <= SpansAt(s) => t.i = s.i /\ t.k = s.k + 1
         /\ s.k <= SpansAt(s) /\ Continues(s.rows, s.i, SpanOf(s)) => t.out = s.out
         /\ s.k <= SpansAt(s) /\ ~Continues(s.rows, s.i, SpanOf(s)) =>
              t.out = Append(s.out, RectAt(s.rows, s.i, SpanOf(s)))
<1> DEFINE t == Advance(s)
           R == RectAt(s.rows, s.i, SpanOf(s))
           new == Append(s.out, R)
<1>1. /\ s.rows \in Rows /\ s.i \in Nat \ {0} /\ s.k \in Nat \ {0} /\ s.out \in Seq(Rects)
      /\ s.i \in 1 .. Len(s.rows) /\ SpansAt(s) \in Nat
  BY IterWalkFields
<1>2. s.k > SpansAt(s) \/ s.k <= SpansAt(s) BY <1>1
<1>3. s.k > SpansAt(s) => ~(s.k <= SpansAt(s)) BY <1>1
<1>4. CASE s.k > SpansAt(s)
  <2>1. t = [s EXCEPT !.i = @ + 1, !.k = 1] BY <1>4 DEF Advance, SpansAt
  <2> DEFINE n == s.i + 1
  <2>2. n \in Nat \ {0} /\ 1 \in Nat \ {0} BY <1>1
  <2>3. t = [s EXCEPT !.i = n, !.k = 1] BY <2>1
  <2> HIDE DEF t, n
  <2>4. t \in IterWalk /\ t.rows = s.rows /\ t.i = n /\ t.k = 1 /\ t.out = s.out
    BY <2>2, <2>3 DEF IterWalk
  <2> QED BY <1>3, <1>4, <2>4 DEF t, n
<1>5. CASE s.k <= SpansAt(s) /\ Continues(s.rows, s.i, SpanOf(s))
  <2>1. t = [s EXCEPT !.k = @ + 1] BY <1>3, <1>5 DEF Advance, SpansAt, SpanOf
  <2> DEFINE n == s.k + 1
  <2>2. n \in Nat \ {0} BY <1>1
  <2>3. t = [s EXCEPT !.k = n] BY <2>1
  <2> HIDE DEF t, n
  <2>4. t \in IterWalk /\ t.rows = s.rows /\ t.i = s.i /\ t.k = n /\ t.out = s.out
    BY <2>2, <2>3 DEF IterWalk
  <2> QED BY <1>3, <1>5, <2>4 DEF t, n
<1>6. CASE s.k <= SpansAt(s) /\ ~Continues(s.rows, s.i, SpanOf(s))
  <2>1. t = [s EXCEPT !.k = @ + 1, !.out = Append(@, R)]
    BY <1>3, <1>6 DEF Advance, SpansAt, SpanOf
  <2> DEFINE n == s.k + 1
  <2>2. n \in Nat \ {0} BY <1>1
  <2>3. R \in Rects
    <3>1. SpanOf(s) \in Span BY <1>6, IterWalkFields
    <3> QED BY <1>1, <3>1, RectAtFields
  <2>4. new \in Seq(Rects) BY <1>1, <2>3, AppendFacts
  <2>5. t = [s EXCEPT !.k = n, !.out = new] BY <2>1
  <2> HIDE DEF t, n, new
  <2>6. t \in IterWalk /\ t.rows = s.rows /\ t.i = s.i /\ t.k = n /\ t.out = new
    BY <2>2, <2>4, <2>5 DEF IterWalk
  <2> QED BY <1>3, <1>6, <2>6 DEF t, n, new
<1> QED BY <1>2, <1>4, <1>5, <1>6

\* The loop unfolds.
LEMMA IteratingLoop ==
  IsLoop(Iterating, IterWalk, {s \in IterWalk : AtEnd(s)}, [s \in IterWalk |-> s.out],
         [s \in IterWalk |-> IF AtEnd(s) THEN s ELSE Advance(s)])
<1> DEFINE D == {s \in IterWalk : AtEnd(s)}
           R == [s \in IterWalk |-> s.out]
           F == [s \in IterWalk |-> IF AtEnd(s) THEN s ELSE Advance(s)]
           Turn(r) == [s \in IterWalk |-> IF s.i > Len(s.rows) THEN s.out ELSE r[Advance(s)]]
<1>1. F \in [IterWalk -> IterWalk] BY AdvanceTurn
<1>2. \A r : IsLoop(r, IterWalk, D, R, F) <=> r = Turn(r) BY DEF IsLoop, AtEnd
<1>3. \E r : IsLoop(r, IterWalk, D, R, F)
  <2> HIDE DEF D, R, F
  <2> QED BY <1>1, LoopExists, Zenon
<1>4. Iterating = Turn(Iterating)
  <2>1. \E r : r = Turn(r) BY <1>2, <1>3, Zenon
  <2> QED BY <2>1, Zenon DEF Iterating, IterWalk
<1> QED BY <1>2, <1>4, Zenon

RowsAhead(s) == IF AtEnd(s) THEN 0 ELSE Len(s.rows) + 1 - s.i
SpansToCome(s) == IF AtEnd(s) \/ s.k > SpansAt(s) THEN 0 ELSE SpansAt(s) + 1 - s.k

\* Every turn leaves fewer rows or fewer spans ahead.
LEMMA AdvanceLess ==
  ASSUME NEW s \in IterWalk
  PROVE  /\ RowsAhead(s) \in Nat /\ SpansToCome(s) \in Nat
         /\ ~AtEnd(s) => \/ RowsAhead(Advance(s)) < RowsAhead(s)
                         \/ /\ RowsAhead(Advance(s)) = RowsAhead(s)
                            /\ SpansToCome(Advance(s)) < SpansToCome(s)
<1>1. /\ s.i \in Nat \ {0} /\ s.k \in Nat \ {0} /\ Len(s.rows) \in Nat
      /\ ~AtEnd(s) => s.i \in 1 .. Len(s.rows) /\ SpansAt(s) \in Nat
  BY IterWalkFields
<1>2. RowsAhead(s) \in Nat BY <1>1 DEF RowsAhead
<1>3. SpansToCome(s) \in Nat BY <1>1 DEF SpansToCome
<1>4. ASSUME ~AtEnd(s), s.k > SpansAt(s) PROVE RowsAhead(Advance(s)) < RowsAhead(s)
  <2> DEFINE t == Advance(s)
             n == Len(s.rows)
  <2>1. t.rows = s.rows /\ t.i = s.i + 1 BY <1>4, AdvanceTurn
  <2> HIDE DEF t
  <2>2. RowsAhead(s) = n + 1 - s.i BY <1>4 DEF RowsAhead
  <2>3. RowsAhead(t) = IF s.i + 1 > n THEN 0 ELSE n + 1 - (s.i + 1) BY <2>1 DEF RowsAhead, AtEnd
  <2>4. n \in Nat /\ s.i \in 1 .. n BY <1>1, <1>4
  <2> HIDE DEF n
  <2>5. RowsAhead(t) < RowsAhead(s) BY <2>2, <2>3, <2>4
  <2> QED BY <2>5 DEF t
<1>5. ASSUME ~AtEnd(s), s.k <= SpansAt(s)
      PROVE  RowsAhead(Advance(s)) = RowsAhead(s) /\ SpansToCome(Advance(s)) < SpansToCome(s)
  <2> DEFINE t == Advance(s)
             n == SpansAt(s)
  <2>1. t.rows = s.rows /\ t.i = s.i /\ t.k = s.k + 1 BY <1>5, AdvanceTurn
  <2> HIDE DEF t
  <2>2. RowsAhead(t) = RowsAhead(s) BY <2>1 DEF RowsAhead, AtEnd
  <2>3. ~AtEnd(t) /\ SpansAt(t) = n BY <1>5, <2>1 DEF AtEnd, SpansAt
  <2> HIDE DEF n
  <2>4. n \in Nat BY <1>1, <1>5 DEF n
  <2>5. ~(s.k > n) BY <1>1, <1>5, <2>4 DEF n
  <2>6. SpansToCome(s) = n + 1 - s.k BY <1>5, <2>5 DEF SpansToCome, n
  <2>7. SpansToCome(t) = IF s.k + 1 > n THEN 0 ELSE n + 1 - (s.k + 1) BY <2>1, <2>3 DEF SpansToCome
  <2>8. SpansToCome(t) < SpansToCome(s) BY <1>1, <2>4, <2>5, <2>6, <2>7
  <2> QED BY <2>2, <2>8 DEF t
<1>6. ~AtEnd(s) => s.k > SpansAt(s) \/ s.k <= SpansAt(s) BY <1>1
<1> QED BY <1>2, <1>3, <1>4, <1>5, <1>6

\* The invariant rule for it.
LEMMA IteratingInvariant ==
  ASSUME NEW I \in SUBSET IterWalk, NEW P,
         \A s \in I : AtEnd(s) => s.out \in P,
         \A s \in I : ~AtEnd(s) => Advance(s) \in I
  PROVE  \A s \in I : Iterating[s] \in P
<1> DEFINE D == {s \in IterWalk : AtEnd(s)}
           R == [s \in IterWalk |-> s.out]
           F == [s \in IterWalk |-> IF AtEnd(s) THEN s ELSE Advance(s)]
           M == [s \in IterWalk |-> RowsAhead(s)]
           m == [s \in IterWalk |-> SpansToCome(s)]
<1>1. IsLoop(Iterating, IterWalk, D, R, F) BY IteratingLoop
<1>2. KeepsPair(IterWalk, D, R, F, I, M, m, P)
  <2>1. M \in [IterWalk -> Nat] /\ m \in [IterWalk -> Nat] BY AdvanceLess
  <2>2. \A s \in I : s \in D => R[s] \in P OBVIOUS
  <2>3. \A s \in I : s \notin D => F[s] = Advance(s) /\ F[s] \in I OBVIOUS
  <2>4. \A s \in I : s \notin D => M[F[s]] < M[s] \/ (M[F[s]] = M[s] /\ m[F[s]] < m[s])
    <3> SUFFICES ASSUME NEW s \in I, s \notin D
                 PROVE  M[F[s]] < M[s] \/ (M[F[s]] = M[s] /\ m[F[s]] < m[s])
      OBVIOUS
    <3>1. s \in IterWalk /\ ~AtEnd(s) OBVIOUS
    <3>2. F[s] = Advance(s) /\ F[s] \in IterWalk BY <2>3
    <3> HIDE DEF F
    <3>3. M[F[s]] = RowsAhead(F[s]) /\ m[F[s]] = SpansToCome(F[s]) BY <3>2
    <3>4. M[s] = RowsAhead(s) /\ m[s] = SpansToCome(s) BY <3>1
    <3> HIDE DEF M, m
    <3> QED BY <3>1, <3>2, <3>3, <3>4, AdvanceLess
  <2> HIDE DEF D, R, F, M, m
  <2> QED BY <2>1, <2>2, <2>3, <2>4 DEF KeepsPair
<1> HIDE DEF D, R, F, M, m
<1> QED BY <1>1, <1>2, LoopInvariantPair, Zenon

-----------------------------------------------------------------------------
\* What the iterator hands out.

\* Position (p, q) comes before position (i, k).
Earlier(p, q, i, k) == p < i \/ (p = i /\ q < k)
\* A rectangle that is handed out at a position before (i, k).
From1(a, R, i, k) == \E p \in 1 .. Len(a) : \E q \in 1 .. Len(a[p].spans) :
                       Start(a, p, q) /\ Earlier(p, q, i, k) /\ R = RectAt(a, p, a[p].spans[q])
\* All of them have been, in order, and no others.
HandedOut(a, rects, i, k) ==
  /\ Sorted(rects)
  /\ \A R \in Rects : From1(a, R, i, k) <=> \E j \in 1 .. Len(rects) : rects[j] = R

\* A rectangle after the others.
LEMMA SortedAppend ==
  ASSUME NEW rects \in Seq(Rects), NEW R \in Rects, Sorted(rects),
         \A j \in 1 .. Len(rects) : Sooner(rects[j], R)
  PROVE  /\ Append(rects, R) \in Seq(Rects) /\ Sorted(Append(rects, R))
         /\ \A T : (\E j \in 1 .. Len(Append(rects, R)) : Append(rects, R)[j] = T) <=>
                     (\E j \in 1 .. Len(rects) : rects[j] = T) \/ T = R
<1> DEFINE new == Append(rects, R)
           n == Len(rects)
<1>1. /\ new \in Seq(Rects) /\ n \in Nat /\ Len(new) = n + 1
      /\ \A j \in 1 .. n : new[j] = rects[j]
      /\ new[n + 1] = R
  BY AppendFacts
<1>2. \A j, k \in 1 .. n : j < k => Sooner(rects[j], rects[k]) BY DEF Sorted
<1>3. \A j \in 1 .. n : Sooner(rects[j], R) OBVIOUS
<1> HIDE DEF new, n
<1>4. ASSUME NEW j \in 1 .. n + 1, NEW k \in 1 .. n + 1, j < k PROVE Sooner(new[j], new[k])
  <2>1. j \in 1 .. n BY <1>1, <1>4
  <2>2. k = n + 1 \/ k \in 1 .. n BY <1>1
  <2> QED BY <1>1, <1>2, <1>3, <1>4, <2>1, <2>2
<1>5. Sorted(new) BY <1>1, <1>4 DEF Sorted
<1>6. \A j \in 1 .. n + 1 : j \in 1 .. n \/ j = n + 1 BY <1>1
<1>7. (\A j \in 1 .. n : j \in 1 .. n + 1) /\ n + 1 \in 1 .. n + 1 BY <1>1
<1>8. \A T : (\E j \in 1 .. n + 1 : new[j] = T) <=> (\E j \in 1 .. n : rects[j] = T) \/ T = R
  BY <1>1, <1>6, <1>7
<1> QED BY <1>1, <1>5, <1>8 DEF new, n

\* A position before another gives a rectangle that comes sooner.
LEMMA EarlierSooner ==
  ASSUME NEW a \in Rows, IsRegion(a), NEW i \in 1 .. Len(a), NEW k \in 1 .. Len(a[i].spans),
         NEW p \in 1 .. Len(a), NEW q \in 1 .. Len(a[p].spans), Earlier(p, q, i, k)
  PROVE  Sooner(RectAt(a, p, a[p].spans[q]), RectAt(a, i, a[i].spans[k]))
<1> DEFINE R == RectAt(a, p, a[p].spans[q])
           T == RectAt(a, i, a[i].spans[k])
<1>1. /\ a[i].spans[k] \in Span /\ a[p].spans[q] \in Span
      /\ a[p].spans[q].left \in Int /\ a[p].spans[q].right \in Int
      /\ a[p].spans[q].left < a[p].spans[q].right
      /\ a[i].spans[k].left \in Int
  BY SpanAt
<1>2. /\ R.top = a[p].top /\ R.left = a[p].spans[q].left
      /\ T.top = a[i].top /\ T.left = a[i].spans[k].left
  BY <1>1, RectAtFields
<1> HIDE DEF R, T
<1>3. CASE p < i
  <2>1. a[p].bottom <= a[i].top /\ a[p].top < a[p].bottom BY <1>3, RegionRows
  <2>2. a[p].bottom \in Int /\ a[i].top \in Int /\ a[p].top \in Int BY RowsType
  <2> DEFINE u == a[p].top
             c == a[p].bottom
             v == a[i].top
  <2>3. u \in Int /\ c \in Int /\ v \in Int /\ u < c /\ c <= v BY <2>1, <2>2
  <2> HIDE DEF u, c, v
  <2>4. u < v BY <2>3
  <2> QED BY <1>2, <2>4 DEF Sooner, R, T, u, v
<1>4. CASE p = i /\ q < k
  <2> DEFINE s == a[i].spans
  <2>1. s \in Spans /\ InOrder(s) BY RegionRows, RowsType
  <2>2. DOMAIN s = 1 .. Len(s) BY <2>1, SpansType
  <2>3. s[q].right < s[k].left BY <1>4, <2>1, <2>2 DEF InOrder
  <2> DEFINE l == s[q].left
             r == s[q].right
             m == s[k].left
  <2>4. l \in Int /\ r \in Int /\ m \in Int /\ l < r /\ r < m BY <1>1, <1>4, <2>3
  <2> HIDE DEF l, r, m
  <2>5. l < m BY <2>4
  <2> QED BY <1>2, <1>4, <2>5 DEF Sooner, R, T, l, m
<1> QED BY <1>3, <1>4 DEF Earlier

\* A turn hands out the rectangle of its position, if there is one, and no other.
LEMMA AdvanceKeeps ==
  ASSUME NEW s \in IterWalk, ~AtEnd(s), IsRegion(s.rows), HandedOut(s.rows, s.out, s.i, s.k)
  PROVE  LET t == Advance(s) IN HandedOut(t.rows, t.out, t.i, t.k)
<1> DEFINE t == Advance(s)
           a == s.rows
           i == s.i
           k == s.k
<1>1. /\ a \in Rows /\ i \in 1 .. Len(a) /\ k \in Nat \ {0} /\ SpansAt(s) \in Nat /\ Len(a) \in Nat
      /\ s.out \in Seq(Rects)
  BY IterWalkFields
<1>2. t.rows = a BY AdvanceTurn
<1>3. SpansAt(s) = Len(a[i].spans) BY DEF SpansAt
<1>4. Sorted(s.out) BY DEF HandedOut
<1>5. \A R \in Rects : From1(a, R, i, k) <=> \E j \in 1 .. Len(s.out) : s.out[j] = R
  BY DEF HandedOut
<1>6. CASE k > SpansAt(s)
  <2>1. t.i = i + 1 /\ t.k = 1 /\ t.out = s.out BY <1>6, AdvanceTurn
  <2> HIDE DEF t, a, i, k
  <2>2. \A p \in 1 .. Len(a) : \A q \in 1 .. Len(a[p].spans) : Earlier(p, q, i + 1, 1) <=> Earlier(p, q, i, k)
    <3> TAKE p \in 1 .. Len(a)
    <3> TAKE q \in 1 .. Len(a[p].spans)
    <3>1. p = i => q < k
      <4> SUFFICES ASSUME p = i PROVE q < k OBVIOUS
      <4>1. q \in 1 .. SpansAt(s) BY <1>3
      <4> QED BY <1>1, <1>6, <4>1 DEF k
    <3>2. ~(q < 1) OBVIOUS
    <3>3. p < i + 1 <=> p < i \/ p = i BY <1>1
    <3> QED BY <3>1, <3>2, <3>3 DEF Earlier
  <2>3. \A R \in Rects : From1(a, R, i + 1, 1) <=> From1(a, R, i, k) BY <2>2 DEF From1
  <2>4. \A R \in Rects : From1(a, R, i + 1, 1) <=> \E j \in 1 .. Len(s.out) : s.out[j] = R
    BY <1>5, <2>3
  <2>5. HandedOut(a, s.out, i + 1, 1) BY <1>4, <2>4 DEF HandedOut
  <2> QED BY <1>2, <2>1, <2>5 DEF t
<1>7. ASSUME k <= SpansAt(s) PROVE HandedOut(t.rows, t.out, t.i, t.k)
  <2> DEFINE span == SpanOf(s)
             T == RectAt(a, i, span)
  <2>1. t.i = i /\ t.k = k + 1 BY <1>7, AdvanceTurn
  <2>2. k \in 1 .. Len(a[i].spans) /\ span = a[i].spans[k] /\ span \in Span
    BY <1>7, IterWalkFields DEF SpansAt, SpanOf
  <2>3. T \in Rects BY <1>1, <2>2, RectAtFields
  <2>4. Continues(a, i, span) => t.out = s.out BY <1>7, AdvanceTurn
  <2>5. ~Continues(a, i, span) => t.out = Append(s.out, T) BY <1>7, AdvanceTurn
  <2>6. Start(a, i, k) <=> ~Continues(a, i, span) BY <2>2 DEF Start
  <2> HIDE DEF t, a, i, k, T, span
  <2>7. \A p \in 1 .. Len(a) : \A q \in 1 .. Len(a[p].spans) :
          Earlier(p, q, i, k + 1) <=> Earlier(p, q, i, k) \/ (p = i /\ q = k)
    <3> TAKE p \in 1 .. Len(a)
    <3> TAKE q \in 1 .. Len(a[p].spans)
    <3>1. q < k + 1 <=> q < k \/ q = k BY <1>1
    <3> QED BY <3>1 DEF Earlier
  <2>8. \A R \in Rects : From1(a, R, i, k + 1) <=> From1(a, R, i, k) \/ (Start(a, i, k) /\ R = T)
    <3> TAKE R \in Rects
    <3>1. ASSUME From1(a, R, i, k + 1) PROVE From1(a, R, i, k) \/ (Start(a, i, k) /\ R = T)
      <4>1. PICK p \in 1 .. Len(a) : \E q \in 1 .. Len(a[p].spans) :
              Start(a, p, q) /\ Earlier(p, q, i, k + 1) /\ R = RectAt(a, p, a[p].spans[q])
        BY <3>1 DEF From1
      <4>2. PICK q \in 1 .. Len(a[p].spans) :
              Start(a, p, q) /\ Earlier(p, q, i, k + 1) /\ R = RectAt(a, p, a[p].spans[q])
        BY <4>1
      <4>3. CASE Earlier(p, q, i, k) BY <4>2, <4>3 DEF From1
      <4>4. CASE p = i /\ q = k BY <2>2, <4>2, <4>4 DEF T
      <4> QED BY <2>7, <4>2, <4>3, <4>4
    <3>2. ASSUME From1(a, R, i, k) PROVE From1(a, R, i, k + 1) BY <2>7, <3>2 DEF From1
    <3>3. ASSUME Start(a, i, k), R = T PROVE From1(a, R, i, k + 1)
      <4>1. Earlier(i, k, i, k + 1) BY <1>1, <2>2, <2>7
      <4>2. R = RectAt(a, i, a[i].spans[k]) BY <2>2, <3>3 DEF T
      <4> QED BY <1>1, <2>2, <3>3, <4>1, <4>2 DEF From1
    <3> QED BY <3>1, <3>2, <3>3
  <2>9. CASE Continues(a, i, span)
    <3>1. \A R \in Rects : From1(a, R, i, k + 1) <=> \E j \in 1 .. Len(s.out) : s.out[j] = R
      BY <1>5, <2>6, <2>8, <2>9
    <3>2. HandedOut(a, s.out, i, k + 1) BY <1>4, <3>1 DEF HandedOut
    <3> QED BY <1>2, <2>1, <2>4, <2>9, <3>2
  <2>10. CASE ~Continues(a, i, span)
    <3>1. ASSUME NEW j \in 1 .. Len(s.out) PROVE Sooner(s.out[j], T)
      <4>1. s.out[j] \in Rects BY <1>1
      <4>2. From1(a, s.out[j], i, k) BY <1>5, <4>1
      <4>3. PICK p \in 1 .. Len(a) : \E q \in 1 .. Len(a[p].spans) :
              Start(a, p, q) /\ Earlier(p, q, i, k) /\ s.out[j] = RectAt(a, p, a[p].spans[q])
        BY <4>2 DEF From1
      <4>4. PICK q \in 1 .. Len(a[p].spans) :
              Earlier(p, q, i, k) /\ s.out[j] = RectAt(a, p, a[p].spans[q])
        BY <4>3
      <4>5. IsRegion(a) BY DEF a
      <4>6. Sooner(RectAt(a, p, a[p].spans[q]), RectAt(a, i, a[i].spans[k]))
        BY <1>1, <2>2, <4>4, <4>5, EarlierSooner
      <4> QED BY <2>2, <4>4, <4>6 DEF T
    <3> DEFINE new == Append(s.out, T)
    <3>2. /\ Sorted(new)
          /\ \A R : (\E j \in 1 .. Len(new) : new[j] = R) <=> (\E j \in 1 .. Len(s.out) : s.out[j] = R) \/ R = T
      BY <1>1, <1>4, <2>3, <3>1, SortedAppend
    <3> HIDE DEF new
    <3>3. \A R \in Rects : From1(a, R, i, k + 1) <=> \E j \in 1 .. Len(new) : new[j] = R
      BY <1>5, <2>6, <2>8, <2>10, <3>2
    <3>4. HandedOut(a, new, i, k + 1) BY <3>2, <3>3 DEF HandedOut
    <3>5. t.out = new BY <2>5, <2>10 DEF new
    <3> QED BY <1>2, <2>1, <3>4, <3>5
  <2> QED BY <2>9, <2>10
<1>8. k > SpansAt(s) \/ k <= SpansAt(s) BY <1>1
<1> QED BY <1>6, <1>7, <1>8

\* The iterator hands out the tiles of the region, each once, in order.
THEOREM IterateExact ==
  ASSUME NEW a \in Rows, IsRegion(a)
  PROVE  /\ Iterate(a) \in Seq(Rects) /\ Sorted(Iterate(a))
         /\ \A R \in Rects : Tile(a, R) <=> \E j \in 1 .. Len(Iterate(a)) : Iterate(a)[j] = R
<1> DEFINE I == {s \in IterWalk : s.rows = a /\ HandedOut(a, s.out, s.i, s.k)}
           P == {rects \in Seq(Rects) : /\ Sorted(rects)
                                        /\ \A R \in Rects : Tile(a, R) <=>
                                             \E j \in 1 .. Len(rects) : rects[j] = R}
           s0 == [rows |-> a, i |-> 1, k |-> 1, out |-> <<>>]
<1>1. s0 \in I
  <2>1. s0 \in IterWalk /\ s0.rows = a /\ s0.i = 1 /\ s0.k = 1 /\ s0.out = <<>>
    BY DEF IterWalk
  <2>2. Sorted(<<>>) BY DEF Sorted
  <2>3. \A p \in 1 .. Len(a) : \A q \in 1 .. Len(a[p].spans) : ~Earlier(p, q, 1, 1)
    <3> TAKE p \in 1 .. Len(a)
    <3> TAKE q \in 1 .. Len(a[p].spans)
    <3> QED BY DEF Earlier
  <2>4. HandedOut(a, <<>>, 1, 1) BY <2>2, <2>3 DEF HandedOut, From1
  <2> HIDE DEF s0
  <2> QED BY <2>1, <2>4
<1>2. ASSUME NEW s \in I, AtEnd(s) PROVE s.out \in P
  <2>1. s \in IterWalk /\ s.rows = a /\ HandedOut(a, s.out, s.i, s.k) OBVIOUS
  <2>2. s.i \in Nat /\ Len(a) \in Nat /\ s.i > Len(a) /\ s.out \in Seq(Rects)
    BY <1>2, <2>1, IterWalkFields DEF AtEnd
  <2>3. \A p \in 1 .. Len(a) : \A q \in 1 .. Len(a[p].spans) : Earlier(p, q, s.i, s.k)
    BY <2>2 DEF Earlier
  <2>4. ASSUME NEW R \in Rects PROVE From1(a, R, s.i, s.k) <=> Tile(a, R)
    <3>1. ASSUME From1(a, R, s.i, s.k) PROVE Tile(a, R)
      BY <3>1, RectAtIsTile DEF From1
    <3>2. ASSUME Tile(a, R) PROVE From1(a, R, s.i, s.k)
      BY <2>3, <3>2, TileHasStart DEF From1
    <3> QED BY <3>1, <3>2
  <2> QED BY <2>1, <2>2, <2>4 DEF HandedOut
<1>3. ASSUME NEW s \in I, ~AtEnd(s) PROVE Advance(s) \in I
  <2>1. s \in IterWalk /\ s.rows = a /\ HandedOut(a, s.out, s.i, s.k) OBVIOUS
  <2> DEFINE t == Advance(s)
  <2>2. t \in IterWalk /\ t.rows = s.rows BY <1>3, <2>1, AdvanceTurn
  <2>3. HandedOut(t.rows, t.out, t.i, t.k) BY <1>3, <2>1, AdvanceKeeps
  <2> HIDE DEF t
  <2>4. t \in I BY <2>1, <2>2, <2>3
  <2> QED BY <2>4 DEF t
<1>4. Iterating[s0] \in P
  <2>1. I \in SUBSET IterWalk OBVIOUS
  <2> HIDE DEF I, P, s0
  <2> QED BY <1>1, <1>2, <1>3, <2>1, IteratingInvariant, Zenon
<1> QED BY <1>4 DEF Iterate

\* So the rectangles have the pixels of the region, and no two have one in common.
THEOREM IteratePartition ==
  ASSUME NEW a \in Rows, IsRegion(a)
  PROVE  LET rects == Iterate(a) IN
         /\ rects \in Seq(Rects)
         /\ \A x, y \in Int : OnRects(rects, x, y) <=> On(a, x, y)
         /\ \A j, k \in 1 .. Len(rects) : j # k =>
              \A x, y \in Int : ~(InBox(rects[j], x, y) /\ InBox(rects[k], x, y))
<1> DEFINE rects == Iterate(a)
<1>1. /\ rects \in Seq(Rects) /\ Sorted(rects)
      /\ \A R \in Rects : Tile(a, R) <=> \E j \in 1 .. Len(rects) : rects[j] = R
  BY IterateExact
<1> HIDE DEF rects
<1>2. Len(rects) \in Nat /\ \A j \in 1 .. Len(rects) : rects[j] \in Rects /\ Tile(a, rects[j])
  BY <1>1
<1>3. ASSUME NEW x \in Int, NEW y \in Int PROVE OnRects(rects, x, y) <=> On(a, x, y)
  <2>1. ASSUME NEW j \in 1 .. Len(rects), InBox(rects[j], x, y) PROVE On(a, x, y)
    <3> DEFINE R == rects[j]
    <3>1. R \in Rects /\ Tile(a, R) BY <1>2
    <3>2. R.left <= x /\ x < R.right /\ R.top <= y /\ y < R.bottom BY <2>1 DEF InBox
    <3> HIDE DEF R
    <3>3. RunAt(a, R.left, R.right, y) BY <3>1, <3>2 DEF Tile
    <3> QED BY <3>2, <3>3 DEF RunAt
  <2>2. ASSUME On(a, x, y) PROVE \E j \in 1 .. Len(rects) : InBox(rects[j], x, y)
    <3>1. PICK R \in Rects : Tile(a, R) /\ InBox(R, x, y) BY <2>2, TilesCover
    <3>2. PICK j \in 1 .. Len(rects) : rects[j] = R BY <1>1, <3>1
    <3> QED BY <3>1, <3>2
  <2> QED BY <2>1, <2>2 DEF OnRects
<1>4. ASSUME NEW j \in 1 .. Len(rects), NEW k \in 1 .. Len(rects), j # k,
             NEW x \in Int, NEW y \in Int, InBox(rects[j], x, y), InBox(rects[k], x, y)
      PROVE  FALSE
  <2>1. rects[j] = rects[k] BY <1>2, <1>4, SameTile
  <2> DEFINE R == rects[j]
  <2>2. j < k \/ k < j BY <1>4
  <2>3. Sooner(R, R) BY <1>1, <2>1, <2>2 DEF Sorted
  <2>4. R.top \in Int /\ R.left \in Int BY <1>2, RectFields
  <2> HIDE DEF R
  <2> QED BY <2>3, <2>4 DEF Sooner
<1> QED BY <1>1, <1>3, <1>4 DEF rects

\* Two sequences in order with the same rectangles are the same.
LEMMA SortedSame ==
  ASSUME NEW s \in Seq(Rects), NEW t \in Seq(Rects), Sorted(s), Sorted(t),
         \A R \in Rects : (\E j \in 1 .. Len(s) : s[j] = R) <=> (\E j \in 1 .. Len(t) : t[j] = R)
  PROVE  s = t
<1>1. /\ Len(s) \in Nat /\ Len(t) \in Nat
      /\ \A j \in 1 .. Len(s) : s[j] \in Rects
      /\ \A j \in 1 .. Len(t) : t[j] \in Rects
  OBVIOUS
<1>2. \A R, T, U \in Rects : Sooner(R, T) /\ Sooner(T, U) => Sooner(R, U)
  <2> TAKE R, T, U \in Rects
  <2> DEFINE r1 == R.top
             r2 == R.left
             t1 == T.top
             t2 == T.left
             u1 == U.top
             u2 == U.left
  <2>1. r1 \in Int /\ r2 \in Int /\ t1 \in Int /\ t2 \in Int /\ u1 \in Int /\ u2 \in Int
    BY RectFields
  <2>2. (Sooner(R, T) <=> r1 < t1 \/ (r1 = t1 /\ r2 < t2)) /\ (Sooner(T, U) <=> t1 < u1 \/ (t1 = u1 /\ t2 < u2))
        /\ (Sooner(R, U) <=> r1 < u1 \/ (r1 = u1 /\ r2 < u2))
    BY DEF Sooner
  <2> HIDE DEF r1, r2, t1, t2, u1, u2
  <2> QED BY <2>1, <2>2
<1>3. \A R \in Rects : ~Sooner(R, R) BY RectFields DEF Sooner
<1>4. ASSUME NEW p \in Seq(Rects), NEW q \in Seq(Rects), Sorted(p), Sorted(q),
             \A R \in Rects : (\E j \in 1 .. Len(p) : p[j] = R) <=> (\E j \in 1 .. Len(q) : q[j] = R)
      PROVE  \A k \in 1 .. Len(p) : k \in 1 .. Len(q) /\ p[k] = q[k]
  <2>1. /\ Len(p) \in Nat /\ Len(q) \in Nat
        /\ \A j \in 1 .. Len(p) : p[j] \in Rects
        /\ \A j \in 1 .. Len(q) : q[j] \in Rects
    OBVIOUS
  <2> DEFINE T == {k \in 1 .. Len(p) : ~(k \in 1 .. Len(q) /\ p[k] = q[k])}
  <2> SUFFICES ASSUME T # {} PROVE FALSE OBVIOUS
  <2>2. PICK k \in T : \A j \in T : k <= j
    <3>1. T \in SUBSET Nat BY <2>1
    <3> HIDE DEF T
    <3> QED BY <3>1, LeastNat
  <2>3. k \in 1 .. Len(p) /\ ~(k \in 1 .. Len(q) /\ p[k] = q[k]) BY <2>2
  <2>4. \A j \in 1 .. Len(p) : j < k => j \in 1 .. Len(q) /\ p[j] = q[j]
    <3> TAKE j \in 1 .. Len(p)
    <3> HAVE j < k
    <3>1. j \notin T BY <2>1, <2>2, <2>3
    <3> QED BY <3>1
  <2> HIDE DEF T
  <2>5. \A j, m \in 1 .. Len(p) : j < m => Sooner(p[j], p[m]) BY <1>4 DEF Sorted
  <2>6. \A j, m \in 1 .. Len(q) : j < m => Sooner(q[j], q[m]) BY <1>4 DEF Sorted
  <2>7. PICK m \in 1 .. Len(q) : q[m] = p[k] BY <1>4, <2>1, <2>3
  <2>8. ~(m < k)
    <3> SUFFICES ASSUME m < k PROVE FALSE OBVIOUS
    <3>1. m \in 1 .. Len(p) BY <2>1, <2>3
    <3>2. p[m] = p[k] BY <2>4, <2>7, <3>1
    <3>3. Sooner(p[m], p[k]) BY <2>3, <2>5, <3>1
    <3> QED BY <1>3, <2>1, <2>3, <3>2, <3>3
  <2>9. m # k BY <2>3, <2>7
  <2>10. k \in 1 .. Len(q) /\ k < m BY <2>1, <2>3, <2>8, <2>9
  <2>11. Sooner(q[k], p[k]) BY <2>6, <2>7, <2>10
  <2>12. PICK n \in 1 .. Len(p) : p[n] = q[k] BY <1>4, <2>1, <2>10
  <2>13. ~(n < k)
    <3> SUFFICES ASSUME n < k PROVE FALSE OBVIOUS
    <3>1. n \in 1 .. Len(q) /\ p[n] = q[n] BY <2>4
    <3>2. Sooner(q[n], q[k]) BY <2>6, <2>10, <3>1
    <3>3. q[n] = q[k] BY <2>12, <3>1
    <3> QED BY <1>3, <2>1, <2>10, <3>2, <3>3
  <2>14. n # k BY <2>3, <2>10, <2>12
  <2>15. Sooner(p[k], p[n]) BY <2>1, <2>3, <2>5, <2>13, <2>14
  <2>16. Sooner(p[k], p[k]) BY <1>2, <2>1, <2>3, <2>10, <2>11, <2>12, <2>15
  <2> QED BY <1>3, <2>1, <2>3, <2>16
<1>5. \A k \in 1 .. Len(s) : k \in 1 .. Len(t) /\ s[k] = t[k] BY <1>4
<1>6. \A k \in 1 .. Len(t) : k \in 1 .. Len(s) /\ t[k] = s[k] BY <1>4
<1>7. Len(s) = Len(t)
  <2>1. Len(s) # 0 => Len(s) <= Len(t) BY <1>1, <1>5
  <2>2. Len(t) # 0 => Len(t) <= Len(s) BY <1>1, <1>6
  <2> QED BY <1>1, <2>1, <2>2
<1> QED BY <1>5, <1>7, SeqEqual

\* The rectangles depend on the pixels alone.
THEOREM IterateCanonical ==
  ASSUME NEW a \in Rows, NEW b \in Rows, IsRegion(a), IsRegion(b),
         \A x, y \in Int : On(a, x, y) <=> On(b, x, y)
  PROVE  Iterate(a) = Iterate(b)
<1>1. \A l, r, y \in Int : RunAt(a, l, r, y) <=> RunAt(b, l, r, y)
  <2> TAKE l, r, y \in Int
  <2>1. l - 1 \in Int OBVIOUS
  <2> QED BY <2>1 DEF RunAt
<1>2. ASSUME NEW R \in Rects PROVE Tile(a, R) <=> Tile(b, R)
  <2>1. R.left \in Int /\ R.top \in Int /\ R.right \in Int /\ R.bottom \in Int BY RectFields
  <2>2. R.top - 1 \in Int BY <2>1
  <2> QED BY <1>1, <2>1, <2>2 DEF Tile
<1>3. Iterate(a) \in Seq(Rects) /\ Sorted(Iterate(a)) BY IterateExact
<1>4. Iterate(b) \in Seq(Rects) /\ Sorted(Iterate(b)) BY IterateExact
<1>5. \A R \in Rects : (\E j \in 1 .. Len(Iterate(a)) : Iterate(a)[j] = R) <=>
                         (\E j \in 1 .. Len(Iterate(b)) : Iterate(b)[j] = R)
  BY <1>2, IterateExact
<1> QED BY <1>3, <1>4, <1>5, SortedSame

\* add_region adds the pixels of the other region.
THEOREM AddRegionExact ==
  ASSUME NEW a \in Rows, NEW b \in Rows, IsRegion(a), IsRegion(b)
  PROVE  /\ IsRegion(add_region(a, b))
         /\ \A x, y \in Int : On(add_region(a, b), x, y) <=> On(a, x, y) \/ On(b, x, y)
<1>1. Iterate(b) \in Seq(Rects) /\ \A x, y \in Int : OnRects(Iterate(b), x, y) <=> On(b, x, y)
  BY IteratePartition
<1> QED BY <1>1, AddRectsExact DEF add_region

-----------------------------------------------------------------------------
\* The grid of screen_capturer_helper.

\* Dividing by the size of the blocks.
LEMMA BlockDivision ==
  /\ BlockSize \in Nat \ {0}
  /\ \A x \in Int : /\ x \div BlockSize \in Int /\ x % BlockSize \in 0 .. BlockSize - 1
                    /\ x = BlockSize * (x \div BlockSize) + (x % BlockSize)
  /\ \A p, q \in Int : p < q => BlockSize * p + BlockSize <= BlockSize * q
  /\ \A p \in Int : BlockSize * p \in Int
<1>1. BlockSize \in Nat \ {0} BY RegionAssumption
<1>2. \A x \in Int : x \div BlockSize \in Int /\ x % BlockSize \in 0 .. BlockSize - 1 BY <1>1
<1>3. \A x \in Int : x = BlockSize * (x \div BlockSize) + (x % BlockSize) BY <1>1
<1>4. \A p, q \in Int : p < q => BlockSize * p + BlockSize <= BlockSize * q BY <1>1
<1>5. \A p \in Int : BlockSize * p \in Int BY <1>1
<1> QED BY <1>1, <1>2, <1>3, <1>4, <1>5

\* A number lies in the block it is divided into, and in no other.
LEMMA InBlock ==
  ASSUME NEW x \in Int, NEW q \in Int
  PROVE  x \div BlockSize = q <=> BlockSize * q <= x /\ x < BlockSize * q + BlockSize
<1> DEFINE B == BlockSize
           d == x \div B
           m == x % B
           bd == B * d
           bq == B * q
<1>1. B \in Nat \ {0} /\ d \in Int /\ m \in 0 .. B - 1 /\ x = bd + m /\ bd \in Int /\ bq \in Int
  BY BlockDivision
<1>2. (d < q => bd + B <= bq) /\ (q < d => bq + B <= bd) BY <1>1, BlockDivision
<1>3. d = q => bd = bq OBVIOUS
<1> HIDE DEF B, d, m, bd, bq
<1>4. d = q => bq <= x /\ x < bq + B BY <1>1, <1>3
<1>5. bq <= x /\ x < bq + B => ~(d < q) BY <1>1, <1>2
<1>6. bq <= x /\ x < bq + B => ~(q < d) BY <1>1, <1>2
<1>7. d = q <=> bq <= x /\ x < bq + B BY <1>1, <1>4, <1>5, <1>6
<1> QED BY <1>7 DEF B, d, bq

\* Down, in blocks.
LEMMA DownFacts ==
  ASSUME NEW x \in Int
  PROVE  /\ Down(x) = BlockSize * (x \div BlockSize) /\ Down(x) \in Int
         /\ Down(x) <= x /\ x < Down(x) + BlockSize
<1> DEFINE B == BlockSize
           m == x % B
           bd == B * (x \div B)
<1>1. B \in Nat \ {0} /\ m \in 0 .. B - 1 /\ x = bd + m /\ bd \in Int BY BlockDivision
<1>2. Down(x) = x - m BY DEF Down
<1> HIDE DEF B, m, bd
<1>3. Down(x) = bd /\ bd <= x /\ x < bd + B BY <1>1, <1>2
<1> QED BY <1>1, <1>3 DEF B, bd

\* The blocks from that of l up to that of r - 1 are those some number from l to r - 1 is in.
LEMMA GridFacts ==
  ASSUME NEW l \in Int, NEW r \in Int, l < r
  PROVE  /\ Down(l) \in Int /\ Up(r) \in Int
         /\ \A x \in Int : Down(l) <= x /\ x < Up(r) <=>
                             \E p \in Int : l <= p /\ p < r /\ Down(p) = Down(x)
<1> DEFINE B == BlockSize
           Q(x) == x \div B
<1>1. B \in Nat \ {0} BY BlockDivision
<1>2. \A x \in Int : Q(x) \in Int /\ B * Q(x) \in Int BY BlockDivision
<1>3. \A x \in Int : Down(x) = B * Q(x) /\ Down(x) \in Int /\ Down(x) <= x /\ x < Down(x) + B BY DownFacts
<1>4. \A x, y \in Int : Q(x) < Q(y) => Down(x) + B <= Down(y)
  <2> TAKE x, y \in Int
  <2> HAVE Q(x) < Q(y)
  <2> DEFINE p == Q(x)
             q == Q(y)
  <2>1. p \in Int /\ q \in Int /\ p < q /\ Down(x) = B * p /\ Down(y) = B * q BY <1>2, <1>3
  <2> HIDE DEF p, q
  <2>2. B * p + B <= B * q BY <2>1, BlockDivision
  <2> QED BY <2>1, <2>2
<1>5. \A x, q \in Int : Q(x) = q <=> B * q <= x /\ x < B * q + B BY InBlock
<1>6. Up(r) = Down(r + B - 1) BY DEF Up
<1> HIDE DEF B, Q
<1>7. \A x, y \in Int : Q(x) = Q(y) <=> Down(x) = Down(y)
  <2> TAKE x, y \in Int
  <2>1. Q(x) = Q(y) => Down(x) = Down(y) BY <1>3
  <2>2. Q(x) < Q(y) => Down(x) # Down(y) BY <1>1, <1>3, <1>4
  <2>3. Q(y) < Q(x) => Down(x) # Down(y) BY <1>1, <1>3, <1>4
  <2> QED BY <1>2, <2>1, <2>2, <2>3
<1>8. \A x, y \in Int : x <= y => Down(x) <= Down(y)
  <2> TAKE x, y \in Int
  <2> HAVE x <= y
  <2>1. ~(Q(y) < Q(x))
    <3>1. Q(y) < Q(x) => Down(y) + B <= Down(x) BY <1>4
    <3>2. Down(x) <= x /\ y < Down(y) + B /\ Down(x) \in Int /\ Down(y) \in Int BY <1>3
    <3> DEFINE u == Down(x)
               v == Down(y)
    <3> HIDE DEF u, v
    <3>3. (Q(y) < Q(x) => v + B <= u) /\ u <= x /\ y < v + B /\ u \in Int /\ v \in Int
      BY <3>1, <3>2 DEF u, v
    <3> QED BY <1>1, <3>3
  <2>2. Q(x) = Q(y) => Down(x) = Down(y) BY <1>7
  <2>3. Q(x) < Q(y) => Down(x) + B <= Down(y) BY <1>4
  <2>4. Q(x) = Q(y) \/ Q(x) < Q(y) BY <1>2, <2>1
  <2>5. Down(x) \in Int /\ Down(y) \in Int BY <1>3
  <2> DEFINE u == Down(x)
             v == Down(y)
  <2> HIDE DEF u, v
  <2>6. u \in Int /\ v \in Int /\ (u = v \/ u + B <= v) BY <2>2, <2>3, <2>4, <2>5 DEF u, v
  <2>7. u <= v BY <1>1, <2>6
  <2> QED BY <2>7 DEF u, v
<1>9. \A x, y \in Int : Down(x) <= y /\ y < Down(x) + B => Down(y) = Down(x)
  <2> TAKE x, y \in Int
  <2> HAVE Down(x) <= y /\ y < Down(x) + B
  <2>1. Q(y) = Q(x) BY <1>2, <1>3, <1>5
  <2> QED BY <1>7, <2>1
<1>10. r + B - 1 \in Int /\ r - 1 \in Int BY <1>1
<1> DEFINE u == Down(l)
           v == Up(r)
           w == Down(r - 1)
<1>11. u \in Int /\ v \in Int /\ w \in Int /\ u <= l /\ l < u + B /\ w <= r - 1 /\ r - 1 < w + B
  BY <1>3, <1>6, <1>10
<1>12. v = w + B
  <2>1. v <= r + B - 1 /\ r + B - 1 < v + B BY <1>3, <1>6, <1>10
  <2> DEFINE c == B * (Q(r - 1) + 1)
  <2>2. c = w + B BY <1>1, <1>2, <1>3, <1>10
  <2>3. Q(r - 1) + 1 \in Int BY <1>2, <1>10
  <2>4. c <= r + B - 1 /\ r + B - 1 < c + B
    <3> HIDE DEF c, w
    <3> QED BY <1>1, <1>11, <2>2
  <2>5. Q(r + B - 1) = Q(r - 1) + 1 BY <1>5, <1>10, <2>3, <2>4
  <2>6. v = c BY <1>3, <1>6, <1>10, <2>5
  <2> QED BY <2>2, <2>6
<1>13. ASSUME NEW x \in Int, u <= x, x < v PROVE \E p \in Int : l <= p /\ p < r /\ Down(p) = Down(x)
  <2> DEFINE d == Down(x)
  <2>1. d \in Int /\ d <= x /\ x < d + B BY <1>3
  <2>2. CASE d <= l
    <3>1. u <= l /\ l < u + B BY <1>11
    <3>2. l < d + B
      <4> SUFFICES ASSUME d + B <= l PROVE FALSE
        <5> HIDE DEF d
        <5> QED BY <1>1, <2>1
      <4>1. Q(x) < Q(l)
        <5>1. d < u
          <6> HIDE DEF d, u
          <6> QED BY <1>1, <1>11, <2>1, <3>1
        <5>2. Q(l) < Q(x) => Down(l) + B <= Down(x) BY <1>4
        <5>3. Q(l) = Q(x) => Down(l) = Down(x) BY <1>7
        <5>4. ~(Q(l) < Q(x)) /\ Q(l) # Q(x)
          <6>1. (Q(l) < Q(x) => u + B <= d) /\ (Q(l) = Q(x) => u = d) BY <5>2, <5>3
          <6> HIDE DEF d, u
          <6> QED BY <1>1, <1>11, <2>1, <5>1, <6>1
        <5> QED BY <1>2, <5>4
      <4>2. d + B <= u BY <1>4, <4>1
      <4> HIDE DEF d, u
      <4> QED BY <1>1, <1>11, <1>13, <2>1, <4>2
    <3>3. Down(l) = d BY <1>9, <2>1, <2>2, <3>2
    <3> QED BY <3>3
  <2>3. CASE l < d
    <3>1. Down(d) = d
      <4>1. d <= d /\ d < d + B
        <5> HIDE DEF d
        <5> QED BY <1>1, <2>1
      <4> QED BY <1>9, <2>1, <4>1
    <3>2. d <= w
      <4>1. Q(r - 1) < Q(x) => w + B <= d BY <1>4, <1>10
      <4>2. Q(r - 1) = Q(x) => w = d BY <1>7, <1>10
      <4>3. Q(x) < Q(r - 1) => d + B <= w BY <1>4, <1>10
      <4>4. Q(r - 1) < Q(x) \/ Q(r - 1) = Q(x) \/ Q(x) < Q(r - 1) BY <1>2, <1>10
      <4>5. d < w + B
        <5> HIDE DEF d, w, v
        <5> QED BY <1>1, <1>11, <1>12, <1>13, <2>1
      <4> HIDE DEF d, w
      <4> QED BY <1>1, <1>11, <2>1, <4>1, <4>2, <4>3, <4>4, <4>5
    <3>3. d < r
      <4> HIDE DEF d, w
      <4> QED BY <1>11, <2>1, <3>2
    <3>4. l <= d
      <4> HIDE DEF d
      <4> QED BY <2>1, <2>3
    <3> QED BY <2>1, <3>1, <3>3, <3>4
  <2>4. d <= l \/ l < d
    <3> HIDE DEF d
    <3> QED BY <2>1
  <2> QED BY <2>2, <2>3, <2>4
<1>14. ASSUME NEW x \in Int, NEW p \in Int, l <= p, p < r, Down(p) = Down(x) PROVE u <= x /\ x < v
  <2>1. u <= Down(p) BY <1>8, <1>14
  <2>2. p <= r - 1 BY <1>14
  <2>3. Down(p) <= w BY <1>8, <1>10, <2>2
  <2> DEFINE d == Down(x)
  <2>4. d \in Int /\ d <= x /\ x < d + B /\ u <= d /\ d <= w BY <1>3, <1>14, <2>1, <2>3
  <2> HIDE DEF d, u, v, w
  <2> QED BY <1>1, <1>11, <1>12, <2>4
<1> QED BY <1>11, <1>13, <1>14

\* The rectangles the iterator hands out are not empty.
LEMMA IterateRects ==
  ASSUME NEW a \in Rows, IsRegion(a)
  PROVE  LET rects == Iterate(a) IN
         /\ rects \in Seq(Rects) /\ Len(rects) \in Nat /\ DOMAIN rects = 1 .. Len(rects)
         /\ \A k \in 1 .. Len(rects) :
              /\ rects[k] \in Rects
              /\ rects[k].left \in Int /\ rects[k].top \in Int
              /\ rects[k].right \in Int /\ rects[k].bottom \in Int
              /\ rects[k].left < rects[k].right /\ rects[k].top < rects[k].bottom
         /\ \A x, y \in Int : (\E k \in 1 .. Len(rects) : InBox(rects[k], x, y)) <=> On(a, x, y)
<1> DEFINE rects == Iterate(a)
<1>1. /\ rects \in Seq(Rects)
      /\ \A R \in Rects : Tile(a, R) <=> \E j \in 1 .. Len(rects) : rects[j] = R
  BY IterateExact
<1>2. \A x, y \in Int : (\E k \in 1 .. Len(rects) : InBox(rects[k], x, y)) <=> On(a, x, y)
  BY IteratePartition DEF OnRects
<1> HIDE DEF rects
<1>3. Len(rects) \in Nat /\ DOMAIN rects = 1 .. Len(rects) /\ \A k \in 1 .. Len(rects) : rects[k] \in Rects
  BY <1>1
<1>4. \A k \in 1 .. Len(rects) : Tile(a, rects[k]) BY <1>1, <1>3
<1>5. \A k \in 1 .. Len(rects) : rects[k].left < rects[k].right /\ rects[k].top < rects[k].bottom
  BY <1>4 DEF Tile
<1>6. \A k \in 1 .. Len(rects) : /\ rects[k].left \in Int /\ rects[k].top \in Int
                                 /\ rects[k].right \in Int /\ rects[k].bottom \in Int
  BY <1>3, RectFields
<1> QED BY <1>1, <1>2, <1>3, <1>5, <1>6 DEF rects

\* expand_to_grid covers the cells of the grid in which the region has a pixel.
THEOREM ExpandExact ==
  ASSUME NEW a \in Rows, IsRegion(a)
  PROVE  /\ IsRegion(expand_to_grid(a))
         /\ \A x, y \in Int : On(expand_to_grid(a), x, y) <=>
              \E p, q \in Int : On(a, p, q) /\ Down(p) = Down(x) /\ Down(q) = Down(y)
<1> DEFINE rects == Iterate(a)
           n == Len(rects)
           wide(k) == make_ltrb(Down(rects[k].left), Down(rects[k].top),
                                Up(rects[k].right), Up(rects[k].bottom))
           new == [k \in DOMAIN rects |-> wide(k)]
<1>1. /\ n \in Nat /\ DOMAIN rects = 1 .. n
      /\ \A k \in 1 .. n : /\ rects[k].left \in Int /\ rects[k].top \in Int
                           /\ rects[k].right \in Int /\ rects[k].bottom \in Int
                           /\ rects[k].left < rects[k].right /\ rects[k].top < rects[k].bottom
      /\ \A x, y \in Int : (\E k \in 1 .. n : InBox(rects[k], x, y)) <=> On(a, x, y)
  BY IterateRects
<1>2. expand_to_grid(a) = add_rects(<<>>, new) BY DEF expand_to_grid
<1> HIDE DEF rects, n
<1>3. ASSUME NEW k \in 1 .. n
      PROVE  /\ wide(k) \in Rects
             /\ \A x, y \in Int : InBox(wide(k), x, y) <=>
                  \E p, q \in Int : InBox(rects[k], p, q) /\ Down(p) = Down(x) /\ Down(q) = Down(y)
  <2> DEFINE l == rects[k].left
             t == rects[k].top
             r == rects[k].right
             b == rects[k].bottom
  <2>1. l \in Int /\ t \in Int /\ r \in Int /\ b \in Int /\ l < r /\ t < b BY <1>1
  <2>2. \A x, y \in Int : InBox(rects[k], x, y) <=> l <= x /\ x < r /\ t <= y /\ y < b BY DEF InBox
  <2>3. wide(k) = make_ltrb(Down(l), Down(t), Up(r), Up(b)) OBVIOUS
  <2> HIDE DEF l, t, r, b, wide
  <2>4. /\ Down(l) \in Int /\ Up(r) \in Int
        /\ \A x \in Int : Down(l) <= x /\ x < Up(r) <=> \E p \in Int : l <= p /\ p < r /\ Down(p) = Down(x)
    BY <2>1, GridFacts
  <2>5. /\ Down(t) \in Int /\ Up(b) \in Int
        /\ \A x \in Int : Down(t) <= x /\ x < Up(b) <=> \E p \in Int : t <= p /\ p < b /\ Down(p) = Down(x)
    BY <2>1, GridFacts
  <2>6. /\ wide(k) \in Rects
        /\ \A x, y \in Int : InBox(wide(k), x, y) <=> Down(l) <= x /\ x < Up(r) /\ Down(t) <= y /\ y < Up(b)
    <3> DEFINE u == Down(l)
               v == Down(t)
               c == Up(r)
               d == Up(b)
    <3>1. u \in Int /\ v \in Int /\ c \in Int /\ d \in Int BY <2>4, <2>5
    <3>2. wide(k) = make_ltrb(u, v, c, d) BY <2>3
    <3> HIDE DEF u, v, c, d
    <3>3. /\ wide(k) \in Rects
          /\ \A x, y \in Int : InBox(wide(k), x, y) <=> u <= x /\ x < c /\ v <= y /\ y < d
      BY <3>1, <3>2 DEF make_ltrb, Rects, InBox
    <3> QED BY <3>3 DEF u, v, c, d
  <2>7. ASSUME NEW x \in Int, NEW y \in Int
        PROVE  InBox(wide(k), x, y) <=>
                 \E p, q \in Int : InBox(rects[k], p, q) /\ Down(p) = Down(x) /\ Down(q) = Down(y)
    <3>1. InBox(wide(k), x, y) <=> /\ \E p \in Int : l <= p /\ p < r /\ Down(p) = Down(x)
                                   /\ \E q \in Int : t <= q /\ q < b /\ Down(q) = Down(y)
      BY <2>4, <2>5, <2>6
    <3> QED BY <2>2, <3>1
  <2> QED BY <2>6, <2>7
<1>4. new = [k \in 1 .. n |-> wide(k)] BY <1>1
<1> HIDE DEF wide, new
<1>5. new \in Seq(Rects) /\ Len(new) = n /\ \A k \in 1 .. n : new[k] = wide(k)
  <2>1. \A k \in 1 .. n : wide(k) \in Rects BY <1>3
  <2>2. new \in [1 .. n -> Rects] BY <1>4, <2>1
  <2> QED BY <1>1, <1>4, <2>2
<1>6. \A x, y \in Int : OnRects(new, x, y) <=>
        \E p, q \in Int : On(a, p, q) /\ Down(p) = Down(x) /\ Down(q) = Down(y)
  <2> TAKE x, y \in Int
  <2>1. OnRects(new, x, y) <=> \E k \in 1 .. n : InBox(wide(k), x, y) BY <1>5 DEF OnRects
  <2>2. OnRects(new, x, y) <=> \E k \in 1 .. n : \E p, q \in Int :
          InBox(rects[k], p, q) /\ Down(p) = Down(x) /\ Down(q) = Down(y)
    <3>1. \A k \in 1 .. n : InBox(wide(k), x, y) <=>
            \E p, q \in Int : InBox(rects[k], p, q) /\ Down(p) = Down(x) /\ Down(q) = Down(y)
      <4> TAKE k \in 1 .. n
      <4>1. \A u, v \in Int : InBox(wide(k), u, v) <=>
              \E p, q \in Int : InBox(rects[k], p, q) /\ Down(p) = Down(u) /\ Down(q) = Down(v)
        BY <1>3
      <4> QED BY <4>1
    <3> QED BY <2>1, <3>1
  <2> QED BY <1>1, <2>2
<1>7. /\ IsRegion(add_rects(<<>>, new))
      /\ \A x, y \in Int : On(add_rects(<<>>, new), x, y) <=> On(<<>>, x, y) \/ OnRects(new, x, y)
  BY <1>5, NoRows, AddRectsExact
<1>8. \A x, y \in Int : ~On(<<>>, x, y) BY NoRows
<1> QED BY <1>2, <1>6, <1>7, <1>8

\* The pixels of the screen.
LEMMA ScreenExact ==
  ASSUME NEW z \in Sizes
  PROVE  /\ z[1] \in Nat \ {0} /\ z[2] \in Nat \ {0} /\ z = <<z[1], z[2]>>
         /\ make_size(z) \in Rects
         /\ \A x, y \in Int : InBox(make_size(z), x, y) <=> 0 <= x /\ x < z[1] /\ 0 <= y /\ y < z[2]
         /\ \A x, y \in Int : <<x, y>> \in Cells(z) <=> 0 <= x /\ x < z[1] /\ 0 <= y /\ y < z[2]
         /\ Cells(z) \subseteq Int \X Int
<1>1. z \in (Nat \ {0}) \X (Nat \ {0}) BY RegionAssumption
<1>2. z[1] \in Nat \ {0} /\ z[2] \in Nat \ {0} /\ z = <<z[1], z[2]>> BY <1>1
<1> DEFINE w == z[1]
           h == z[2]
<1>3. make_size(z) = make_ltrb(0, 0, w, h) BY DEF make_size
<1>4. Cells(z) = (0 .. w - 1) \X (0 .. h - 1) BY DEF Cells
<1> HIDE DEF w, h
<1>5. w \in Int /\ h \in Int BY <1>2 DEF w, h
<1>6. /\ make_size(z) \in Rects
      /\ \A x, y \in Int : InBox(make_size(z), x, y) <=> 0 <= x /\ x < w /\ 0 <= y /\ y < h
  <2> DEFINE R == make_size(z)
  <2> HIDE DEF R
  <2>1. R = make_ltrb(0, 0, w, h) BY <1>3 DEF R
  <2>2. R \in Rects /\ \A x, y \in Int : InBox(R, x, y) <=> 0 <= x /\ x < w /\ 0 <= y /\ y < h
    BY <1>5, <2>1 DEF make_ltrb, Rects, InBox
  <2> QED BY <2>2 DEF R
<1>7. (0 .. w - 1) \X (0 .. h - 1) \subseteq Int \X Int OBVIOUS
<1>8. \A x, y \in Int : <<x, y>> \in (0 .. w - 1) \X (0 .. h - 1) <=> 0 <= x /\ x < w /\ 0 <= y /\ y < h
  BY <1>5
<1> QED BY <1>2, <1>4, <1>6, <1>7, <1>8 DEF w, h

\* take_invalid_region covers the cells of the grid in which the region has a pixel, as
\* far as they are on the screen.
THEOREM TakeInvalidExact ==
  ASSUME NEW a \in Rows, IsRegion(a), NEW z \in Sizes
  PROVE  /\ IsRegion(take_invalid_region(a, z))
         /\ \A x, y \in Int : On(take_invalid_region(a, z), x, y) <=>
              /\ <<x, y>> \in Cells(z)
              /\ \E p, q \in Int : On(a, p, q) /\ Down(p) = Down(x) /\ Down(q) = Down(y)
<1> DEFINE g == expand_to_grid(a)
           s == add_rect(<<>>, make_size(z))
<1>1. /\ IsRegion(g)
      /\ \A x, y \in Int : On(g, x, y) <=>
           \E p, q \in Int : On(a, p, q) /\ Down(p) = Down(x) /\ Down(q) = Down(y)
  BY ExpandExact
<1>2. IsRegion(s) /\ \A x, y \in Int : On(s, x, y) <=> <<x, y>> \in Cells(z)
  BY ScreenExact, NoRows, AddRectExact
<1> HIDE DEF g, s
<1>3. g \in Rows /\ s \in Rows BY <1>1, <1>2 DEF IsRegion
<1>4. take_invalid_region(a, z) = intersect(g, s) BY DEF take_invalid_region, g, s
<1> QED BY <1>1, <1>2, <1>3, <1>4, IntersectExact

-----------------------------------------------------------------------------
\* desktop_frame_rotation

\* The pixel that comes to lie on (x, y).
BackX(x, y, z, rot) == CASE rot = 0 -> x
                         [] rot = 1 -> y
                         [] rot = 2 -> z[1] - 1 - x
                         [] rot = 3 -> z[1] - 1 - y
BackY(x, y, z, rot) == CASE rot = 0 -> y
                         [] rot = 1 -> z[2] - 1 - x
                         [] rot = 2 -> z[2] - 1 - y
                         [] rot = 3 -> x

\* A turn and the turn back.
LEMMA TurnedBack ==
  ASSUME NEW z \in Sizes, NEW rot \in 0 .. 3, NEW x \in Int, NEW y \in Int
  PROVE  /\ BackX(x, y, z, rot) \in Int /\ BackY(x, y, z, rot) \in Int
         /\ \A c \in Int \X Int : /\ Turned(c, z, rot) \in Int \X Int
                                  /\ Turned(c, z, rot) = <<x, y>> <=>
                                       c = <<BackX(x, y, z, rot), BackY(x, y, z, rot)>>
<1>1. z[1] \in Int /\ z[2] \in Int BY ScreenExact
<1> DEFINE w == z[1]
           h == z[2]
<1>2. rot = 0 \/ rot = 1 \/ rot = 2 \/ rot = 3 OBVIOUS
<1>3. SUFFICES ASSUME NEW c \in Int \X Int
               PROVE  /\ BackX(x, y, z, rot) \in Int /\ BackY(x, y, z, rot) \in Int
                      /\ Turned(c, z, rot) \in Int \X Int
                      /\ Turned(c, z, rot) = <<x, y>> <=> c = <<BackX(x, y, z, rot), BackY(x, y, z, rot)>>
  <2>1. <<0, 0>> \in Int \X Int OBVIOUS
  <2> QED BY <2>1
<1> DEFINE p == c[1]
           q == c[2]
<1>4. p \in Int /\ q \in Int /\ c = <<p, q>> OBVIOUS
<1>5. CASE rot = 0
  <2>1. Turned(c, z, rot) = c BY <1>5 DEF Turned
  <2>2. BackX(x, y, z, rot) = x /\ BackY(x, y, z, rot) = y BY <1>5 DEF BackX, BackY
  <2> QED BY <2>1, <2>2
<1>6. CASE rot = 1
  <2>1. Turned(c, z, rot) = <<h - 1 - q, p>> BY <1>6 DEF Turned
  <2>2. BackX(x, y, z, rot) = y /\ BackY(x, y, z, rot) = h - 1 - x BY <1>6 DEF BackX, BackY
  <2> HIDE DEF w, h, p, q
  <2>3. h \in Int BY <1>1 DEF h
  <2>4. h - 1 - q \in Int /\ h - 1 - x \in Int /\ (h - 1 - q = x <=> q = h - 1 - x) BY <1>4, <2>3
  <2> QED BY <1>4, <2>1, <2>2, <2>4
<1>7. CASE rot = 2
  <2>1. Turned(c, z, rot) = <<w - 1 - p, h - 1 - q>> BY <1>7 DEF Turned
  <2>2. BackX(x, y, z, rot) = w - 1 - x /\ BackY(x, y, z, rot) = h - 1 - y BY <1>7 DEF BackX, BackY
  <2> HIDE DEF w, h, p, q
  <2>3. w \in Int /\ h \in Int BY <1>1 DEF w, h
  <2>4. h - 1 - q \in Int /\ h - 1 - y \in Int /\ (h - 1 - q = y <=> q = h - 1 - y) BY <1>4, <2>3
  <2>5. w - 1 - p \in Int /\ w - 1 - x \in Int /\ (w - 1 - p = x <=> p = w - 1 - x) BY <1>4, <2>3
  <2> QED BY <1>4, <2>1, <2>2, <2>4, <2>5
<1>8. CASE rot = 3
  <2>1. Turned(c, z, rot) = <<q, w - 1 - p>> BY <1>8 DEF Turned
  <2>2. BackX(x, y, z, rot) = w - 1 - y /\ BackY(x, y, z, rot) = x BY <1>8 DEF BackX, BackY
  <2> HIDE DEF w, h, p, q
  <2>3. w \in Int BY <1>1 DEF w
  <2>4. w - 1 - p \in Int /\ w - 1 - y \in Int /\ (w - 1 - p = y <=> p = w - 1 - y) BY <1>4, <2>3
  <2> QED BY <1>4, <2>1, <2>2, <2>4
<1> QED BY <1>2, <1>5, <1>6, <1>7, <1>8

\* rotate_rect turns the pixels of the rectangle.
LEMMA RotateRectExact ==
  ASSUME NEW z \in Sizes, NEW rot \in 0 .. 3, NEW R \in Rects
  PROVE  /\ rotate_rect(R, z, rot) \in Rects
         /\ \A x, y \in Int : InBox(rotate_rect(R, z, rot), x, y) <=>
                                InBox(R, BackX(x, y, z, rot), BackY(x, y, z, rot))
<1> DEFINE zw == z[1]
           zh == z[2]
           l == R.left
           t == R.top
           r == R.right
           b == R.bottom
<1>1. /\ zw \in Int /\ zh \in Int /\ l \in Int /\ t \in Int /\ r \in Int /\ b \in Int
  BY ScreenExact, RectFields
<1>2. \A x, y \in Int : InBox(R, x, y) <=> l <= x /\ x < r /\ t <= y /\ y < b BY DEF InBox
<1>3. rot = 0 \/ rot = 1 \/ rot = 2 \/ rot = 3 OBVIOUS
<1>4. \A x, y \in Int : BackX(x, y, z, rot) \in Int /\ BackY(x, y, z, rot) \in Int
  <2> TAKE x, y \in Int
  <2> QED BY TurnedBack
<1> DEFINE T == rotate_rect(R, z, rot)
<1>5. CASE rot = 0
  <2>1. T = R BY <1>5 DEF rotate_rect
  <2>2. \A x, y \in Int : BackX(x, y, z, rot) = x /\ BackY(x, y, z, rot) = y BY <1>5 DEF BackX, BackY
  <2> QED BY <2>1, <2>2
<1>6. CASE rot = 1
  <2> DEFINE u == zh - b
             v == l
             c == zh - b + (b - t)
             d == l + (r - l)
  <2>1. T = make_ltrb(u, v, c, d) BY <1>6 DEF rotate_rect, make_xywh
  <2>2. \A x, y \in Int : BackX(x, y, z, rot) = y /\ BackY(x, y, z, rot) = zh - 1 - x
    BY <1>6 DEF BackX, BackY
  <2> HIDE DEF T, zw, zh, l, t, r, b
  <2>3. u \in Int /\ v \in Int /\ c \in Int /\ d \in Int /\ c = zh - t /\ d = r BY <1>1
  <2>5. \A x \in Int : u <= x /\ x < c <=> t <= zh - 1 - x /\ zh - 1 - x < b BY <1>1, <2>3
  <2>4. T = make_ltrb(u, v, c, d) /\ u \in Int /\ v \in Int /\ c \in Int /\ d \in Int BY <2>1, <2>3
  <2> HIDE DEF u, v, c, d
  <2>8. T \in Rects /\ \A x, y \in Int : InBox(T, x, y) <=> u <= x /\ x < c /\ v <= y /\ y < d
    BY <2>4 DEF make_ltrb, Rects, InBox
  <2>6. \A x, y \in Int : InBox(T, x, y) <=> InBox(R, y, zh - 1 - x)
    <3> TAKE x, y \in Int
    <3>1. zh - 1 - x \in Int BY <1>1
    <3>2. InBox(R, y, zh - 1 - x) <=> l <= y /\ y < r /\ t <= zh - 1 - x /\ zh - 1 - x < b
      BY <1>2, <3>1
    <3> QED BY <2>3, <2>5, <2>8, <3>2 DEF v
  <2> QED BY <2>2, <2>6, <2>8 DEF T
<1>7. CASE rot = 2
  <2> DEFINE u == zw - r
             v == zh - b
             c == zw - r + (r - l)
             d == zh - b + (b - t)
  <2>1. T = make_ltrb(u, v, c, d) BY <1>7 DEF rotate_rect, make_xywh
  <2>2. \A x, y \in Int : BackX(x, y, z, rot) = zw - 1 - x /\ BackY(x, y, z, rot) = zh - 1 - y
    BY <1>7 DEF BackX, BackY
  <2> HIDE DEF T, zw, zh, l, t, r, b
  <2>3. u \in Int /\ v \in Int /\ c \in Int /\ d \in Int /\ c = zw - l /\ d = zh - t BY <1>1
  <2>5. \A x \in Int : u <= x /\ x < c <=> l <= zw - 1 - x /\ zw - 1 - x < r BY <1>1, <2>3
  <2>6. \A y \in Int : v <= y /\ y < d <=> t <= zh - 1 - y /\ zh - 1 - y < b BY <1>1, <2>3
  <2>4. T = make_ltrb(u, v, c, d) /\ u \in Int /\ v \in Int /\ c \in Int /\ d \in Int BY <2>1, <2>3
  <2> HIDE DEF u, v, c, d
  <2>8. T \in Rects /\ \A x, y \in Int : InBox(T, x, y) <=> u <= x /\ x < c /\ v <= y /\ y < d
    BY <2>4 DEF make_ltrb, Rects, InBox
  <2>7. \A x, y \in Int : InBox(T, x, y) <=> InBox(R, zw - 1 - x, zh - 1 - y)
    <3> TAKE x, y \in Int
    <3> DEFINE m == zw - 1 - x
               n == zh - 1 - y
    <3>1. m \in Int /\ n \in Int BY <1>1
    <3>2. InBox(R, m, n) <=> l <= m /\ m < r /\ t <= n /\ n < b
      <4> HIDE DEF m, n
      <4> QED BY <1>2, <3>1
    <3> QED BY <2>5, <2>6, <2>8, <3>2
  <2> QED BY <2>2, <2>7, <2>8 DEF T
<1>8. CASE rot = 3
  <2> DEFINE u == t
             v == zw - r
             c == t + (b - t)
             d == zw - r + (r - l)
  <2>1. T = make_ltrb(u, v, c, d) BY <1>8 DEF rotate_rect, make_xywh
  <2>2. \A x, y \in Int : BackX(x, y, z, rot) = zw - 1 - y /\ BackY(x, y, z, rot) = x
    BY <1>8 DEF BackX, BackY
  <2> HIDE DEF T, zw, zh, l, t, r, b
  <2>3. u \in Int /\ v \in Int /\ c \in Int /\ d \in Int /\ c = b /\ d = zw - l BY <1>1
  <2>5. \A y \in Int : v <= y /\ y < d <=> l <= zw - 1 - y /\ zw - 1 - y < r BY <1>1, <2>3
  <2>4. T = make_ltrb(u, v, c, d) /\ u \in Int /\ v \in Int /\ c \in Int /\ d \in Int BY <2>1, <2>3
  <2> HIDE DEF u, v, c, d
  <2>8. T \in Rects /\ \A x, y \in Int : InBox(T, x, y) <=> u <= x /\ x < c /\ v <= y /\ y < d
    BY <2>4 DEF make_ltrb, Rects, InBox
  <2>6. \A x, y \in Int : InBox(T, x, y) <=> InBox(R, zw - 1 - y, x)
    <3> TAKE x, y \in Int
    <3>1. zw - 1 - y \in Int BY <1>1
    <3>2. InBox(R, zw - 1 - y, x) <=> l <= zw - 1 - y /\ zw - 1 - y < r /\ t <= x /\ x < b
      BY <1>2, <3>1
    <3> QED BY <2>3, <2>5, <2>8, <3>2 DEF u
  <2> QED BY <2>2, <2>6, <2>8 DEF T
<1> QED BY <1>3, <1>5, <1>6, <1>7, <1>8

\* A rotated region has the pixels that come to lie where it is.
THEOREM RotateExact ==
  ASSUME NEW a \in Rows, IsRegion(a), NEW z \in Sizes, NEW rot \in 0 .. 3
  PROVE  LET rects == Iterate(a)
             new == add_rects(<<>>, [k \in DOMAIN rects |-> rotate_rect(rects[k], z, rot)]) IN
         /\ IsRegion(new)
         /\ \A x, y \in Int : On(new, x, y) <=> On(a, BackX(x, y, z, rot), BackY(x, y, z, rot))
<1> DEFINE rects == Iterate(a)
           n == Len(rects)
           turned == [k \in DOMAIN rects |-> rotate_rect(rects[k], z, rot)]
<1>1. /\ n \in Nat /\ DOMAIN rects = 1 .. n /\ \A k \in 1 .. n : rects[k] \in Rects
      /\ \A x, y \in Int : (\E k \in 1 .. n : InBox(rects[k], x, y)) <=> On(a, x, y)
  BY IterateRects
<1> HIDE DEF rects, n
<1>2. turned = [k \in 1 .. n |-> rotate_rect(rects[k], z, rot)] BY <1>1
<1>3. \A k \in 1 .. n : /\ rotate_rect(rects[k], z, rot) \in Rects
                        /\ \A x, y \in Int : InBox(rotate_rect(rects[k], z, rot), x, y) <=>
                                               InBox(rects[k], BackX(x, y, z, rot), BackY(x, y, z, rot))
  BY <1>1, RotateRectExact
<1> HIDE DEF turned
<1>4. /\ turned \in Seq(Rects) /\ Len(turned) = n
      /\ \A k \in 1 .. n : turned[k] = rotate_rect(rects[k], z, rot)
  BY <1>1, <1>2, <1>3
<1>5. ASSUME NEW x \in Int, NEW y \in Int
      PROVE  OnRects(turned, x, y) <=> On(a, BackX(x, y, z, rot), BackY(x, y, z, rot))
  <2>1. OnRects(turned, x, y) <=> \E k \in 1 .. n : InBox(turned[k], x, y) BY <1>4 DEF OnRects
  <2> DEFINE p == BackX(x, y, z, rot)
             q == BackY(x, y, z, rot)
  <2>2. p \in Int /\ q \in Int BY TurnedBack
  <2>3. \A k \in 1 .. n : InBox(turned[k], x, y) <=> InBox(rects[k], p, q) BY <1>3, <1>4
  <2> HIDE DEF p, q
  <2>4. OnRects(turned, x, y) <=> On(a, p, q) BY <1>1, <2>1, <2>2, <2>3
  <2> QED BY <2>4 DEF p, q
<1>6. /\ IsRegion(add_rects(<<>>, turned))
      /\ \A x, y \in Int : On(add_rects(<<>>, turned), x, y) <=> On(<<>>, x, y) \/ OnRects(turned, x, y)
  BY <1>4, NoRows, AddRectsExact
<1>7. \A x, y \in Int : ~On(<<>>, x, y) BY NoRows
<1>8. /\ IsRegion(add_rects(<<>>, turned))
      /\ \A x, y \in Int : On(add_rects(<<>>, turned), x, y) <=>
                             On(a, BackX(x, y, z, rot), BackY(x, y, z, rot))
  BY <1>5, <1>6, <1>7
<1> QED BY <1>8 DEF turned, rects

-----------------------------------------------------------------------------
\* The differ.

\* The end of the block, or line of blocks, that begins at v, of those up to e.
BlockEnd(v, e) == IF v + BlockSize <= e THEN v + BlockSize ELSE e

\* Column x is in a block of the rectangle in which a pixel has changed.
DirtyColumn(changed, R, x) ==
  \E p, q \in Int : /\ <<p, q>> \in changed /\ InBox(R, p, q)
                    /\ (p - R.left) \div BlockSize = (x - R.left) \div BlockSize
\* The same of a pixel, in a grid of blocks.
DirtyPixel(changed, R, x, y) ==
  \E p, q \in Int : /\ <<p, q>> \in changed /\ InBox(R, p, q)
                    /\ (p - R.left) \div BlockSize = (x - R.left) \div BlockSize
                    /\ (q - R.top) \div BlockSize = (y - R.top) \div BlockSize
\* v is e or where a block begins, counted from o.
OnBlock(o, v, e) == v = e \/ \E n \in Int : v - o = BlockSize * n

\* The numbers in the block of those from v to before its end.
LEMMA SameBlock ==
  ASSUME NEW o \in Int, NEW v \in Int, NEW e \in Int, v < e, OnBlock(o, v, e)
  PROVE  LET next == BlockEnd(v, e) IN
         /\ next \in Int /\ v < next /\ next <= e /\ next = Min({v + BlockSize, e})
         /\ OnBlock(o, next, e)
         /\ \A z, p \in Int : v <= z /\ z < next /\ p < e =>
              ((p - o) \div BlockSize = (z - o) \div BlockSize <=> v <= p /\ p < next)
<1> DEFINE B == BlockSize
           next == BlockEnd(v, e)
<1>1. B \in Nat \ {0} BY BlockDivision
<1>2. next = IF v + B <= e THEN v + B ELSE e BY DEF BlockEnd
<1>3. next = Min({v + B, e})
  <2>1. v + B \in Int BY <1>1
  <2> QED BY <1>2, <2>1, MinMaxFacts
<1>4. PICK n \in Int : v - o = B * n BY DEF OnBlock
<1> DEFINE m == B * n
<1>5. m \in Int BY BlockDivision
<1>6. \A y \in Int : y \div B = n <=> m <= y /\ y < m + B BY InBlock
<1>7. B * (n + 1) = m + B BY <1>1
<1> HIDE DEF next, m, B
<1>8. next \in Int /\ v < next /\ next <= e BY <1>1, <1>2
<1>9. OnBlock(o, next, e)
  <2>1. CASE next = e BY <2>1 DEF OnBlock
  <2>2. CASE next = v + B
    <3>1. next - o = m + B BY <1>1, <1>4, <1>5, <2>2 DEF m
    <3>2. n + 1 \in Int /\ next - o = B * (n + 1) BY <1>7, <3>1
    <3> QED BY <3>2 DEF OnBlock, B
  <2> QED BY <1>2, <2>1, <2>2
<1>10. ASSUME NEW z \in Int, NEW p \in Int, v <= z, z < next, p < e
       PROVE  (p - o) \div B = (z - o) \div B <=> v <= p /\ p < next
  <2>1. z - o \in Int /\ p - o \in Int OBVIOUS
  <2>2. m <= z - o /\ z - o < m + B BY <1>1, <1>2, <1>4, <1>5, <1>10 DEF m
  <2>3. (z - o) \div B = n BY <1>6, <2>1, <2>2
  <2>4. (p - o) \div B = n <=> m <= p - o /\ p - o < m + B BY <1>6, <2>1
  <2>5. m <= p - o /\ p - o < m + B <=> v <= p /\ p < next
    BY <1>1, <1>2, <1>4, <1>5, <1>10 DEF m
  <2> QED BY <2>3, <2>4, <2>5
<1> QED BY <1>3, <1>8, <1>9, <1>10 DEF next, B

\* Differs finds a changed pixel of the rectangle.
LEMMA DiffersExact ==
  ASSUME NEW C \in SUBSET (Int \X Int), NEW R \in Rects
  PROVE  Differs(C, R) <=> \E p, q \in Int : <<p, q>> \in C /\ InBox(R, p, q)
<1>1. \A c \in C : c = <<c[1], c[2]>> /\ c[1] \in Int /\ c[2] \in Int OBVIOUS
<1>2. \A p, q \in Int : InRect(R, <<p, q>>) <=> InBox(R, p, q) BY CellsOn
<1>3. ASSUME NEW c \in C, InRect(R, c) PROVE \E p, q \in Int : <<p, q>> \in C /\ InBox(R, p, q)
  <2> DEFINE p == c[1]
             q == c[2]
  <2>1. c = <<p, q>> /\ p \in Int /\ q \in Int BY <1>1
  <2> HIDE DEF p, q
  <2>2. <<p, q>> \in C /\ InBox(R, p, q) BY <1>2, <1>3, <2>1
  <2> QED BY <2>1, <2>2
<1>4. ASSUME NEW p \in Int, NEW q \in Int, <<p, q>> \in C, InBox(R, p, q) PROVE \E c \in C : InRect(R, c)
  BY <1>2, <1>4
<1> QED BY <1>3, <1>4 DEF Differs

\* A rectangle with another side.
LEMMA RectSides ==
  ASSUME NEW R \in Rects, NEW v \in Int
  PROVE  /\ [R EXCEPT !.left = v] \in Rects /\ [R EXCEPT !.left = v].left = v
         /\ [R EXCEPT !.left = v].right = R.right
         /\ [R EXCEPT !.left = v].top = R.top /\ [R EXCEPT !.left = v].bottom = R.bottom
         /\ [R EXCEPT !.right = v] \in Rects /\ [R EXCEPT !.right = v].right = v
         /\ [R EXCEPT !.right = v].left = R.left
         /\ [R EXCEPT !.right = v].top = R.top /\ [R EXCEPT !.right = v].bottom = R.bottom
         /\ [R EXCEPT !.top = v] \in Rects /\ [R EXCEPT !.top = v].top = v
         /\ [R EXCEPT !.top = v].left = R.left
         /\ [R EXCEPT !.top = v].right = R.right /\ [R EXCEPT !.top = v].bottom = R.bottom
         /\ [R EXCEPT !.bottom = v] \in Rects /\ [R EXCEPT !.bottom = v].bottom = v
         /\ [R EXCEPT !.bottom = v].left = R.left
         /\ [R EXCEPT !.bottom = v].top = R.top /\ [R EXCEPT !.bottom = v].right = R.right
BY DEF Rects

\* The rectangle of the block a turn compares, and that of the dirty blocks before it.
BlockAt(s) == [s.rect EXCEPT !.left = s.x, !.right = BlockEnd(s.x, s.rect.right)]
DirtyBefore(s) == [s.rect EXCEPT !.right = s.x]

\* One turn of compare_row.
LEMMA CompareBlockTurn ==
  ASSUME NEW s \in BlocksWalk
  PROVE  LET t == CompareBlock(s) IN
         /\ s.rows \in Rows /\ s.changed \in SUBSET (Int \X Int) /\ s.rect \in Rects /\ s.x \in Int
         /\ BlockAt(s) \in Rects /\ DirtyBefore(s) \in Rects /\ BlockEnd(s.x, s.rect.right) \in Int
         /\ t \in BlocksWalk /\ t.changed = s.changed /\ t.x = BlockEnd(s.x, s.rect.right)
         /\ t.rect.top = s.rect.top /\ t.rect.right = s.rect.right /\ t.rect.bottom = s.rect.bottom
         /\ Differs(s.changed, BlockAt(s)) => t.rows = s.rows /\ t.rect = s.rect
         /\ ~Differs(s.changed, BlockAt(s)) => /\ t.rows = add_rect(s.rows, DirtyBefore(s))
                                               /\ t.rect.left = BlockEnd(s.x, s.rect.right)
<1> DEFINE t == CompareBlock(s)
           next == BlockEnd(s.x, s.rect.right)
           r == add_rect(s.rows, DirtyBefore(s))
           d == [s.rect EXCEPT !.left = next]
<1>1. s.rows \in Rows /\ s.changed \in SUBSET (Int \X Int) /\ s.rect \in Rects /\ s.x \in Int
  BY DEF BlocksWalk
<1>2. s.rect.right \in Int BY <1>1, RectFields
<1>3. next \in Int /\ next = Min({s.x + BlockSize, s.rect.right})
  <2>1. BlockSize \in Int BY BlockDivision
  <2>2. s.x + BlockSize \in Int BY <1>1, <2>1
  <2> QED BY <1>1, <1>2, <2>2, MinMaxFacts DEF BlockEnd
<1> HIDE DEF next
<1>4. BlockAt(s) = [s.rect EXCEPT !.left = s.x, !.right = next] BY DEF BlockAt, next
<1>5. BlockAt(s) \in Rects BY <1>1, <1>3, <1>4 DEF Rects
<1>6. DirtyBefore(s) \in Rects BY <1>1, RectSides DEF DirtyBefore
<1>7. r \in Rows BY <1>1, <1>6, AddRectType
<1>8. /\ d \in Rects /\ d.left = next /\ d.top = s.rect.top /\ d.right = s.rect.right
      /\ d.bottom = s.rect.bottom
  BY <1>1, <1>3 DEF Rects
<1>9. CASE Differs(s.changed, BlockAt(s))
  <2>1. t = [s EXCEPT !.x = next] BY <1>3, <1>4, <1>9 DEF CompareBlock
  <2> HIDE DEF t
  <2>2. t \in BlocksWalk /\ t.rows = s.rows /\ t.changed = s.changed /\ t.rect = s.rect /\ t.x = next
    BY <1>3, <2>1 DEF BlocksWalk
  <2> QED BY <1>1, <1>3, <1>5, <1>6, <1>9, <2>2 DEF t, next
<1>10. CASE ~Differs(s.changed, BlockAt(s))
  <2>1. t = [s EXCEPT !.x = next, !.rect.left = next, !.rows = r]
    BY <1>3, <1>4, <1>10 DEF CompareBlock, DirtyBefore
  <2>2. t = [s EXCEPT !.x = next, !.rect = d, !.rows = r]
    <3> HIDE DEF t, r
    <3> QED BY <2>1 DEF BlocksWalk
  <2> HIDE DEF t, r, d
  <2>3. t \in BlocksWalk /\ t.rows = r /\ t.changed = s.changed /\ t.rect = d /\ t.x = next
    BY <1>3, <1>7, <1>8, <2>2 DEF BlocksWalk
  <2> QED BY <1>1, <1>3, <1>5, <1>6, <1>8, <1>10, <2>3 DEF t, r, next
<1> QED BY <1>9, <1>10

BlocksAhead(s) == IF s.x >= s.rect.right THEN 0 ELSE s.rect.right - s.x

\* Every turn leaves less of the line ahead.
LEMMA CompareBlockLess ==
  ASSUME NEW s \in BlocksWalk
  PROVE  /\ BlocksAhead(s) \in Nat
         /\ ~(s.x >= s.rect.right) => BlocksAhead(CompareBlock(s)) < BlocksAhead(s)
<1> DEFINE t == CompareBlock(s)
           x == s.x
           r == s.rect.right
           y == t.x
<1>1. x \in Int /\ s.rect \in Rects BY CompareBlockTurn
<1>2. r \in Int BY <1>1, RectFields
<1>3. t.rect.right = r /\ y = BlockEnd(x, r) /\ y \in Int BY CompareBlockTurn
<1>4. BlocksAhead(s) = (IF x >= r THEN 0 ELSE r - x) /\ BlocksAhead(t) = IF y >= r THEN 0 ELSE r - y
  BY <1>3 DEF BlocksAhead
<1>5. BlockSize \in Nat \ {0} BY BlockDivision
<1>6. y = IF x + BlockSize <= r THEN x + BlockSize ELSE r BY <1>3 DEF BlockEnd
<1> DEFINE m == BlocksAhead(s)
           n == BlocksAhead(t)
<1> HIDE DEF t, x, r, y, m, n
<1>7. m = (IF x >= r THEN 0 ELSE r - x) /\ n = IF y >= r THEN 0 ELSE r - y BY <1>4 DEF m, n
<1>8. m \in Nat /\ (~(x >= r) => n < m) BY <1>1, <1>2, <1>3, <1>5, <1>6, <1>7
<1> QED BY <1>8 DEF t, x, r, m, n

\* The loop unfolds.
LEMMA ComparingBlocksLoop ==
  IsLoop(ComparingBlocks, BlocksWalk, {s \in BlocksWalk : s.x >= s.rect.right},
         [s \in BlocksWalk |-> add_rect(s.rows, s.rect)], [s \in BlocksWalk |-> CompareBlock(s)])
<1> DEFINE D == {s \in BlocksWalk : s.x >= s.rect.right}
           R == [s \in BlocksWalk |-> add_rect(s.rows, s.rect)]
           F == [s \in BlocksWalk |-> CompareBlock(s)]
           Turn(r) == [s \in BlocksWalk |-> IF s.x >= s.rect.right THEN add_rect(s.rows, s.rect)
                                            ELSE r[CompareBlock(s)]]
<1>1. F \in [BlocksWalk -> BlocksWalk] BY CompareBlockTurn
<1>2. \A r : IsLoop(r, BlocksWalk, D, R, F) <=> r = Turn(r) BY DEF IsLoop
<1>3. \E r : IsLoop(r, BlocksWalk, D, R, F)
  <2> HIDE DEF D, R, F
  <2> QED BY <1>1, LoopExists, Zenon
<1>4. ComparingBlocks = Turn(ComparingBlocks)
  <2>1. \E r : r = Turn(r) BY <1>2, <1>3, Zenon
  <2> QED BY <2>1, Zenon DEF ComparingBlocks, BlocksWalk
<1> QED BY <1>2, <1>4, Zenon

\* The invariant rule for it.
LEMMA ComparingBlocksInvariant ==
  ASSUME NEW I \in SUBSET BlocksWalk, NEW P,
         \A s \in I : s.x >= s.rect.right => add_rect(s.rows, s.rect) \in P,
         \A s \in I : ~(s.x >= s.rect.right) => CompareBlock(s) \in I
  PROVE  \A s \in I : ComparingBlocks[s] \in P
<1> DEFINE D == {s \in BlocksWalk : s.x >= s.rect.right}
           R == [s \in BlocksWalk |-> add_rect(s.rows, s.rect)]
           F == [s \in BlocksWalk |-> CompareBlock(s)]
           m == [s \in BlocksWalk |-> BlocksAhead(s)]
<1>1. IsLoop(ComparingBlocks, BlocksWalk, D, R, F) BY ComparingBlocksLoop
<1>2. Keeps(BlocksWalk, D, R, F, I, m, P)
  <2>1. m \in [BlocksWalk -> Nat] BY CompareBlockLess
  <2>2. \A s \in I : s \in D => R[s] \in P OBVIOUS
  <2>3. \A s \in I : s \notin D => F[s] \in I /\ m[F[s]] < m[s]
    <3> SUFFICES ASSUME NEW s \in I, s \notin D PROVE F[s] \in I /\ m[F[s]] < m[s] OBVIOUS
    <3>1. s \in BlocksWalk /\ ~(s.x >= s.rect.right) OBVIOUS
    <3>2. CompareBlock(s) \in I /\ CompareBlock(s) \in BlocksWalk BY <3>1, CompareBlockTurn
    <3>3. BlocksAhead(CompareBlock(s)) < BlocksAhead(s) BY <3>1, CompareBlockLess
    <3> QED BY <3>1, <3>2, <3>3
  <2> HIDE DEF D, R, F, m
  <2> QED BY <2>1, <2>2, <2>3 DEF Keeps
<1> HIDE DEF D, R, F, m
<1> QED BY <1>1, <1>2, LoopInvariant, Zenon

\* The same of two numbers.
LEMMA BlockNumbers ==
  ASSUME NEW o \in Int, NEW v \in Int, NEW e \in Int, v < e, OnBlock(o, v, e),
         NEW z \in Int, NEW p \in Int, v <= z, z < BlockEnd(v, e), p < e
  PROVE  (p - o) \div BlockSize = (z - o) \div BlockSize <=> v <= p /\ p < BlockEnd(v, e)
BY SameBlock

\* All columns of a block are dirty, or none is, as the comparison of the block says.
LEMMA BlockDirty ==
  ASSUME NEW C \in SUBSET (Int \X Int), NEW R \in Rects, NEW v \in Int,
         R.left <= v, v < R.right, OnBlock(R.left, v, R.right),
         NEW D \in Rects, D.left = v, D.right = BlockEnd(v, R.right),
         D.top = R.top, D.bottom = R.bottom
  PROVE  \A z \in Int : v <= z /\ z < D.right => (DirtyColumn(C, R, z) <=> Differs(C, D))
<1> DEFINE o == R.left
           e == R.right
           f == R.top
           g == R.bottom
           next == D.right
<1>1. o \in Int /\ e \in Int /\ f \in Int /\ g \in Int /\ next \in Int BY RectFields
<1>2. /\ next <= e
      /\ \A z, p \in Int : v <= z /\ z < next /\ p < e =>
           ((p - o) \div BlockSize = (z - o) \div BlockSize <=> v <= p /\ p < next)
  <2>1. next = BlockEnd(v, e) /\ v < e /\ OnBlock(o, v, e) /\ v \in Int OBVIOUS
  <2> HIDE DEF next, o, e
  <2>2. BlockEnd(v, e) <= e BY <1>1, <2>1, SameBlock
  <2>3. ASSUME NEW z \in Int, NEW p \in Int, v <= z, z < BlockEnd(v, e), p < e
        PROVE  (p - o) \div BlockSize = (z - o) \div BlockSize <=> v <= p /\ p < BlockEnd(v, e)
    BY <1>1, <2>1, <2>3, BlockNumbers
  <2> QED BY <2>1, <2>2, <2>3
<1>3. \A p, q \in Int : InBox(R, p, q) <=> o <= p /\ p < e /\ f <= q /\ q < g BY DEF InBox
<1>4. \A p, q \in Int : InBox(D, p, q) <=> v <= p /\ p < next /\ f <= q /\ q < g BY DEF InBox
<1>5. Differs(C, D) <=> \E p, q \in Int : <<p, q>> \in C /\ InBox(D, p, q) BY DiffersExact
<1>6. \A z \in Int : DirtyColumn(C, R, z) <=>
        \E p, q \in Int : /\ <<p, q>> \in C /\ InBox(R, p, q)
                          /\ (p - o) \div BlockSize = (z - o) \div BlockSize
  BY DEF DirtyColumn
<1>7. o <= v OBVIOUS
<1> HIDE DEF o, e, f, g, next
<1>8. ASSUME NEW z \in Int, v <= z, z < next PROVE DirtyColumn(C, R, z) <=> Differs(C, D)
  <2>1. ASSUME NEW p \in Int, NEW q \in Int
        PROVE  InBox(R, p, q) /\ (p - o) \div BlockSize = (z - o) \div BlockSize <=> InBox(D, p, q)
    <3>1. CASE p < e
      <4>1. (p - o) \div BlockSize = (z - o) \div BlockSize <=> v <= p /\ p < next
        BY <1>2, <1>8, <3>1
      <4> QED BY <1>1, <1>2, <1>3, <1>4, <1>7, <4>1
    <3>2. CASE ~(p < e) BY <1>1, <1>2, <1>3, <1>4, <3>2
    <3> QED BY <3>1, <3>2
  <2> QED BY <1>5, <1>6, <2>1
<1> QED BY <1>8 DEF next

\* compare_row makes rows of whatever it is given.
LEMMA CompareRowType ==
  ASSUME NEW a \in Rows, NEW C \in SUBSET (Int \X Int), NEW R \in Rects
  PROVE  compare_row(a, C, R) \in Rows
<1> DEFINE s0 == [rows |-> a, changed |-> C, rect |-> R, x |-> R.left]
<1>1. s0 \in BlocksWalk BY RectFields DEF BlocksWalk
<1>2. \A s \in BlocksWalk : add_rect(s.rows, s.rect) \in Rows BY AddRectType DEF BlocksWalk
<1>3. \A s \in BlocksWalk : CompareBlock(s) \in BlocksWalk BY CompareBlockTurn
<1>4. \A s \in BlocksWalk : ComparingBlocks[s] \in Rows
  BY <1>2, <1>3, ComparingBlocksInvariant
<1> QED BY <1>1, <1>4 DEF compare_row

\* What a line of blocks has added before column l.
ComparedTo(rows, a, C, R, l) ==
  /\ IsRegion(rows)
  /\ \A x, y \in Int : On(rows, x, y) <=>
       On(a, x, y) \/ (InBox(R, x, y) /\ x < l /\ DirtyColumn(C, R, x))

\* compare_row keeps this of the columns: those before the rectangle have been added,
\* those from there to x are dirty.
BlocksInv(a, C, R, s) ==
  /\ s.changed = C /\ s.rect.top = R.top /\ s.rect.right = R.right /\ s.rect.bottom = R.bottom
  /\ R.left <= s.rect.left /\ s.rect.left <= s.x /\ s.x <= R.right
  /\ OnBlock(R.left, s.x, R.right)
  /\ \A z \in Int : s.rect.left <= z /\ z < s.x => DirtyColumn(C, R, z)
  /\ ComparedTo(s.rows, a, C, R, s.rect.left)

\* What is added when the dirty blocks end, at x.
LEMMA DirtyBlocksAdded ==
  ASSUME NEW a \in Rows, NEW C \in SUBSET (Int \X Int), NEW R \in Rects,
         NEW rows \in Rows, NEW D \in Rects, NEW l \in Int, NEW x \in Int,
         R.left <= l, l <= x, x <= R.right, ComparedTo(rows, a, C, R, l),
         D.left = l, D.right = x, D.top = R.top, D.bottom = R.bottom,
         \A z \in Int : l <= z /\ z < x => DirtyColumn(C, R, z)
  PROVE  ComparedTo(add_rect(rows, D), a, C, R, x)
<1> DEFINE o == R.left
           e == R.right
           f == R.top
           g == R.bottom
<1>1. o \in Int /\ e \in Int /\ f \in Int /\ g \in Int BY RectFields
<1>2. /\ IsRegion(rows)
      /\ \A z, y \in Int : On(rows, z, y) <=>
           On(a, z, y) \/ (InBox(R, z, y) /\ z < l /\ DirtyColumn(C, R, z))
  BY DEF ComparedTo
<1>3. /\ IsRegion(add_rect(rows, D))
      /\ \A z, y \in Int : On(add_rect(rows, D), z, y) <=> On(rows, z, y) \/ InBox(D, z, y)
  BY <1>2, AddRectExact
<1>4. \A z, y \in Int : /\ InBox(R, z, y) <=> o <= z /\ z < e /\ f <= y /\ y < g
                        /\ InBox(D, z, y) <=> l <= z /\ z < x /\ f <= y /\ y < g
  BY DEF InBox
<1>5. o <= l /\ x <= e OBVIOUS
<1> HIDE DEF o, e, f, g
<1>6. ASSUME NEW z \in Int, NEW y \in Int
      PROVE  On(add_rect(rows, D), z, y) <=>
               On(a, z, y) \/ (InBox(R, z, y) /\ z < x /\ DirtyColumn(C, R, z))
  <2>1. CASE z < l BY <1>1, <1>2, <1>3, <1>4, <1>5, <2>1
  <2>2. CASE l <= z /\ z < x
    <3>1. DirtyColumn(C, R, z) BY <2>2
    <3>2. InBox(R, z, y) <=> InBox(D, z, y) BY <1>1, <1>4, <1>5, <2>2
    <3>3. ~(z < l) BY <2>2
    <3> QED BY <1>2, <1>3, <2>2, <3>1, <3>2, <3>3
  <2>3. CASE x <= z
    <3>1. ~(z < l) /\ ~(z < x) BY <2>3
    <3>2. ~InBox(D, z, y) BY <1>4, <3>1
    <3> QED BY <1>2, <1>3, <3>1, <3>2
  <2> QED BY <2>1, <2>2, <2>3
<1> QED BY <1>3, <1>6 DEF ComparedTo

\* A turn keeps the invariant.
LEMMA CompareBlockKeeps ==
  ASSUME NEW a \in Rows, NEW C \in SUBSET (Int \X Int), NEW R \in Rects,
         NEW s \in BlocksWalk, BlocksInv(a, C, R, s), ~(s.x >= s.rect.right)
  PROVE  BlocksInv(a, C, R, CompareBlock(s))
<1> DEFINE t == CompareBlock(s)
           l == s.rect.left
           x == s.x
           e == R.right
           o == R.left
           next == BlockEnd(x, e)
           D == BlockAt(s)
           E == DirtyBefore(s)
<1>1. /\ s.changed = C /\ s.rect.top = R.top /\ s.rect.right = e /\ s.rect.bottom = R.bottom
      /\ o <= l /\ l <= x /\ x <= e /\ OnBlock(o, x, e)
      /\ \A z \in Int : l <= z /\ z < x => DirtyColumn(C, R, z)
      /\ ComparedTo(s.rows, a, C, R, l)
  BY DEF BlocksInv
<1>2. /\ s.rows \in Rows /\ s.rect \in Rects /\ x \in Int /\ D \in Rects /\ E \in Rects
      /\ t \in BlocksWalk /\ t.changed = C /\ t.x = next
      /\ t.rect.top = R.top /\ t.rect.right = e /\ t.rect.bottom = R.bottom
      /\ Differs(C, D) => t.rows = s.rows /\ t.rect = s.rect
      /\ ~Differs(C, D) => t.rows = add_rect(s.rows, E) /\ t.rect.left = next
  BY <1>1, CompareBlockTurn
<1>3. l \in Int /\ o \in Int /\ e \in Int BY <1>2, RectFields
<1>4. x < e BY <1>1, <1>2, <1>3
<1>5. next \in Int /\ x < next /\ next <= e /\ OnBlock(o, next, e) BY <1>1, <1>2, <1>3, <1>4, SameBlock
<1>6. D.left = x /\ D.right = next /\ D.top = R.top /\ D.bottom = R.bottom
  <2>1. D = [s.rect EXCEPT !.left = x, !.right = next] BY <1>1 DEF BlockAt
  <2> HIDE DEF D, next, x
  <2> QED BY <1>1, <1>2, <1>5, <2>1 DEF Rects
<1>7. E.left = l /\ E.right = x /\ E.top = R.top /\ E.bottom = R.bottom
  BY <1>1, <1>2, RectSides DEF DirtyBefore
<1>8. \A z \in Int : x <= z /\ z < next => (DirtyColumn(C, R, z) <=> Differs(C, D))
  <2>1. o <= x BY <1>1, <1>2, <1>3
  <2> HIDE DEF D
  <2>2. \A z \in Int : x <= z /\ z < D.right => (DirtyColumn(C, R, z) <=> Differs(C, D))
    BY <1>1, <1>2, <1>4, <1>6, <2>1, BlockDirty
  <2> QED BY <1>6, <2>2
<1> HIDE DEF t, x, l, next, D, E, o, e
<1>9. CASE Differs(C, D)
  <2>1. t.rows = s.rows /\ t.rect.left = l BY <1>2, <1>9 DEF l
  <2>2. \A z \in Int : l <= z /\ z < next => DirtyColumn(C, R, z)
    <3> TAKE z \in Int
    <3>1. CASE z < x BY <1>1, <3>1
    <3>2. CASE x <= z BY <1>8, <1>9, <3>2
    <3> QED BY <1>2, <3>1, <3>2
  <2>3. l <= next BY <1>1, <1>2, <1>3, <1>5
  <2> QED BY <1>1, <1>2, <1>5, <2>1, <2>2, <2>3 DEF BlocksInv, o, e, t, next
<1>10. CASE ~Differs(C, D)
  <2>1. t.rows = add_rect(s.rows, E) /\ t.rect.left = next BY <1>2, <1>10
  <2>2. ComparedTo(add_rect(s.rows, E), a, C, R, x)
    BY <1>1, <1>2, <1>3, <1>7, DirtyBlocksAdded DEF o, e
  <2>3. ComparedTo(add_rect(s.rows, E), a, C, R, next)
    <3> DEFINE rows == add_rect(s.rows, E)
    <3>1. /\ IsRegion(rows)
          /\ \A z, y \in Int : On(rows, z, y) <=>
               On(a, z, y) \/ (InBox(R, z, y) /\ z < x /\ DirtyColumn(C, R, z))
      BY <2>2 DEF ComparedTo
    <3> HIDE DEF rows
    <3>2. \A z \in Int : z < x /\ DirtyColumn(C, R, z) <=> z < next /\ DirtyColumn(C, R, z)
      <4> TAKE z \in Int
      <4>1. CASE z < x BY <1>2, <1>5, <4>1
      <4>2. CASE x <= z /\ z < next BY <1>2, <1>8, <1>10, <4>2
      <4>3. CASE next <= z BY <1>2, <1>5, <4>3
      <4> QED BY <1>2, <1>5, <4>1, <4>2, <4>3
    <3>3. ComparedTo(rows, a, C, R, next) BY <3>1, <3>2 DEF ComparedTo
    <3> QED BY <3>3 DEF rows
  <2>4. o <= next BY <1>1, <1>2, <1>3, <1>5
  <2>5. \A z \in Int : ~(next <= z /\ z < next) BY <1>5
  <2> QED BY <1>2, <1>5, <2>1, <2>3, <2>4, <2>5 DEF BlocksInv, o, e, t, next
<1> QED BY <1>9, <1>10 DEF t

\* compare_row adds the columns of the blocks in which a pixel has changed, and no other.
THEOREM CompareRowExact ==
  ASSUME NEW a \in Rows, IsRegion(a), NEW C \in SUBSET (Int \X Int), NEW R \in Rects,
         R.left < R.right
  PROVE  /\ IsRegion(compare_row(a, C, R))
         /\ \A x, y \in Int : On(compare_row(a, C, R), x, y) <=>
              On(a, x, y) \/ (InBox(R, x, y) /\ DirtyColumn(C, R, x))
<1> DEFINE s0 == [rows |-> a, changed |-> C, rect |-> R, x |-> R.left]
           I == {s \in BlocksWalk : BlocksInv(a, C, R, s)}
           P == {out \in Rows : ComparedTo(out, a, C, R, R.right)}
<1>1. R.left \in Int /\ R.right \in Int BY RectFields
<1>2. s0 \in I
  <2>1. s0 \in BlocksWalk BY <1>1 DEF BlocksWalk
  <2>2. OnBlock(R.left, R.left, R.right)
    <3>1. R.left - R.left = BlockSize * 0 BY <1>1, BlockDivision
    <3> QED BY <3>1 DEF OnBlock
  <2>3. \A x, y \in Int : InBox(R, x, y) => ~(x < R.left) BY <1>1 DEF InBox
  <2>4. ComparedTo(a, a, C, R, R.left) BY <2>3 DEF ComparedTo
  <2>5. \A z \in Int : ~(R.left <= z /\ z < R.left) BY <1>1
  <2>6. BlocksInv(a, C, R, s0) BY <1>1, <2>2, <2>4, <2>5 DEF BlocksInv
  <2> QED BY <2>1, <2>6
<1>3. ASSUME NEW s \in I, s.x >= s.rect.right PROVE add_rect(s.rows, s.rect) \in P
  <2>1. s \in BlocksWalk /\ BlocksInv(a, C, R, s) OBVIOUS
  <2>2. s.rows \in Rows /\ s.rect \in Rects /\ s.x \in Int BY <2>1, CompareBlockTurn
  <2>3. s.rect.left \in Int BY <2>2, RectFields
  <2>4. s.x = R.right /\ s.rect.right = s.x BY <1>1, <1>3, <2>1, <2>2 DEF BlocksInv
  <2> HIDE DEF I
  <2>5. ComparedTo(add_rect(s.rows, s.rect), a, C, R, s.x)
    BY <2>1, <2>2, <2>3, <2>4, DirtyBlocksAdded DEF BlocksInv
  <2> QED BY <2>2, <2>4, <2>5, AddRectType
<1>4. ASSUME NEW s \in I, ~(s.x >= s.rect.right) PROVE CompareBlock(s) \in I
  BY <1>4, CompareBlockKeeps, CompareBlockTurn
<1> HIDE DEF P
<1>5. \A s \in I : ComparingBlocks[s] \in P
  <2>1. I \in SUBSET BlocksWalk OBVIOUS
  <2> HIDE DEF I
  <2> QED BY <1>3, <1>4, <2>1, ComparingBlocksInvariant
<1>6. ComparedTo(compare_row(a, C, R), a, C, R, R.right)
  BY <1>2, <1>5 DEF compare_row, P
<1>7. \A x, y \in Int : InBox(R, x, y) => x < R.right BY DEF InBox
<1> QED BY <1>6, <1>7 DEF ComparedTo

\* The line of blocks a turn compares.
LineOfBlocks(s) == [s.rect EXCEPT !.bottom = BlockEnd(s.rect.top, s.rect.bottom)]

\* One turn of compare_frames.
LEMMA CompareLineTurn ==
  ASSUME NEW s \in LinesWalk
  PROVE  LET t == CompareLine(s) IN
         /\ s.rows \in Rows /\ s.changed \in SUBSET (Int \X Int) /\ s.rect \in Rects
         /\ LineOfBlocks(s) \in Rects /\ BlockEnd(s.rect.top, s.rect.bottom) \in Int
         /\ t \in LinesWalk /\ t.changed = s.changed /\ t.rect.left = s.rect.left
         /\ t.rect.right = s.rect.right /\ t.rect.bottom = s.rect.bottom
         /\ t.rect.top = BlockEnd(s.rect.top, s.rect.bottom)
         /\ t.rows = compare_row(s.rows, s.changed, LineOfBlocks(s))
<1> DEFINE t == CompareLine(s)
           next == BlockEnd(s.rect.top, s.rect.bottom)
           r == compare_row(s.rows, s.changed, LineOfBlocks(s))
           d == [s.rect EXCEPT !.top = next]
<1>1. s.rows \in Rows /\ s.changed \in SUBSET (Int \X Int) /\ s.rect \in Rects
  BY DEF LinesWalk
<1>2. s.rect.top \in Int /\ s.rect.bottom \in Int BY <1>1, RectFields
<1>3. next \in Int /\ next = Min({s.rect.top + BlockSize, s.rect.bottom})
  <2>1. BlockSize \in Int BY BlockDivision
  <2>2. s.rect.top + BlockSize \in Int BY <1>2, <2>1
  <2> QED BY <1>2, <2>1, <2>2, MinMaxFacts DEF BlockEnd
<1> HIDE DEF next
<1>4. LineOfBlocks(s) = [s.rect EXCEPT !.bottom = next] BY DEF LineOfBlocks, next
<1>5. LineOfBlocks(s) \in Rects BY <1>1, <1>3, <1>4 DEF Rects
<1>6. r \in Rows BY <1>1, <1>5, CompareRowType
<1>7. /\ d \in Rects /\ d.top = next /\ d.left = s.rect.left /\ d.right = s.rect.right
      /\ d.bottom = s.rect.bottom
  BY <1>1, <1>3 DEF Rects
<1>8. t = [s EXCEPT !.rect.top = next, !.rows = r] BY <1>3, <1>4 DEF CompareLine
<1>9. t = [s EXCEPT !.rect = d, !.rows = r]
  <2> HIDE DEF t, r
  <2> QED BY <1>8 DEF LinesWalk
<1> HIDE DEF t, r, d
<1>10. t \in LinesWalk /\ t.rows = r /\ t.changed = s.changed /\ t.rect = d
  BY <1>6, <1>7, <1>9 DEF LinesWalk
<1> QED BY <1>1, <1>3, <1>5, <1>7, <1>10 DEF t, r, next

LinesAhead(s) == IF s.rect.top >= s.rect.bottom THEN 0 ELSE s.rect.bottom - s.rect.top

\* Every turn leaves fewer lines ahead.
LEMMA CompareLineLess ==
  ASSUME NEW s \in LinesWalk
  PROVE  /\ LinesAhead(s) \in Nat
         /\ ~(s.rect.top >= s.rect.bottom) => LinesAhead(CompareLine(s)) < LinesAhead(s)
<1> DEFINE t == CompareLine(s)
           x == s.rect.top
           r == s.rect.bottom
           y == t.rect.top
<1>1. s.rect \in Rects BY CompareLineTurn
<1>2. r \in Int /\ x \in Int BY <1>1, RectFields
<1>3. t.rect.bottom = r /\ y = BlockEnd(x, r) /\ y \in Int BY CompareLineTurn
<1>4. LinesAhead(s) = (IF x >= r THEN 0 ELSE r - x) /\ LinesAhead(t) = IF y >= r THEN 0 ELSE r - y
  BY <1>3 DEF LinesAhead
<1>5. BlockSize \in Nat \ {0} BY BlockDivision
<1>6. y = IF x + BlockSize <= r THEN x + BlockSize ELSE r BY <1>3 DEF BlockEnd
<1> DEFINE m == LinesAhead(s)
           n == LinesAhead(t)
<1> HIDE DEF t, x, r, y, m, n
<1>7. m = (IF x >= r THEN 0 ELSE r - x) /\ n = IF y >= r THEN 0 ELSE r - y BY <1>4 DEF m, n
<1>8. m \in Nat /\ (~(x >= r) => n < m) BY <1>2, <1>3, <1>5, <1>6, <1>7
<1> QED BY <1>8 DEF t, x, r, m, n

\* The loop unfolds.
LEMMA ComparingLinesLoop ==
  IsLoop(ComparingLines, LinesWalk, {s \in LinesWalk : s.rect.top >= s.rect.bottom},
         [s \in LinesWalk |-> s.rows], [s \in LinesWalk |-> CompareLine(s)])
<1> DEFINE D == {s \in LinesWalk : s.rect.top >= s.rect.bottom}
           R == [s \in LinesWalk |-> s.rows]
           F == [s \in LinesWalk |-> CompareLine(s)]
           Turn(r) == [s \in LinesWalk |-> IF s.rect.top >= s.rect.bottom THEN s.rows
                                           ELSE r[CompareLine(s)]]
<1>1. F \in [LinesWalk -> LinesWalk] BY CompareLineTurn
<1>2. \A r : IsLoop(r, LinesWalk, D, R, F) <=> r = Turn(r) BY DEF IsLoop
<1>3. \E r : IsLoop(r, LinesWalk, D, R, F)
  <2> HIDE DEF D, R, F
  <2> QED BY <1>1, LoopExists, Zenon
<1>4. ComparingLines = Turn(ComparingLines)
  <2>1. \E r : r = Turn(r) BY <1>2, <1>3, Zenon
  <2> QED BY <2>1, Zenon DEF ComparingLines, LinesWalk
<1> QED BY <1>2, <1>4, Zenon

\* The invariant rule for it.
LEMMA ComparingLinesInvariant ==
  ASSUME NEW I \in SUBSET LinesWalk, NEW P,
         \A s \in I : s.rect.top >= s.rect.bottom => s.rows \in P,
         \A s \in I : ~(s.rect.top >= s.rect.bottom) => CompareLine(s) \in I
  PROVE  \A s \in I : ComparingLines[s] \in P
<1> DEFINE D == {s \in LinesWalk : s.rect.top >= s.rect.bottom}
           R == [s \in LinesWalk |-> s.rows]
           F == [s \in LinesWalk |-> CompareLine(s)]
           m == [s \in LinesWalk |-> LinesAhead(s)]
<1>1. IsLoop(ComparingLines, LinesWalk, D, R, F) BY ComparingLinesLoop
<1>2. Keeps(LinesWalk, D, R, F, I, m, P)
  <2>1. m \in [LinesWalk -> Nat] BY CompareLineLess
  <2>2. \A s \in I : s \in D => R[s] \in P OBVIOUS
  <2>3. \A s \in I : s \notin D => F[s] \in I /\ m[F[s]] < m[s]
    <3> SUFFICES ASSUME NEW s \in I, s \notin D PROVE F[s] \in I /\ m[F[s]] < m[s] OBVIOUS
    <3>1. s \in LinesWalk /\ ~(s.rect.top >= s.rect.bottom) OBVIOUS
    <3>2. CompareLine(s) \in I /\ CompareLine(s) \in LinesWalk BY <3>1, CompareLineTurn
    <3>3. LinesAhead(CompareLine(s)) < LinesAhead(s) BY <3>1, CompareLineLess
    <3> QED BY <3>1, <3>2, <3>3
  <2> HIDE DEF D, R, F, m
  <2> QED BY <2>1, <2>2, <2>3 DEF Keeps
<1> HIDE DEF D, R, F, m
<1> QED BY <1>1, <1>2, LoopInvariant, Zenon

\* What compare_frames keeps: the lines before the rectangle's top are compared.
LinesInv(C, H, s) ==
  /\ s.changed = C /\ s.rect.left = H.left /\ s.rect.right = H.right /\ s.rect.bottom = H.bottom
  /\ H.top <= s.rect.top /\ s.rect.top <= H.bottom
  /\ OnBlock(H.top, s.rect.top, H.bottom)
  /\ IsRegion(s.rows)
  /\ \A x, y \in Int : On(s.rows, x, y) <=>
       InBox(H, x, y) /\ y < s.rect.top /\ DirtyPixel(C, H, x, y)

\* The dirty columns of a line of blocks are the dirty pixels on it.
LEMMA LineDirty ==
  ASSUME NEW C \in SUBSET (Int \X Int), NEW H \in Rects, NEW v \in Int,
         H.top <= v, v < H.bottom, OnBlock(H.top, v, H.bottom),
         NEW L \in Rects, L.top = v, L.bottom = BlockEnd(v, H.bottom),
         L.left = H.left, L.right = H.right, NEW x \in Int, NEW y \in Int, v <= y, y < L.bottom
  PROVE  DirtyColumn(C, L, x) <=> DirtyPixel(C, H, x, y)
<1> DEFINE o == H.top
           e == H.bottom
           f == H.left
           g == H.right
           next == L.bottom
<1>1. o \in Int /\ e \in Int /\ f \in Int /\ g \in Int /\ next \in Int BY RectFields
<1>2. \A p, q \in Int : InBox(H, p, q) <=> f <= p /\ p < g /\ o <= q /\ q < e BY DEF InBox
<1>3. \A p, q \in Int : InBox(L, p, q) <=> f <= p /\ p < g /\ v <= q /\ q < next BY DEF InBox
<1>4. DirtyColumn(C, L, x) <=>
        \E p, q \in Int : /\ <<p, q>> \in C /\ InBox(L, p, q)
                          /\ (p - f) \div BlockSize = (x - f) \div BlockSize
  BY DEF DirtyColumn
<1>5. DirtyPixel(C, H, x, y) <=>
        \E p, q \in Int : /\ <<p, q>> \in C /\ InBox(H, p, q)
                          /\ (p - f) \div BlockSize = (x - f) \div BlockSize
                          /\ (q - o) \div BlockSize = (y - o) \div BlockSize
  BY DEF DirtyPixel
<1>6. o <= v /\ v < e /\ v <= y /\ y < next /\ OnBlock(o, v, e) /\ next = BlockEnd(v, e) OBVIOUS
<1> HIDE DEF o, e, f, g, next
<1>7. next <= e BY <1>1, <1>6, SameBlock
<1>8. ASSUME NEW p \in Int, NEW q \in Int
      PROVE  InBox(H, p, q) /\ (q - o) \div BlockSize = (y - o) \div BlockSize <=> InBox(L, p, q)
  <2>1. CASE q < e
    <3>1. (q - o) \div BlockSize = (y - o) \div BlockSize <=> v <= q /\ q < next
      BY <1>1, <1>6, <2>1, BlockNumbers
    <3> QED BY <1>1, <1>2, <1>3, <1>6, <1>7, <3>1
  <2>2. CASE ~(q < e) BY <1>1, <1>2, <1>3, <1>7, <2>2
  <2> QED BY <2>1, <2>2
<1> QED BY <1>4, <1>5, <1>8

\* A turn keeps the invariant.
LEMMA CompareLineKeeps ==
  ASSUME NEW C \in SUBSET (Int \X Int), NEW H \in Rects, H.left < H.right,
         NEW s \in LinesWalk, LinesInv(C, H, s), ~(s.rect.top >= s.rect.bottom)
  PROVE  LinesInv(C, H, CompareLine(s))
<1> DEFINE t == CompareLine(s)
           v == s.rect.top
           o == H.top
           e == H.bottom
           next == BlockEnd(v, e)
           L == LineOfBlocks(s)
<1>1. /\ s.changed = C /\ s.rect.left = H.left /\ s.rect.right = H.right /\ s.rect.bottom = e
      /\ o <= v /\ v <= e /\ OnBlock(o, v, e) /\ IsRegion(s.rows)
      /\ \A x, y \in Int : On(s.rows, x, y) <=> InBox(H, x, y) /\ y < v /\ DirtyPixel(C, H, x, y)
  BY DEF LinesInv
<1>2. /\ s.rows \in Rows /\ s.rect \in Rects /\ L \in Rects
      /\ t \in LinesWalk /\ t.changed = C /\ t.rect.left = H.left /\ t.rect.right = H.right
      /\ t.rect.bottom = e /\ t.rect.top = next /\ t.rows = compare_row(s.rows, C, L)
  BY <1>1, CompareLineTurn
<1>3. v \in Int /\ o \in Int /\ e \in Int BY <1>2, RectFields
<1>4. v < e BY <1>1, <1>3
<1>5. next \in Int /\ v < next /\ next <= e /\ OnBlock(o, next, e) BY <1>1, <1>3, <1>4, SameBlock
<1>6. L.top = v /\ L.bottom = next /\ L.left = H.left /\ L.right = H.right
  BY <1>1, <1>2, <1>5, RectSides DEF LineOfBlocks
<1>7. \A x, y \in Int : /\ InBox(H, x, y) <=> H.left <= x /\ x < H.right /\ o <= y /\ y < e
                        /\ InBox(L, x, y) <=> H.left <= x /\ x < H.right /\ v <= y /\ y < next
  BY <1>6 DEF InBox
<1> HIDE DEF t, v, next, L
<1>8. \A x, y \in Int : v <= y /\ y < next => (DirtyColumn(C, L, x) <=> DirtyPixel(C, H, x, y))
  BY <1>1, <1>2, <1>3, <1>4, <1>6, LineDirty DEF next
<1> HIDE DEF o, e
<1>9. /\ IsRegion(t.rows)
      /\ \A x, y \in Int : On(t.rows, x, y) <=> On(s.rows, x, y) \/ (InBox(L, x, y) /\ DirtyColumn(C, L, x))
  BY <1>1, <1>2, <1>6, CompareRowExact DEF LinesWalk
<1>10. ASSUME NEW x \in Int, NEW y \in Int
       PROVE  On(t.rows, x, y) <=> InBox(H, x, y) /\ y < next /\ DirtyPixel(C, H, x, y)
  <2>1. CASE y < v BY <1>1, <1>3, <1>5, <1>7, <1>9, <2>1
  <2>2. CASE v <= y /\ y < next
    <3>1. DirtyColumn(C, L, x) <=> DirtyPixel(C, H, x, y) BY <1>8, <2>2
    <3>2. InBox(L, x, y) <=> InBox(H, x, y)
      <4>1. o <= v BY <1>1
      <4>2. o <= y /\ y < e BY <1>3, <1>5, <2>2, <4>1
      <4> QED BY <1>7, <2>2, <4>2
    <3>3. ~(y < v) BY <1>3, <2>2
    <3> QED BY <1>1, <1>9, <2>2, <3>1, <3>2, <3>3
  <2>3. CASE next <= y
    <3>1. ~(y < v) /\ ~(y < next) BY <1>3, <1>5, <2>3
    <3>2. ~InBox(L, x, y) BY <1>7, <3>1
    <3> QED BY <1>1, <1>9, <3>1, <3>2
  <2> QED BY <1>3, <1>5, <2>1, <2>2, <2>3
<1>11. o <= next BY <1>1, <1>3, <1>5
<1> QED BY <1>2, <1>5, <1>9, <1>10, <1>11 DEF LinesInv, t, o, e

\* compare_frames finds the blocks of the hint in which a pixel has changed.
THEOREM CompareFramesExact ==
  ASSUME NEW C \in SUBSET (Int \X Int), NEW z \in Sizes, NEW hint \in RectsIn(z), ~is_empty(hint)
  PROVE  /\ IsRegion(compare_frames(C, hint, z))
         /\ \A x, y \in Int : On(compare_frames(C, hint, z), x, y) <=>
              InBox(hint, x, y) /\ DirtyPixel(C, hint, x, y)
<1> DEFINE s0 == [rows |-> <<>>, changed |-> C, rect |-> hint]
           I == {s \in LinesWalk : LinesInv(C, hint, s)}
           P == {out \in Rows : /\ IsRegion(out)
                                /\ \A x, y \in Int : On(out, x, y) <=>
                                     InBox(hint, x, y) /\ DirtyPixel(C, hint, x, y)}
<1>1. z[1] \in Nat \ {0} /\ z[2] \in Nat \ {0} /\ make_size(z) = make_ltrb(0, 0, z[1], z[2])
  BY ScreenExact DEF make_size
<1>2. PICK l \in 0 .. z[1] - 1, t \in 0 .. z[2] - 1, r \in 0 .. z[1], b \in 0 .. z[2] :
        hint = make_ltrb(l, t, r, b)
  BY DEF RectsIn
<1>3. /\ hint \in Rects /\ hint.left = l /\ hint.top = t /\ hint.right = r /\ hint.bottom = b
      /\ l \in Int /\ t \in Int /\ r \in Int /\ b \in Int
  BY <1>1, <1>2 DEF make_ltrb, Rects
<1>4. l < r /\ t < b BY <1>3 DEF is_empty
<1>5. intersect_rect(hint, make_size(z)) = hint
  <2>1. /\ make_size(z).left = 0 /\ make_size(z).top = 0 /\ make_size(z).right = z[1]
        /\ make_size(z).bottom = z[2]
    BY <1>1 DEF make_ltrb
  <2>2. /\ Max({hint.left, 0}) = l /\ Max({hint.top, 0}) = t
        /\ Min({hint.right, z[1]}) = r /\ Min({hint.bottom, z[2]}) = b
    <3>1. Max({l, 0}) = l /\ Max({t, 0}) = t
      <4>1. 0 \in Int /\ l >= 0 /\ t >= 0 BY <1>1
      <4>2. Max({l, 0}) = l BY <1>3, <4>1, MinMaxFacts
      <4>3. Max({t, 0}) = t BY <1>3, <4>1, MinMaxFacts
      <4> QED BY <4>2, <4>3
    <3>2. z[1] \in Int /\ z[2] \in Int /\ r <= z[1] /\ b <= z[2] BY <1>1
    <3>3. Min({r, z[1]}) = r BY <1>3, <3>2, MinMaxFacts
    <3>4. Min({b, z[2]}) = b BY <1>3, <3>2, MinMaxFacts
    <3> QED BY <1>3, <3>1, <3>3, <3>4
  <2> QED BY <1>2, <2>1, <2>2 DEF intersect_rect
<1>6. s0 \in I
  <2>1. s0 \in LinesWalk BY <1>3, NoRows DEF LinesWalk
  <2>2. OnBlock(t, t, b)
    <3>1. t - t = BlockSize * 0 BY <1>3, BlockDivision
    <3> QED BY <3>1 DEF OnBlock
  <2>3. \A x, y \in Int : InBox(hint, x, y) => ~(y < t) BY <1>3 DEF InBox
  <2>4. LinesInv(C, hint, s0) BY <1>3, <1>4, <2>2, <2>3, NoRows DEF LinesInv
  <2> QED BY <2>1, <2>4
<1>7. ASSUME NEW s \in I, s.rect.top >= s.rect.bottom PROVE s.rows \in P
  <2>1. s \in LinesWalk /\ LinesInv(C, hint, s) OBVIOUS
  <2>2. s.rows \in Rows /\ s.rect \in Rects BY <2>1, CompareLineTurn
  <2>3. s.rect.top \in Int BY <2>2, RectFields
  <2>4. s.rect.top = b BY <1>3, <1>7, <2>1, <2>3 DEF LinesInv
  <2>5. \A x, y \in Int : InBox(hint, x, y) => y < b BY <1>3 DEF InBox
  <2> HIDE DEF I
  <2> QED BY <2>1, <2>2, <2>4, <2>5 DEF LinesInv
<1>8. ASSUME NEW s \in I, ~(s.rect.top >= s.rect.bottom) PROVE CompareLine(s) \in I
  BY <1>3, <1>4, <1>8, CompareLineKeeps, CompareLineTurn
<1> HIDE DEF P
<1>9. \A s \in I : ComparingLines[s] \in P
  <2>1. I \in SUBSET LinesWalk OBVIOUS
  <2> HIDE DEF I
  <2> QED BY <1>7, <1>8, <2>1, ComparingLinesInvariant
<1>10. compare_frames(C, hint, z) \in P BY <1>5, <1>6, <1>9 DEF compare_frames
<1> QED BY <1>10 DEF P

-----------------------------------------------------------------------------
\* The specification.

\* A region's pixels are S when its rows and spans say so.
LEMMA AreaIs ==
  ASSUME NEW a \in Rows, NEW S \in SUBSET (Int \X Int)
  PROVE  Area(a) = S <=> \A x, y \in Int : On(a, x, y) <=> <<x, y>> \in S
<1>1. Area(a) \in SUBSET (Int \X Int) /\ \A x, y \in Int : <<x, y>> \in Area(a) <=> On(a, x, y)
  BY AreaOn
<1> DEFINE A == Area(a)
<1> HIDE DEF A
<1>2. A \in SUBSET (Int \X Int) /\ \A x, y \in Int : <<x, y>> \in A <=> On(a, x, y) BY <1>1 DEF A
<1>3. ASSUME \A x, y \in Int : On(a, x, y) <=> <<x, y>> \in S PROVE A = S
  <2>1. \A x, y \in Int : <<x, y>> \in A <=> <<x, y>> \in S BY <1>2, <1>3
  <2> QED BY <1>2, <2>1, SamePixels
<1> QED BY <1>2, <1>3 DEF A

\* A set of pixels with a property.
LEMMA PixelsOf ==
  ASSUME NEW S \in SUBSET (Int \X Int), NEW c \in S
  PROVE  c = <<c[1], c[2]>> /\ c[1] \in Int /\ c[2] \in Int
OBVIOUS

\* The rectangles of a screen.
LEMMA RectInScreen ==
  ASSUME NEW z \in Sizes, NEW rect \in RectsIn(z)
  PROVE  rect \in Rects
<1>1. z[1] \in Nat \ {0} /\ z[2] \in Nat \ {0} BY ScreenExact
<1>2. PICK l \in 0 .. z[1] - 1, t \in 0 .. z[2] - 1, r \in 0 .. z[1], b \in 0 .. z[2] :
        rect = make_ltrb(l, t, r, b)
  BY DEF RectsIn
<1> QED BY <1>1, <1>2 DEF make_ltrb, Rects

\* What every step keeps: the operations rely on the order of rows and spans to give
\* the set of pixels, and give rows and spans in order.
RegionInv == TypeOK /\ AreaIsExact

\* The invariant in terms of rows and spans.
LEMMA RegionInvMeans ==
  RegionInv <=> /\ region \in Rows /\ IsRegion(region) /\ pixels \in SUBSET (Int \X Int)
                /\ size \in Sizes
                /\ \A x, y \in Int : On(region, x, y) <=> <<x, y>> \in pixels
BY AreaIs DEF RegionInv, TypeOK, AreaIsExact, IsRegion

\* What a step has to show.
LEMMA StepKeeps ==
  ASSUME IsRegion(region'), pixels' \in SUBSET (Int \X Int), size' \in Sizes,
         \A x, y \in Int : On(region', x, y) <=> <<x, y>> \in pixels'
  PROVE  RegionInv'
<1>1. region' \in Rows BY DEF IsRegion
<1>2. Area(region') = pixels' BY <1>1, AreaIs
<1> QED BY <1>2 DEF RegionInv, TypeOK, AreaIsExact

\* Adding or setting a rectangle.
LEMMA AddRectStep ==
  ASSUME RegionInv, NEW rect \in RectsIn(size), AddRect(rect) \/ SetRect(rect)
  PROVE  RegionInv'
<1>1. /\ region \in Rows /\ IsRegion(region) /\ pixels \in SUBSET (Int \X Int) /\ size \in Sizes
      /\ \A x, y \in Int : On(region, x, y) <=> <<x, y>> \in pixels
  BY RegionInvMeans
<1>2. rect \in Rects BY <1>1, RectInScreen
<1>3. /\ CellsOf(rect) \subseteq Int \X Int
      /\ \A x, y \in Int : <<x, y>> \in CellsOf(rect) <=> InBox(rect, x, y)
  BY <1>2, CellsOn
<1>4. CASE AddRect(rect)
  <2>1. region' = add_rect(region, rect) /\ pixels' = pixels \cup CellsOf(rect) /\ size' = size
    BY <1>4 DEF AddRect
  <2>2. /\ IsRegion(region')
        /\ \A x, y \in Int : On(region', x, y) <=> On(region, x, y) \/ InBox(rect, x, y)
    BY <1>1, <1>2, <2>1, AddRectExact
  <2>3. \A x, y \in Int : On(region', x, y) <=> <<x, y>> \in pixels' BY <1>1, <1>3, <2>1, <2>2
  <2> QED BY <1>1, <1>3, <2>1, <2>2, <2>3, StepKeeps
<1>5. CASE SetRect(rect)
  <2>1. region' = add_rect(<<>>, rect) /\ pixels' = CellsOf(rect) /\ size' = size
    BY <1>5 DEF SetRect
  <2>2. /\ IsRegion(region')
        /\ \A x, y \in Int : On(region', x, y) <=> On(<<>>, x, y) \/ InBox(rect, x, y)
    BY <1>2, <2>1, NoRows, AddRectExact
  <2>3. \A x, y \in Int : On(region', x, y) <=> <<x, y>> \in pixels' BY <1>3, <2>1, <2>2, NoRows
  <2> QED BY <1>1, <1>3, <2>1, <2>2, <2>3, StepKeeps
<1> QED BY <1>4, <1>5

\* The operations with another region.
LEMMA RegionStep ==
  ASSUME RegionInv, NEW other \in Arguments[size],
         AddRegion(other) \/ IntersectWith(other) \/ Subtract(other)
  PROVE  RegionInv'
<1>1. /\ region \in Rows /\ IsRegion(region) /\ pixels \in SUBSET (Int \X Int) /\ size \in Sizes
      /\ \A x, y \in Int : On(region, x, y) <=> <<x, y>> \in pixels
  BY RegionInvMeans
<1>2. other \in Rows /\ IsRegion(other) BY <1>1, ArgumentsAssumption DEF IsRegion
<1>3. /\ Area(other) \subseteq Int \X Int
      /\ \A x, y \in Int : <<x, y>> \in Area(other) <=> On(other, x, y)
  BY <1>2, AreaOn
<1>4. CASE AddRegion(other)
  <2>1. region' = add_region(region, other) /\ pixels' = pixels \cup Area(other) /\ size' = size
    BY <1>4 DEF AddRegion
  <2>2. /\ IsRegion(region')
        /\ \A x, y \in Int : On(region', x, y) <=> On(region, x, y) \/ On(other, x, y)
    BY <1>1, <1>2, <2>1, AddRegionExact
  <2>3. \A x, y \in Int : On(region', x, y) <=> <<x, y>> \in pixels' BY <1>1, <1>3, <2>1, <2>2
  <2> QED BY <1>1, <1>3, <2>1, <2>2, <2>3, StepKeeps
<1>5. CASE IntersectWith(other)
  <2>1. region' = intersect(region, other) /\ pixels' = pixels \cap Area(other) /\ size' = size
    BY <1>5 DEF IntersectWith
  <2>2. /\ IsRegion(region')
        /\ \A x, y \in Int : On(region', x, y) <=> On(region, x, y) /\ On(other, x, y)
    BY <1>1, <1>2, <2>1, IntersectExact
  <2>3. \A x, y \in Int : On(region', x, y) <=> <<x, y>> \in pixels' BY <1>1, <1>3, <2>1, <2>2
  <2> QED BY <1>1, <1>3, <2>1, <2>2, <2>3, StepKeeps
<1>6. CASE Subtract(other)
  <2>1. region' = subtract(region, other) /\ pixels' = pixels \ Area(other) /\ size' = size
    BY <1>6 DEF Subtract
  <2>2. /\ IsRegion(region')
        /\ \A x, y \in Int : On(region', x, y) <=> On(region, x, y) /\ ~On(other, x, y)
    BY <1>1, <1>2, <2>1, SubtractExact
  <2>3. \A x, y \in Int : On(region', x, y) <=> <<x, y>> \in pixels' BY <1>1, <1>3, <2>1, <2>2
  <2> QED BY <1>1, <1>3, <2>1, <2>2, <2>3, StepKeeps
<1> QED BY <1>4, <1>5, <1>6

\* Moving the region.
LEMMA TranslateStep ==
  ASSUME RegionInv, NEW dx \in Int, NEW dy \in Int, Translate(dx, dy)
  PROVE  RegionInv'
<1>1. /\ region \in Rows /\ IsRegion(region) /\ pixels \in SUBSET (Int \X Int) /\ size \in Sizes
      /\ \A x, y \in Int : On(region, x, y) <=> <<x, y>> \in pixels
  BY RegionInvMeans
<1>2. /\ region' = translate(region, dx, dy)
      /\ pixels' = {<<c[1] + dx, c[2] + dy>> : c \in pixels} /\ size' = size
  BY DEF Translate
<1>3. /\ IsRegion(region')
      /\ \A x, y \in Int : On(region', x, y) <=> On(region, x - dx, y - dy)
  BY <1>1, <1>2, TranslateExact
<1>4. \A c \in pixels : c = <<c[1], c[2]>> /\ c[1] \in Int /\ c[2] \in Int BY <1>1, PixelsOf
<1>5. pixels' \in SUBSET (Int \X Int) BY <1>2, <1>4
<1>6. ASSUME NEW x \in Int, NEW y \in Int PROVE <<x, y>> \in pixels' <=> <<x - dx, y - dy>> \in pixels
  <2> DEFINE p == x - dx
             q == y - dy
  <2>1. p \in Int /\ q \in Int /\ p + dx = x /\ q + dy = y OBVIOUS
  <2> HIDE DEF p, q
  <2>2. ASSUME <<x, y>> \in pixels' PROVE <<p, q>> \in pixels
    <3>1. PICK c \in pixels : <<x, y>> = <<c[1] + dx, c[2] + dy>> BY <1>2, <2>2
    <3>2. c[1] = p /\ c[2] = q BY <1>4, <3>1 DEF p, q
    <3> QED BY <1>4, <3>2
  <2>3. ASSUME <<p, q>> \in pixels PROVE <<x, y>> \in pixels'
    <3> DEFINE c == <<p, q>>
    <3>1. c \in pixels /\ c[1] + dx = x /\ c[2] + dy = y BY <2>1, <2>3
    <3> HIDE DEF c
    <3> QED BY <1>2, <3>1
  <2> QED BY <2>2, <2>3 DEF p, q
<1>7. \A x, y \in Int : On(region', x, y) <=> <<x, y>> \in pixels'
  <2> TAKE x, y \in Int
  <2> DEFINE p == x - dx
             q == y - dy
  <2>1. p \in Int /\ q \in Int OBVIOUS
  <2>2. On(region', x, y) <=> On(region, p, q) BY <1>3
  <2>3. <<x, y>> \in pixels' <=> <<p, q>> \in pixels BY <1>6
  <2> HIDE DEF p, q
  <2> QED BY <1>1, <2>1, <2>2, <2>3
<1> QED BY <1>1, <1>2, <1>3, <1>5, <1>7, StepKeeps

\* Taking the invalid region.
LEMMA TakeInvalidStep ==
  ASSUME RegionInv, TakeInvalidRegion
  PROVE  RegionInv'
<1>1. /\ region \in Rows /\ IsRegion(region) /\ pixels \in SUBSET (Int \X Int) /\ size \in Sizes
      /\ \A x, y \in Int : On(region, x, y) <=> <<x, y>> \in pixels
  BY RegionInvMeans
<1> DEFINE Near(p, c) == Down(p[1]) = Down(c[1]) /\ Down(p[2]) = Down(c[2])
<1>2. /\ region' = take_invalid_region(region, size)
      /\ pixels' = {c \in Cells(size) : \E p \in pixels : Near(p, c)} /\ size' = size
  BY DEF TakeInvalidRegion
<1>3. /\ IsRegion(region')
      /\ \A x, y \in Int : On(region', x, y) <=>
           /\ <<x, y>> \in Cells(size)
           /\ \E p, q \in Int : On(region, p, q) /\ Down(p) = Down(x) /\ Down(q) = Down(y)
  BY <1>1, <1>2, TakeInvalidExact
<1>4. \A c \in pixels : c = <<c[1], c[2]>> /\ c[1] \in Int /\ c[2] \in Int BY <1>1, PixelsOf
<1>5. pixels' \in SUBSET (Int \X Int) BY <1>1, <1>2, ScreenExact
<1>6. ASSUME NEW x \in Int, NEW y \in Int
      PROVE  (\E p \in pixels : Near(p, <<x, y>>)) <=>
               \E p, q \in Int : On(region, p, q) /\ Down(p) = Down(x) /\ Down(q) = Down(y)
  <2>1. ASSUME NEW c \in pixels, Near(c, <<x, y>>)
        PROVE  \E p, q \in Int : On(region, p, q) /\ Down(p) = Down(x) /\ Down(q) = Down(y)
    <3> DEFINE p == c[1]
               q == c[2]
    <3>1. p \in Int /\ q \in Int /\ <<p, q>> \in pixels /\ Down(p) = Down(x) /\ Down(q) = Down(y)
      BY <1>4, <2>1
    <3> HIDE DEF p, q
    <3> QED BY <1>1, <3>1
  <2>2. ASSUME NEW p \in Int, NEW q \in Int, On(region, p, q), Down(p) = Down(x), Down(q) = Down(y)
        PROVE  \E c \in pixels : Near(c, <<x, y>>)
    <3>1. <<p, q>> \in pixels BY <1>1, <2>2
    <3>2. Near(<<p, q>>, <<x, y>>) BY <2>2
    <3> QED BY <3>1, <3>2
  <2> QED BY <2>1, <2>2
<1> HIDE DEF Near
<1>7. \A x, y \in Int : On(region', x, y) <=> <<x, y>> \in pixels' BY <1>2, <1>3, <1>6
<1> QED BY <1>1, <1>2, <1>3, <1>5, <1>7, StepKeeps

\* Turning the screen, and the region with it.
LEMMA RotateStep ==
  ASSUME RegionInv, NEW rot \in 0 .. 3, Rotate(rot)
  PROVE  RegionInv'
<1>1. /\ region \in Rows /\ IsRegion(region) /\ pixels \in SUBSET (Int \X Int) /\ size \in Sizes
      /\ \A x, y \in Int : On(region, x, y) <=> <<x, y>> \in pixels
  BY RegionInvMeans
<1>2. /\ size' \in Sizes
      /\ pixels' = {Turned(c, size, rot) : c \in pixels}
  BY DEF Rotate
<1>3. /\ IsRegion(region')
      /\ \A x, y \in Int : On(region', x, y) <=>
                             On(region, BackX(x, y, size, rot), BackY(x, y, size, rot))
  BY <1>1, RotateExact DEF Rotate
<1>4. \A c \in pixels : c = <<c[1], c[2]>> /\ c[1] \in Int /\ c[2] \in Int BY <1>1, PixelsOf
<1>5. pixels' \in SUBSET (Int \X Int)
  <2>1. \A c \in pixels : Turned(c, size, rot) \in Int \X Int
    <3> TAKE c \in pixels
    <3>1. size[1] \in Int /\ size[2] \in Int BY <1>1, ScreenExact
    <3>2. rot = 0 \/ rot = 1 \/ rot = 2 \/ rot = 3 OBVIOUS
    <3> QED BY <1>4, <3>1, <3>2 DEF Turned
  <2> QED BY <1>2, <2>1
<1>6. ASSUME NEW x \in Int, NEW y \in Int
      PROVE  <<x, y>> \in pixels' <=> <<BackX(x, y, size, rot), BackY(x, y, size, rot)>> \in pixels
  <2> DEFINE p == BackX(x, y, size, rot)
             q == BackY(x, y, size, rot)
  <2>1. /\ p \in Int /\ q \in Int
        /\ \A u, v \in Int : Turned(<<u, v>>, size, rot) = <<x, y>> <=> u = p /\ v = q
    BY <1>1, TurnedBack
  <2> HIDE DEF p, q
  <2>2. ASSUME <<x, y>> \in pixels' PROVE <<p, q>> \in pixels
    <3>1. PICK c \in pixels : <<x, y>> = Turned(c, size, rot) BY <1>2, <2>2
    <3>2. c = <<c[1], c[2]>> /\ c[1] \in Int /\ c[2] \in Int BY <1>4
    <3>3. c[1] = p /\ c[2] = q BY <2>1, <3>1, <3>2
    <3> QED BY <3>2, <3>3
  <2>3. ASSUME <<p, q>> \in pixels PROVE <<x, y>> \in pixels'
    <3>1. Turned(<<p, q>>, size, rot) = <<x, y>> BY <2>1
    <3> QED BY <1>2, <2>3, <3>1
  <2> QED BY <2>2, <2>3 DEF p, q
<1>7. \A x, y \in Int : On(region', x, y) <=> <<x, y>> \in pixels'
  <2> TAKE x, y \in Int
  <2> DEFINE p == BackX(x, y, size, rot)
             q == BackY(x, y, size, rot)
  <2>1. p \in Int /\ q \in Int BY <1>1, TurnedBack
  <2>2. On(region', x, y) <=> On(region, p, q) BY <1>3
  <2>3. <<x, y>> \in pixels' <=> <<p, q>> \in pixels BY <1>6
  <2> HIDE DEF p, q
  <2> QED BY <1>1, <2>1, <2>2, <2>3
<1> QED BY <1>2, <1>3, <1>5, <1>7, StepKeeps

\* Comparing two frames.
LEMMA CompareFramesStep ==
  ASSUME RegionInv, NEW other \in Arguments[size], NEW hint \in RectsIn(size),
         ~is_empty(hint), CompareFrames(Area(other), hint)
  PROVE  RegionInv'
<1> DEFINE C == Area(other)
           Near(p, c) == /\ (p[1] - hint.left) \div BlockSize = (c[1] - hint.left) \div BlockSize
                         /\ (p[2] - hint.top) \div BlockSize = (c[2] - hint.top) \div BlockSize
<1>1. size \in Sizes BY RegionInvMeans
<1>2. other \in Rows BY <1>1, ArgumentsAssumption DEF IsRegion
<1>3. C \in SUBSET (Int \X Int) BY <1>2, AreaOn
<1>4. /\ region' = compare_frames(C, hint, size)
      /\ pixels' = {c \in CellsOf(hint) : \E p \in C \cap CellsOf(hint) : Near(p, c)}
      /\ size' = size
  BY DEF CompareFrames
<1> HIDE DEF C
<1>5. /\ IsRegion(region')
      /\ \A x, y \in Int : On(region', x, y) <=> InBox(hint, x, y) /\ DirtyPixel(C, hint, x, y)
  BY <1>1, <1>3, <1>4, CompareFramesExact
<1>6. /\ CellsOf(hint) \subseteq Int \X Int
      /\ \A x, y \in Int : <<x, y>> \in CellsOf(hint) <=> InBox(hint, x, y)
  BY <1>1, RectInScreen, CellsOn
<1>7. pixels' \in SUBSET (Int \X Int) BY <1>4, <1>6
<1>8. \A c \in C : c = <<c[1], c[2]>> /\ c[1] \in Int /\ c[2] \in Int BY <1>3, PixelsOf
<1>9. ASSUME NEW x \in Int, NEW y \in Int
      PROVE  (\E p \in C \cap CellsOf(hint) : Near(p, <<x, y>>)) <=> DirtyPixel(C, hint, x, y)
  <2>1. ASSUME NEW c \in C \cap CellsOf(hint), Near(c, <<x, y>>) PROVE DirtyPixel(C, hint, x, y)
    <3> DEFINE p == c[1]
               q == c[2]
    <3>1. /\ p \in Int /\ q \in Int /\ <<p, q>> = c
          /\ (p - hint.left) \div BlockSize = (x - hint.left) \div BlockSize
          /\ (q - hint.top) \div BlockSize = (y - hint.top) \div BlockSize
      BY <1>8, <2>1
    <3> HIDE DEF p, q, Near
    <3>2. <<p, q>> \in C /\ InBox(hint, p, q) BY <1>6, <3>1
    <3> QED BY <3>1, <3>2 DEF DirtyPixel
  <2>2. ASSUME DirtyPixel(C, hint, x, y) PROVE \E p \in C \cap CellsOf(hint) : Near(p, <<x, y>>)
    <3>1. PICK p, q \in Int : /\ <<p, q>> \in C /\ InBox(hint, p, q)
                              /\ (p - hint.left) \div BlockSize = (x - hint.left) \div BlockSize
                              /\ (q - hint.top) \div BlockSize = (y - hint.top) \div BlockSize
      BY <2>2 DEF DirtyPixel
    <3>2. <<p, q>> \in C \cap CellsOf(hint) BY <1>6, <3>1
    <3>3. Near(<<p, q>>, <<x, y>>) BY <3>1
    <3> HIDE DEF Near
    <3> QED BY <3>2, <3>3
  <2> QED BY <2>1, <2>2
<1> HIDE DEF Near
<1>10. \A x, y \in Int : On(region', x, y) <=> <<x, y>> \in pixels' BY <1>4, <1>5, <1>6, <1>9
<1> QED BY <1>1, <1>4, <1>5, <1>7, <1>10, StepKeeps

\* The invariant is inductive.
LEMMA RegionInvKept ==
  ASSUME RegionInv, [Next]_vars
  PROVE  RegionInv'
<1>1. ASSUME NEW rect \in RectsIn(size), AddRect(rect) \/ SetRect(rect) PROVE RegionInv'
  BY <1>1, AddRectStep
<1>2. ASSUME NEW other \in Arguments[size], AddRegion(other) \/ IntersectWith(other) \/ Subtract(other)
      PROVE  RegionInv'
  BY <1>2, RegionStep
<1>3. ASSUME NEW dx \in -1 .. 1, NEW dy \in -1 .. 1, Translate(dx, dy) PROVE RegionInv'
  <2>1. dx \in Int /\ dy \in Int OBVIOUS
  <2> QED BY <1>3, <2>1, TranslateStep
<1>4. CASE TakeInvalidRegion BY <1>4, TakeInvalidStep
<1>5. ASSUME NEW rot \in 0 .. 3, Rotate(rot) PROVE RegionInv' BY <1>5, RotateStep
<1>6. ASSUME NEW other \in Arguments[size], NEW hint \in RectsIn(size),
             ~is_empty(hint), CompareFrames(Area(other), hint)
      PROVE  RegionInv'
  BY <1>6, CompareFramesStep
<1>7. CASE UNCHANGED vars BY <1>7 DEF vars, RegionInv, TypeOK, AreaIsExact
<1> QED BY <1>1, <1>2, <1>3, <1>4, <1>5, <1>6, <1>7 DEF Next

\* It holds from the start on.
LEMMA RegionInvariant == Spec => []RegionInv
<1>1. Init => RegionInv
  <2> SUFFICES ASSUME Init PROVE RegionInv OBVIOUS
  <2>1. region = <<>> /\ pixels = {} /\ size \in Sizes BY DEF Init
  <2>2. region \in Rows /\ IsRegion(region) /\ \A x, y \in Int : ~On(region, x, y) BY <2>1, NoRows
  <2> QED BY <2>1, <2>2, RegionInvMeans
<1> QED BY <1>1, RegionInvKept, PTL DEF Spec

\* Rows and spans are in order, none is empty and spans do not touch, whatever
\* operations have been called: what each operation relies on.
THEOREM TypeCorrect == Spec => []TypeOK
<1>1. RegionInv => TypeOK BY DEF RegionInv
<1> QED BY <1>1, RegionInvariant, PTL

\* Whatever operations have been called, the region is the set of pixels it stands for.
THEOREM AreaExact == Spec => []AreaIsExact
<1>1. RegionInv => AreaIsExact BY DEF RegionInv
<1> QED BY <1>1, RegionInvariant, PTL

\* The iterator hands out every pixel once, in rectangles that depend on the pixels alone.
THEOREM IteratorPartition == Spec => []IteratorIsPartition
<1>1. ASSUME RegionInv PROVE IteratorIsPartition
  <2> DEFINE rects == Iterate(region)
             n == Len(rects)
  <2>1. /\ region \in Rows /\ IsRegion(region) /\ pixels \in SUBSET (Int \X Int) /\ size \in Sizes
        /\ \A x, y \in Int : On(region, x, y) <=> <<x, y>> \in pixels
    BY <1>1, RegionInvMeans
  <2>2. /\ n \in Nat /\ DOMAIN rects = 1 .. n /\ \A k \in 1 .. n : rects[k] \in Rects
        /\ \A x, y \in Int : (\E k \in 1 .. n : InBox(rects[k], x, y)) <=> On(region, x, y)
    BY <2>1, IterateRects
  <2>3. \A j, k \in 1 .. n : j # k =>
          \A x, y \in Int : ~(InBox(rects[j], x, y) /\ InBox(rects[k], x, y))
    BY <2>1, IteratePartition
  <2> HIDE DEF rects, n
  <2>4. ASSUME NEW k \in 1 .. n, NEW c \in CellsOf(rects[k])
        PROVE  /\ c = <<c[1], c[2]>> /\ c[1] \in Int /\ c[2] \in Int
               /\ InBox(rects[k], c[1], c[2])
    <3>1. CellsOf(rects[k]) \in SUBSET (Int \X Int) BY <2>2, CellsOn
    <3>2. c = <<c[1], c[2]>> /\ c[1] \in Int /\ c[2] \in Int BY <3>1, PixelsOf
    <3> DEFINE p == c[1]
               q == c[2]
    <3>3. p \in Int /\ q \in Int /\ <<p, q>> \in CellsOf(rects[k]) BY <3>2
    <3> HIDE DEF p, q
    <3>4. InBox(rects[k], p, q) BY <2>2, <3>3, CellsOn
    <3> QED BY <3>2, <3>4 DEF p, q
  <2>5. ASSUME NEW k \in 1 .. n, NEW c \in CellsOf(rects[k]) PROVE c \in pixels
    BY <2>1, <2>2, <2>4
  <2>6. ASSUME NEW c \in pixels PROVE \E k \in 1 .. n : InRect(rects[k], c)
    <3>1. c = <<c[1], c[2]>> /\ c[1] \in Int /\ c[2] \in Int BY <2>1, PixelsOf
    <3> DEFINE p == c[1]
               q == c[2]
    <3>2. p \in Int /\ q \in Int /\ c = <<p, q>> BY <3>1
    <3> HIDE DEF p, q
    <3>3. PICK k \in 1 .. n : InBox(rects[k], p, q) BY <2>1, <2>2, <3>2
    <3>4. InRect(rects[k], <<p, q>>) BY <2>2, <3>2, <3>3, CellsOn
    <3> QED BY <3>2, <3>4
  <2>7. ASSUME NEW j \in 1 .. n, NEW k \in 1 .. n, j # k
        PROVE  CellsOf(rects[j]) \cap CellsOf(rects[k]) = {}
    <3> SUFFICES ASSUME NEW c \in CellsOf(rects[j]) \cap CellsOf(rects[k]) PROVE FALSE OBVIOUS
    <3>1. c[1] \in Int /\ c[2] \in Int /\ InBox(rects[j], c[1], c[2]) /\ InBox(rects[k], c[1], c[2])
      BY <2>4
    <3> QED BY <2>3, <2>7, <3>1
  <2>8. ASSUME NEW other \in Arguments[size], Area(other) = pixels PROVE Iterate(other) = rects
    <3>1. other \in Rows /\ IsRegion(other) BY <2>1, ArgumentsAssumption DEF IsRegion
    <3>2. \A x, y \in Int : On(other, x, y) <=> <<x, y>> \in pixels BY <2>1, <2>8, <3>1, AreaIs
    <3>3. \A x, y \in Int : On(other, x, y) <=> On(region, x, y) BY <2>1, <3>2
    <3> QED BY <2>1, <3>1, <3>3, IterateCanonical DEF rects
  <2>9. DOMAIN rects = 1 .. n BY <2>2
  <2>10. /\ \A k \in DOMAIN rects : CellsOf(rects[k]) \subseteq pixels
         /\ \A c \in pixels : \E k \in DOMAIN rects : InRect(rects[k], c)
         /\ \A j, k \in DOMAIN rects : j # k => CellsOf(rects[j]) \cap CellsOf(rects[k]) = {}
         /\ \A other \in Arguments[size] : Area(other) = pixels => Iterate(other) = rects
    BY <2>5, <2>6, <2>7, <2>8, <2>9, Zenon
  <2> QED BY <2>10 DEF IteratorIsPartition, rects
<1> QED BY <1>1, RegionInvariant, PTL
=============================================================================
